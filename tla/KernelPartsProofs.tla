-------------------------- MODULE KernelPartsProofs --------------------------
(***************************************************************************)
(* The parts of the kernel that work on their own, for any set of tasks,   *)
(* interrupt lines, devices, states and symbols: the supervision register  *)
(* of the OpenRISC port, the device queue, the state machine, the shell,   *)
(* the C library and the serial line.                                      *)
(***************************************************************************)
EXTENDS MCKernelParts, SequenceTheorems, FiniteSetTheorems, WellFoundedInduction, TLAPS

(* Natural numbers have a smallest one: what stands for induction below.   *)
LEMMA SmallestIn ==
    ASSUME NEW S \in SUBSET Nat, S # {}
    PROVE  \E x \in S : \A y \in S : x <= y
<1> DEFINE R == OpToRel(<, Nat)
<1>1. IsWellFoundedOn(R, Nat)
  BY NatLessThanWellFounded, Zenon
<1>2. \A x, y \in Nat : y < x => <<y, x>> \in R
  BY DEF OpToRel
<1> HIDE DEF R
<1>3. PICK x \in S : \A y \in S : ~(<<y, x>> \in R)
  BY <1>1, WFMin
<1>4. \A y \in S : ~(y < x)
  BY <1>2, <1>3
<1> QED
  BY <1>3, <1>4

(* What holds of 0 and, with i - 1, of i, holds up to n.                   *)
LEMMA StepByStep ==
    ASSUME NEW n \in Nat, NEW P, 0 \in P, \A i \in 1 .. n : i - 1 \in P => i \in P
    PROVE  \A i \in 0 .. n : i \in P
<1> DEFINE D == (0 .. n) \ P
<1>1. ASSUME D # {} PROVE FALSE
  <2>1. PICK i \in D : \A j \in D : i <= j
    <3>1. D \in SUBSET Nat
      OBVIOUS
    <3> HIDE DEF D
    <3> QED
      BY <1>1, <3>1, SmallestIn
  <2>2. i \in 1 .. n
    BY <2>1
  <2>3. i - 1 \in P
    BY <2>1, <2>2
  <2> QED
    BY <2>1, <2>2, <2>3
<1> QED
  BY <1>1

(* A loop that makes each state of the one before has its sequence of states. *)
IsLoop(f, n, S, a, g) == f \in [0 .. n -> S] /\ f[0] = a /\ \A i \in 1 .. n : f[i] = g[i][f[i - 1]]
LEMMA LoopRuns ==
    ASSUME NEW n \in Nat, NEW S, NEW a \in S, NEW g \in [1 .. n -> [S -> S]]
    PROVE  \E f : IsLoop(f, n, S, a, g)
<1> DEFINE Runs(m, f) == f \in [0 .. m -> S] /\ f[0] = a /\ \A i \in 1 .. m : f[i] = g[i][f[i - 1]]
           P == {m \in 0 .. n : \E f : Runs(m, f)}
<1>1. 0 \in P
  <2>1. Runs(0, [i \in 0 .. 0 |-> a])
    OBVIOUS
  <2> HIDE DEF Runs
  <2> QED
    BY <2>1
<1>2. ASSUME NEW m \in 1 .. n, m - 1 \in P PROVE m \in P
  <2>1. PICK f : Runs(m - 1, f)
    BY <1>2
  <2> DEFINE h == [i \in 0 .. m |-> IF i = m THEN g[m][f[m - 1]] ELSE f[i]]
  <2>2. f[m - 1] \in S
    BY <2>1
  <2>3. g[m][f[m - 1]] \in S
    BY <2>2
  <2>4. h \in [0 .. m -> S] /\ h[0] = a
    BY <2>1, <2>3
  <2>5. \A i \in 1 .. m : h[i] = g[i][h[i - 1]]
    <3>1. ASSUME NEW i \in 1 .. m - 1 PROVE h[i] = g[i][h[i - 1]]
      <4>1. h[i] = f[i] /\ h[i - 1] = f[i - 1]
        OBVIOUS
      <4> QED
        BY <2>1, <4>1
    <3>2. h[m] = g[m][h[m - 1]]
      OBVIOUS
    <3>3. \A i \in 1 .. m : i \in 1 .. m - 1 \/ i = m
      OBVIOUS
    <3> HIDE DEF h
    <3> QED
      BY <3>1, <3>2, <3>3, Zenon
  <2>6. Runs(m, h)
    BY <2>4, <2>5
  <2> HIDE DEF Runs, h
  <2> QED
    BY <2>6
<1>3. n \in P
  <2>1. n \in 0 .. n
    OBVIOUS
  <2> HIDE DEF P
  <2>2. \A i \in 0 .. n : i \in P
    BY <1>1, <1>2, StepByStep
  <2> QED
    BY <2>1, <2>2
<1>4. PICK f : Runs(n, f)
  BY <1>3
<1> QED
  BY <1>4 DEF IsLoop

(***************************************************************************)
(* Critical sections and task switches on the OpenRISC port                *)
(***************************************************************************)

(* Each task has saved the enables once, with its outermost section, and   *)
(* no enables with the others.                                             *)
Stacked(c) == \A i \in 1 .. Len(c) : c[i] = IF i = 1 THEN Enables ELSE {}
(* interrupt_disable: the SR saved last is the one that the depth says.    *)
LEMMA PushStacked ==
    ASSUME NEW c \in Seq({Enables, {}}), Stacked(c)
    PROVE  LET d == Append(c, IF c = <<>> THEN Enables ELSE {})
           IN  d \in Seq({Enables, {}}) /\ d # <<>> /\ Stacked(d)
<1> DEFINE s == IF c = <<>> THEN Enables ELSE {}
           d == Append(c, s)
<1>1. Len(c) \in Nat /\ (c = <<>> <=> Len(c) = 0)
  BY LenProperties, EmptySeq
<1>2. s \in {Enables, {}}
  OBVIOUS
<1>3. /\ d \in Seq({Enables, {}}) /\ d # <<>> /\ Len(d) = Len(c) + 1
      /\ \A i \in 1 .. Len(c) : d[i] = c[i]
      /\ d[Len(c) + 1] = s
  <2> HIDE DEF s
  <2> QED
    BY <1>2, AppendProperties
<1>4. s = IF Len(c) = 0 THEN Enables ELSE {}
  BY <1>1
<1> HIDE DEF s, d
<1>5. Stacked(d)
  BY <1>1, <1>3, <1>4 DEF Stacked
<1> QED
  BY <1>3, <1>5 DEF s, d

(* interrupt_enable: the SR brought back is the one for the depth below.   *)
LEMMA PopStacked ==
    ASSUME NEW c \in Seq({Enables, {}}), c # <<>>, Stacked(c)
    PROVE  LET d == SubSeq(c, 1, Len(c) - 1)
           IN  /\ d \in Seq({Enables, {}}) /\ Stacked(d)
               /\ c[Len(c)] = IF d = <<>> THEN Enables ELSE {}
<1> DEFINE d == SubSeq(c, 1, Len(c) - 1)
<1>1. Len(c) \in Nat \ {0}
  BY LenProperties, EmptySeq
<1>2. /\ d \in Seq({Enables, {}}) /\ Len(d) = Len(c) - 1
      /\ \A i \in 1 .. Len(c) - 1 : d[i] = c[i]
  <2> DEFINE n == Len(c) - 1
  <2>1. n \in Nat /\ \A i \in 1 .. n : c[i] \in {Enables, {}}
    BY <1>1, ElementOfSeq
  <2> HIDE DEF n
  <2>2. /\ SubSeq(c, 1, n) \in Seq({Enables, {}}) /\ Len(SubSeq(c, 1, n)) = n
        /\ \A i \in 1 .. n : SubSeq(c, 1, n)[i] = c[i]
    BY <2>1, SubSeqProperties
  <2> QED
    BY <2>2 DEF n
<1> HIDE DEF d
<1>3. d = <<>> <=> Len(c) = 1
  BY <1>1, <1>2, EmptySeq
<1>4. c[Len(c)] = IF d = <<>> THEN Enables ELSE {}
  <2>1. Len(c) \in 1 .. Len(c)
    BY <1>1
  <2>2. c[Len(c)] = IF Len(c) = 1 THEN Enables ELSE {}
    BY <2>1 DEF Stacked
  <2> QED
    BY <1>3, <2>2
<1>5. Stacked(d)
  BY <1>1, <1>2 DEF Stacked
<1> QED
  BY <1>2, <1>4, <1>5 DEF d

(* A FIFO as the set of its tasks.                                         *)
FifoSet(q) == {q[i] : i \in 1 .. Len(q)}

(* Taking the entry i out leaves the others.                               *)
LEMMA WithoutKeeps ==
    ASSUME NEW q \in Seq(Job), NEW i \in 1 .. Len(q)
    PROVE  /\ Without(q, i) \in Seq(Job)
           /\ FifoSet(Without(q, i)) \subseteq FifoSet(q)
           /\ FifoSet(q) \subseteq FifoSet(Without(q, i)) \cup {q[i]}
<1>1. PICK n \in Nat : n = Len(q) /\ n # 0
  BY LenProperties
<1>2. \A j \in 1 .. n : q[j] \in Job
  BY <1>1, ElementOfSeq
<1> DEFINE w == [j \in 1 .. n - 1 |-> IF j < i THEN q[j] ELSE q[j + 1]]
<1>3. w = Without(q, i) /\ n - 1 \in Nat /\ i \in 1 .. n
  BY <1>1 DEF Without
<1>4. \A j \in 1 .. n - 1 : j \in 1 .. n /\ j + 1 \in 1 .. n
  BY <1>1
<1>5. \A j \in 1 .. n - 1 : w[j] \in Job
  BY <1>2, <1>4
<1>6. w \in Seq(Job) /\ Len(w) = n - 1
  BY <1>3, <1>5, IsASeq
<1>7. FifoSet(w) \subseteq FifoSet(q)
  BY <1>1, <1>4, <1>6 DEF FifoSet
<1>8. ASSUME NEW t \in FifoSet(q), t # q[i] PROVE t \in FifoSet(w)
  <2>1. PICK k \in 1 .. n : q[k] = t /\ k # i
    BY <1>1, <1>8 DEF FifoSet
  <2>2. CASE k < i
    <3>1. k \in 1 .. n - 1 /\ w[k] = t
      BY <1>3, <2>1, <2>2
    <3> QED
      BY <1>6, <3>1 DEF FifoSet
  <2>3. CASE k > i
    <3>1. k - 1 \in 1 .. n - 1 /\ w[k - 1] = t
      BY <1>3, <2>1, <2>3
    <3> QED
      BY <1>6, <3>1 DEF FifoSet
  <2> QED
    BY <1>3, <2>1, <2>2, <2>3
<1> QED
  BY <1>3, <1>6, <1>7, <1>8

(* prio_ready_queue_insert_tail.                                           *)
LEMMA AppendKeeps ==
    ASSUME NEW q \in Seq(Job), NEW t \in Job
    PROVE  Append(q, t) \in Seq(Job) /\ FifoSet(Append(q, t)) = FifoSet(q) \cup {t}
<1>1. /\ Append(q, t) \in Seq(Job) /\ Len(Append(q, t)) = Len(q) + 1 /\ Len(q) \in Nat
      /\ \A i \in 1 .. Len(q) : Append(q, t)[i] = q[i]
      /\ Append(q, t)[Len(q) + 1] = t
  BY AppendProperties, LenProperties
<1> QED
  BY <1>1 DEF FifoSet

(* prio_ready_queue_insert_head.                                           *)
LEMMA PrependKeeps ==
    ASSUME NEW q \in Seq(Job), NEW t \in Job
    PROVE  <<t>> \o q \in Seq(Job) /\ FifoSet(q) \subseteq FifoSet(<<t>> \o q)
<1> DEFINE p == <<t>> \o q
<1>1. <<t>> \in Seq(Job) /\ Len(<<t>>) = 1 /\ Len(q) \in Nat
  BY LenProperties
<1>2. p \in Seq(Job) /\ Len(p) = 1 + Len(q) /\ \A i \in 1 .. Len(q) : p[i + 1] = q[i]
  <2>1. /\ p \in Seq(Job) /\ Len(p) = Len(<<t>>) + Len(q)
        /\ \A i \in 1 .. Len(<<t>>) + Len(q) :
              p[i] = IF i <= Len(<<t>>) THEN <<t>>[i] ELSE q[i - Len(<<t>>)]
    BY <1>1, ConcatProperties
  <2> HIDE DEF p
  <2>2. ASSUME NEW i \in 1 .. Len(q) PROVE p[i + 1] = q[i]
    <3>1. i + 1 \in 1 .. 1 + Len(q) /\ ~(i + 1 <= 1) /\ (i + 1) - 1 = i
      BY <1>1
    <3> QED
      BY <1>1, <2>1, <3>1
  <2> QED
    BY <1>1, <2>1, <2>2
<1> HIDE DEF p
<1>3. \A i \in 1 .. Len(q) : i + 1 \in 1 .. Len(p)
  BY <1>1, <1>2
<1>4. FifoSet(q) \subseteq FifoSet(p)
  BY <1>2, <1>3 DEF FifoSet
<1> QED
  BY <1>2, <1>4 DEF p

(* prio_ready_queue_fetch finds a task of the highest priority.            *)
LEMMA FetchFinds ==
    ASSUME NEW q \in Seq(Job), FifoSet(q) # {}
    PROVE  /\ HeadOf(q) \in 1 .. Len(q) /\ Fetched(q) \in FifoSet(q) /\ Fetched(q) \in Job
           /\ \A t \in FifoSet(q) : Rank[Fetched(q)] <= Rank[t]
<1>1. Len(q) \in Nat /\ DOMAIN q = 1 .. Len(q) /\ \A i \in 1 .. Len(q) : q[i] \in Job
  BY LenProperties, ElementOfSeq
<1>2. \A i \in 1 .. Len(q) : Rank[q[i]] \in Nat
  BY <1>1, PortAssumption
<1> DEFINE R == {Rank[q[i]] : i \in 1 .. Len(q)}
<1>3. PICK m \in R : \A r \in R : m <= r
  <2>1. R \in SUBSET Nat /\ R # {}
    BY <1>2 DEF FifoSet
  <2> HIDE DEF R
  <2> QED
    BY <2>1, SmallestIn
<1> DEFINE I == {i \in 1 .. Len(q) : Rank[q[i]] = m}
<1>4. PICK k \in I : \A i \in I : k <= i
  <2>1. I \in SUBSET Nat /\ I # {}
    BY <1>3
  <2> HIDE DEF I
  <2> QED
    BY <2>1, SmallestIn
<1>5. \A j \in 1 .. Len(q) : Rank[q[k]] < Rank[q[j]] \/ (Rank[q[k]] = Rank[q[j]] /\ k <= j)
  <2> SUFFICES ASSUME NEW j \in 1 .. Len(q)
               PROVE  Rank[q[k]] < Rank[q[j]] \/ (Rank[q[k]] = Rank[q[j]] /\ k <= j)
    OBVIOUS
  <2>1. m <= Rank[q[j]] /\ m \in Nat /\ Rank[q[j]] \in Nat /\ Rank[q[k]] = m
    BY <1>2, <1>3, <1>4
  <2>2. CASE Rank[q[j]] = m
    BY <1>4, <2>1, <2>2
  <2> QED
    BY <2>1, <2>2
<1> DEFINE h == HeadOf(q)
<1>6. /\ h \in 1 .. Len(q)
      /\ \A j \in 1 .. Len(q) : Rank[q[h]] < Rank[q[j]] \/ (Rank[q[h]] = Rank[q[j]] /\ h <= j)
  BY <1>1, <1>4, <1>5 DEF HeadOf
<1>7. \A j \in 1 .. Len(q) : Rank[q[h]] <= Rank[q[j]]
  <2> HIDE DEF h
  <2> QED
    BY <1>2, <1>6
<1> QED
  BY <1>1, <1>6, <1>7 DEF Fetched, FifoSet

(* Tasks have different priorities.                                        *)
RanksDiffer == \A t, u \in Job : Rank[t] = Rank[u] => t = u

(* A fetch takes no task out, and while priorities differ the next one     *)
(* finds the same task.                                                    *)
LEMMA FetchAgain ==
    ASSUME NEW q \in Seq(Job), FifoSet(q) # {}
    PROVE  /\ Rotated(q) \in Seq(Job) /\ FifoSet(Rotated(q)) = FifoSet(q)
           /\ RanksDiffer => Fetched(Rotated(q)) = Fetched(q)
<1> DEFINE w == Without(q, HeadOf(q))
<1>1. HeadOf(q) \in 1 .. Len(q) /\ Fetched(q) \in Job /\ Fetched(q) = q[HeadOf(q)] /\ Fetched(q) \in FifoSet(q)
  BY FetchFinds DEF Fetched
<1>2. /\ w \in Seq(Job) /\ FifoSet(w) \subseteq FifoSet(q)
      /\ FifoSet(q) \subseteq FifoSet(w) \cup {Fetched(q)}
  BY <1>1, WithoutKeeps
<1>3. Rotated(q) \in Seq(Job) /\ FifoSet(Rotated(q)) = FifoSet(w) \cup {Fetched(q)}
  <2> HIDE DEF w
  <2>1. Append(w, Fetched(q)) \in Seq(Job) /\ FifoSet(Append(w, Fetched(q))) = FifoSet(w) \cup {Fetched(q)}
    BY <1>1, <1>2, AppendKeeps
  <2> QED
    BY <2>1 DEF Rotated, w
<1> HIDE DEF w
<1>4. FifoSet(Rotated(q)) = FifoSet(q)
  BY <1>1, <1>2, <1>3
<1>5. PICK a, b : a = Fetched(q) /\ b = Fetched(Rotated(q))
  OBVIOUS
<1>6. a \in Job /\ b \in Job /\ Rank[a] <= Rank[b] /\ Rank[b] <= Rank[a]
  BY <1>3, <1>4, <1>5, FetchFinds
<1>7. RanksDiffer => a = b
  BY <1>6, PortAssumption DEF RanksDiffer
<1> QED
  BY <1>3, <1>4, <1>5, <1>7

(* The stack and the cpu_sr of a task that was switched away from: it has  *)
(* not run yet, it called schedule(), or a tick took it out.               *)
Saved(stk, c) ==
    \/ stk = <<Frame(Enables, "task")>> /\ c = <<>>
    \/ stk = <<Frame({}, "sys")>> /\ c # <<>> /\ Stacked(c)
    \/ stk = <<Frame(Enables, "task"), Frame({}, "sys")>> /\ c = <<{}>>
(* Those of the task that runs, with SR and where it is.                   *)
RunsOn(stk, c, s, p) ==
    \/ p = "task" /\ stk = <<>> /\ Stacked(c) /\ s = (IF c = <<>> THEN Enables ELSE {})
    \/ p = "sys" /\ s = {} /\ stk = <<>> /\ c # <<>> /\ Stacked(c)
    \/ p = "sys" /\ s = {} /\ stk = <<Frame(Enables, "task")>> /\ c = <<{}>>
Frames == [sr : {Enables, {}}, at : {"task", "sys"}]
PortInv ==
    /\ readyFifo \in Seq(Job) /\ IdleJob \in FifoSet(readyFifo)
    /\ job \in Job /\ newTask = job
    /\ cpuSr \in [Job -> Seq({Enables, {}})] /\ stack \in [Job -> Seq(Frames)]
    /\ stackPtr \in [Job -> [of : Job, depth : Nat]]
    /\ \A t \in Job \ {job} : /\ Saved(stack[t], cpuSr[t])
                              /\ stackPtr[t].of = t /\ stackPtr[t].depth = Len(stack[t])
    /\ RunsOn(stack[job], cpuSr[job], sr, pc)
    /\ pc = "sys" => Fetched(readyFifo) = job

(* A saved task is resumed from its last frame.                            *)
LEMMA SavedRuns ==
    ASSUME NEW stk \in Seq(Frames), NEW c \in Seq({Enables, {}}), Saved(stk, c)
    PROVE  /\ Len(stk) \in Nat /\ Len(stk) \in 1 .. Len(stk)
           /\ SubSeq(stk, 1, Len(stk) - 1) \in Seq(Frames)
           /\ RunsOn(SubSeq(stk, 1, Len(stk) - 1), c, stk[Len(stk)].sr, stk[Len(stk)].at)
<1>1. Stacked(<<>>)
  BY DEF Stacked
<1>2. CASE stk = <<Frame(Enables, "task")>> /\ c = <<>>
  <2>1. Len(stk) = 1 /\ stk[1].sr = Enables /\ stk[1].at = "task" /\ SubSeq(stk, 1, 0) = <<>>
    BY <1>2 DEF Frame
  <2> QED
    BY <1>1, <1>2, <2>1 DEF RunsOn
<1>3. CASE stk = <<Frame({}, "sys")>> /\ c # <<>> /\ Stacked(c)
  <2>1. Len(stk) = 1 /\ stk[1].sr = {} /\ stk[1].at = "sys" /\ SubSeq(stk, 1, 0) = <<>>
    BY <1>3 DEF Frame
  <2> QED
    BY <1>3, <2>1 DEF RunsOn
<1>4. CASE stk = <<Frame(Enables, "task"), Frame({}, "sys")>> /\ c = <<{}>>
  <2>1. /\ Len(stk) = 2 /\ stk[2].sr = {} /\ stk[2].at = "sys"
        /\ SubSeq(stk, 1, 1) = <<Frame(Enables, "task")>> /\ Frame(Enables, "task") \in Frames
    <3>1. PICK a, b : a = Frame(Enables, "task") /\ b = Frame({}, "sys") /\ stk = <<a, b>>
      BY <1>4
    <3>2. Len(<<a, b>>) = 2 /\ <<a, b>>[2] = b /\ SubSeq(<<a, b>>, 1, 1) = <<a>>
      <4>1. stk \in Seq(Frames) /\ Len(stk) = 2 /\ stk[1] = a /\ stk[2] = b /\ a \in Frames
        <5>1. a \in Frames
          BY <3>1 DEF Frame, Frames
        <5> QED
          BY <3>1, <5>1
      <4>2. /\ SubSeq(stk, 1, 1) \in Seq(Frames) /\ Len(SubSeq(stk, 1, 1)) = 1
            /\ SubSeq(stk, 1, 1)[1] = a
        <5>1. PICK n \in Int : n = 1
          OBVIOUS
        <5>2. \A i \in n .. n : stk[i] \in Frames
          BY <4>1, <5>1
        <5>3. /\ SubSeq(stk, n, n) \in Seq(Frames)
              /\ Len(SubSeq(stk, n, n)) = IF n <= n THEN n - n + 1 ELSE 0
              /\ \A i \in 1 .. n - n + 1 : SubSeq(stk, n, n)[i] = stk[n + i - 1]
          BY <5>2, SubSeqProperties
        <5>4. 1 \in 1 .. n - n + 1 /\ n + 1 - 1 = 1 /\ n - n + 1 = 1
          BY <5>1
        <5> QED
          BY <4>1, <5>1, <5>3, <5>4
      <4>3. <<a>> \in Seq(Frames) /\ Len(<<a>>) = 1 /\ <<a>>[1] = a
        BY <4>1
      <4>4. SubSeq(stk, 1, 1) = <<a>>
        <5>1. PICK e, f : e = SubSeq(stk, 1, 1) /\ f = <<a>>
          OBVIOUS
        <5>2. e \in Seq(Frames) /\ f \in Seq(Frames) /\ Len(e) = Len(f) /\ \A i \in 1 .. Len(e) : e[i] = f[i]
          BY <4>2, <4>3, <5>1
        <5> QED
          BY <5>1, <5>2, SeqEqual
      <4> QED
        BY <3>1, <4>1, <4>4
    <3>3. b.sr = {} /\ b.at = "sys" /\ a \in Frames
      BY <3>1 DEF Frame, Frames
    <3> QED
      BY <3>1, <3>2, <3>3
  <2> QED
    BY <1>4, <2>1 DEF RunsOn
<1> QED
  BY <1>2, <1>3, <1>4 DEF Saved

(* After reset the idle task runs and the others are as stack_init left    *)
(* them.                                                                   *)
LEMMA PortInvInit == PortInit => PortInv
<1> SUFFICES ASSUME PortInit PROVE PortInv
  OBVIOUS
<1>1. Stacked(<<>>) /\ <<>> \in Seq({Enables, {}}) /\ <<>> \in Seq(Frames)
  BY DEF Stacked
<1>2. IdleJob \in FifoSet(Created) /\ Created \in Seq(Job) /\ IdleJob \in Job
  <2>1. DOMAIN Created = 1 .. Len(Created)
    BY PortAssumption, LenProperties
  <2> QED
    BY <2>1, PortAssumption DEF FifoSet
<1>3. <<Frame(Enables, "task")>> \in Seq(Frames) /\ Len(<<Frame(Enables, "task")>>) = 1
  <2>1. Frame(Enables, "task") \in Frames
    BY DEF Frame, Frames
  <2> QED
    BY <2>1
<1>4. stack \in [Job -> Seq(Frames)] /\ stackPtr \in [Job -> [of : Job, depth : Nat]]
  BY <1>1, <1>3 DEF PortInit
<1>5. \A t \in Job \ {job} : /\ Saved(stack[t], cpuSr[t])
                              /\ stackPtr[t].of = t /\ stackPtr[t].depth = Len(stack[t])
  BY <1>3 DEF PortInit, Saved
<1>6. RunsOn(stack[job], cpuSr[job], sr, pc) /\ pc = "task"
  BY <1>1, <1>2 DEF PortInit, RunsOn
<1> QED
  BY <1>1, <1>2, <1>4, <1>5, <1>6 DEF PortInv, PortInit

(* task_switch: the task that runs is saved and one that is saved resumed. *)
LEMMA SwitchKeeps ==
    ASSUME PortInv, NEW u \in Job \ {job}, NEW fs \in Seq(Frames), TaskSwitch(u, fs),
           NEW c \in Seq({Enables, {}}), cpuSr' = [cpuSr EXCEPT ![job] = c],
           Saved(stack[job] \o fs, c),
           readyFifo' \in Seq(Job), IdleJob \in FifoSet(readyFifo'), Fetched(readyFifo') = u
    PROVE  PortInv'
<1>1. PICK j, k : /\ j = job /\ j \in Job /\ k = [stack EXCEPT ![j] = @ \o fs]
                  /\ newTask = j /\ stack \in [Job -> Seq(Frames)] /\ cpuSr \in [Job -> Seq({Enables, {}})]
                  /\ stackPtr \in [Job -> [of : Job, depth : Nat]]
  BY DEF PortInv
<1>2. PICK ptr : ptr = [stackPtr EXCEPT ![j] = [of |-> j, depth |-> Len(k[j])]]
  OBVIOUS
<1>3. Resume(u, k, ptr)
  BY <1>1, <1>2 DEF TaskSwitch
<1>4. /\ k[j] = stack[j] \o fs /\ \A t \in Job \ {j} : k[t] = stack[t]
      /\ k \in [Job -> Seq(Frames)] /\ Len(k[j]) \in Nat
  <2>1. stack[j] \o fs \in Seq(Frames)
    BY <1>1, ConcatProperties
  <2> QED
    BY <1>1, <2>1, LenProperties
<1>5. /\ ptr \in [Job -> [of : Job, depth : Nat]] /\ ptr[j] = [of |-> j, depth |-> Len(k[j])]
      /\ \A t \in Job \ {j} : ptr[t] = stackPtr[t]
  BY <1>1, <1>2, <1>4
<1>6. u \in Job \ {j} /\ ptr[u].of = u /\ ptr[u].depth = Len(stack[u]) /\ Saved(stack[u], cpuSr[u])
  BY <1>1, <1>5 DEF PortInv
<1>7. PICK s, d : /\ s = stack[u] /\ d = Len(s) /\ s \in Seq(Frames) /\ k[u] = s
                  /\ ptr[u].of = u /\ ptr[u].depth = d
  BY <1>1, <1>4, <1>6
<1>8. /\ d \in 1 .. Len(s) /\ SubSeq(s, 1, d - 1) \in Seq(Frames)
      /\ RunsOn(SubSeq(s, 1, d - 1), cpuSr[u], s[d].sr, s[d].at)
  BY <1>1, <1>6, <1>7, SavedRuns
<1>9. /\ newTask' = u /\ job' = u /\ sr' = s[d].sr /\ pc' = s[d].at
      /\ stack' = [k EXCEPT ![u] = SubSeq(s, 1, d - 1)]
      /\ stackPtr' = [ptr EXCEPT ![u].depth = 0]
  BY <1>3, <1>7, <1>8 DEF Resume
<1>10. /\ stack' \in [Job -> Seq(Frames)] /\ stack'[u] = SubSeq(s, 1, d - 1)
       /\ \A t \in Job \ {u} : stack'[t] = k[t]
  BY <1>4, <1>6, <1>8, <1>9
<1>11. /\ stackPtr' \in [Job -> [of : Job, depth : Nat]]
       /\ \A t \in Job \ {u} : stackPtr'[t] = ptr[t]
  BY <1>5, <1>6, <1>9
<1>12. /\ cpuSr' \in [Job -> Seq({Enables, {}})] /\ cpuSr'[j] = c
       /\ \A t \in Job \ {j} : cpuSr'[t] = cpuSr[t]
  BY <1>1
<1>13. RunsOn(stack'[u], cpuSr'[u], sr', pc')
  BY <1>6, <1>8, <1>9, <1>10, <1>12
<1>14. \A t \in Job \ {u} : /\ Saved(stack'[t], cpuSr'[t])
                             /\ stackPtr'[t].of = t /\ stackPtr'[t].depth = Len(stack'[t])
  <2> SUFFICES ASSUME NEW t \in Job \ {u}
               PROVE  /\ Saved(stack'[t], cpuSr'[t])
                      /\ stackPtr'[t].of = t /\ stackPtr'[t].depth = Len(stack'[t])
    OBVIOUS
  <2>1. CASE t = j
    <3>1. stack'[t] = k[j] /\ cpuSr'[t] = c /\ stackPtr'[t] = [of |-> j, depth |-> Len(k[j])]
      BY <1>5, <1>10, <1>11, <1>12, <2>1
    <3>2. Saved(k[j], c)
      BY <1>1, <1>4
    <3> QED
      BY <2>1, <3>1, <3>2
  <2>2. CASE t # j
    <3>1. t \in Job \ {job} /\ stack'[t] = stack[t] /\ cpuSr'[t] = cpuSr[t] /\ stackPtr'[t] = stackPtr[t]
      BY <1>1, <1>4, <1>5, <1>10, <1>11, <1>12, <2>2
    <3> QED
      BY <3>1 DEF PortInv
  <2> QED
    BY <2>1, <2>2
<1>15. u \in Job /\ (pc' = "sys" => Fetched(readyFifo') = job')
  BY <1>9
<1> QED
  BY <1>9, <1>10, <1>11, <1>12, <1>13, <1>14, <1>15 DEF PortInv

(* Sections, switches and ticks keep it, while no two tasks share a        *)
(* priority.                                                               *)
LEMMA PortInvNext == RanksDiffer /\ (stale \/ PortInv) /\ [PortNext]_portVars => stale' \/ PortInv'
<1> SUFFICES ASSUME RanksDiffer, PortInv, [PortNext]_portVars, ~stale'
             PROVE  PortInv'
  BY DEF PortNext, portVars, pic
<1>0. Enables # {} /\ "task" # "sys"
  BY DEF Enables
<1>1. ASSUME UNCHANGED <<sr, cpuSr, job, pc, stack, stackPtr, newTask>>,
             readyFifo' \in Seq(Job), IdleJob \in FifoSet(readyFifo'),
             pc = "sys" => readyFifo' = readyFifo
      PROVE  PortInv'
  BY <1>1 DEF PortInv
<1>2. ASSUME NEW t \in Job, InTask(t),
             NEW c \in Seq({Enables, {}}), Stacked(c), cpuSr' = [cpuSr EXCEPT ![t] = c],
             sr' = (IF c = <<>> THEN Enables ELSE {}),
             UNCHANGED <<job, pc, stack, stackPtr, readyFifo, newTask>>
      PROVE  PortInv'
  <2>1. job = t /\ pc = "task" /\ stack[t] = <<>>
    BY <1>0, <1>2 DEF InTask, PortInv, RunsOn
  <2>2. /\ cpuSr' \in [Job -> Seq({Enables, {}})] /\ cpuSr'[t] = c
        /\ \A u \in Job \ {t} : cpuSr'[u] = cpuSr[u]
    BY <1>2 DEF PortInv
  <2>3. RunsOn(stack'[job'], cpuSr'[job'], sr', pc')
    BY <1>2, <2>1, <2>2 DEF RunsOn
  <2>4. \A u \in Job \ {job'} : /\ Saved(stack'[u], cpuSr'[u])
                                /\ stackPtr'[u].of = u /\ stackPtr'[u].depth = Len(stack'[u])
    BY <1>2, <2>1, <2>2 DEF PortInv
  <2> QED
    BY <1>0, <1>2, <2>1, <2>2, <2>3, <2>4 DEF PortInv
<1>3. ASSUME NEW t \in Job, InTask(t)
      PROVE  /\ job = t /\ pc = "task" /\ stack[t] = <<>> /\ cpuSr[t] \in Seq({Enables, {}})
             /\ Stacked(cpuSr[t]) /\ sr = (IF cpuSr[t] = <<>> THEN Enables ELSE {})
             /\ newTask = t
  BY <1>0, <1>3 DEF InTask, PortInv, RunsOn
<1>4. ASSUME NEW t \in Job, InterruptDisable(t) PROVE PortInv'
  <2>1. InTask(t) /\ cpuSr' = [cpuSr EXCEPT ![t] = Append(cpuSr[t], sr)] /\ sr' = {}
    BY <1>4 DEF InterruptDisable
  <2>2. PICK c : c = Append(cpuSr[t], sr)
    OBVIOUS
  <2>3. c \in Seq({Enables, {}}) /\ c # <<>> /\ Stacked(c)
    BY <1>3, <2>1, <2>2, PushStacked
  <2> QED
    BY <1>2, <1>4, <2>1, <2>2, <2>3 DEF InterruptDisable, stacks
<1>5. ASSUME NEW t \in Job, InterruptEnable(t) PROVE PortInv'
  <2>1. InTask(t) /\ cpuSr[t] # <<>> /\ sr' = Top(cpuSr[t])
        /\ cpuSr' = [cpuSr EXCEPT ![t] = Below(cpuSr[t])]
    BY <1>5 DEF InterruptEnable
  <2>2. PICK c : c = Below(cpuSr[t])
    OBVIOUS
  <2>3. c \in Seq({Enables, {}}) /\ Stacked(c) /\ sr' = (IF c = <<>> THEN Enables ELSE {})
    BY <1>3, <2>1, <2>2, PopStacked DEF Top, Below
  <2> QED
    BY <1>2, <1>5, <2>1, <2>2, <2>3 DEF InterruptEnable, stacks
<1>6. ASSUME NEW t \in Job, BlockIn(t) PROVE PortInv'
  <2>1. PICK i \in DOMAIN readyFifo : readyFifo[i] = t /\ readyFifo' = Without(readyFifo, i)
    BY <1>6 DEF BlockIn
  <2>2. i \in 1 .. Len(readyFifo) /\ readyFifo \in Seq(Job) /\ IdleJob \in FifoSet(readyFifo)
    BY <2>1, LenProperties DEF PortInv
  <2>3. readyFifo' \in Seq(Job) /\ IdleJob \in FifoSet(readyFifo')
    BY <1>6, <2>1, <2>2, WithoutKeeps DEF BlockIn
  <2> QED
    BY <1>0, <1>1, <1>6, <2>3 DEF BlockIn, InTask, stacks
<1>7. ASSUME NEW t \in Job, NEW u \in Job, Wakes(t, u) PROVE PortInv'
  <2>1. readyFifo' \in Seq(Job) /\ IdleJob \in FifoSet(readyFifo')
    <3>1. CASE readyFifo' = Append(readyFifo, u)
      BY <3>1, AppendKeeps DEF PortInv
    <3>2. CASE readyFifo' = <<u>> \o readyFifo
      BY <3>2, PrependKeeps DEF PortInv
    <3> QED
      BY <1>7, <3>1, <3>2 DEF Wakes
  <2> QED
    BY <1>0, <1>1, <1>7, <2>1 DEF Wakes, InTask, stacks
<1>8. ASSUME NEW q \in Seq(Job), IdleJob \in FifoSet(q)
      PROVE  /\ Fetched(q) \in Job
             /\ Rotated(q) \in Seq(Job) /\ IdleJob \in FifoSet(Rotated(q))
             /\ Fetched(Rotated(q)) = Fetched(q)
  <2>1. FifoSet(q) # {}
    BY <1>8
  <2> QED
    BY <1>8, <2>1, FetchFinds, FetchAgain
<1>9. readyFifo \in Seq(Job) /\ IdleJob \in FifoSet(readyFifo)
  BY DEF PortInv
<1>10. Frame({}, "sys") \in Frames /\ \A s \in {Enables, {}} : Frame(s, "task") \in Frames
  BY DEF Frame, Frames
<1>11. ASSUME NEW t \in Job, PortSchedule(t) PROVE PortInv'
  <2>1. InTask(t) /\ readyFifo' = Rotated(readyFifo)
    BY <1>11 DEF PortSchedule
  <2>2. /\ readyFifo' \in Seq(Job) /\ IdleJob \in FifoSet(readyFifo')
        /\ Fetched(readyFifo') = Fetched(readyFifo) /\ Fetched(readyFifo) \in Job
    BY <1>8, <1>9, <2>1
  <2>3. CASE Fetched(readyFifo) = newTask
    BY <1>0, <1>1, <1>3, <1>11, <2>1, <2>2, <2>3 DEF PortSchedule, stacks
  <2>4. CASE Fetched(readyFifo) # newTask
    <3>1. /\ cpuSr' = [cpuSr EXCEPT ![t] = Append(cpuSr[t], sr)]
          /\ TaskSwitch(Fetched(readyFifo), <<Frame({}, "sys")>>)
      BY <1>11, <2>4 DEF PortSchedule
    <3>2. PICK c, u, fs : c = Append(cpuSr[t], sr) /\ u = Fetched(readyFifo) /\ fs = <<Frame({}, "sys")>>
      OBVIOUS
    <3>3. c \in Seq({Enables, {}}) /\ c # <<>> /\ Stacked(c)
      BY <1>3, <2>1, <3>2, PushStacked
    <3>4. fs \in Seq(Frames) /\ stack[t] \o fs = <<Frame({}, "sys")>>
      <4>1. PICK a \in Frames : a = Frame({}, "sys")
        BY <1>10
      <4>2. <<a>> \in Seq(Frames) /\ <<>> \o <<a>> = <<a>>
        BY <4>1, ConcatEmptySeq
      <4> QED
        BY <1>3, <2>1, <3>2, <4>1, <4>2
    <3>5. Saved(stack[t] \o fs, c)
      BY <3>3, <3>4 DEF Saved
    <3>6. u \in Job \ {job} /\ job = t
      BY <1>3, <2>1, <2>2, <2>4, <3>2
    <3>7. Fetched(readyFifo') = u
      BY <2>2, <3>2
    <3> QED
      BY <2>2, <3>1, <3>2, <3>3, <3>4, <3>5, <3>6, <3>7, SwitchKeeps
  <2> QED
    BY <2>3, <2>4
<1>12. ASSUME ScheduleReturns PROVE PortInv'
  <2>1. PICK j : j = job /\ j \in Job
    BY DEF PortInv
  <2>2. pc = "sys" /\ pc' = "task" /\ cpuSr' = [cpuSr EXCEPT ![j] = Below(@)] /\ job' = j /\ stackPtr' = stackPtr
    BY <1>12, <2>1 DEF ScheduleReturns
  <2>3. \/ stack[j] = <<>> /\ cpuSr[j] # <<>> /\ Stacked(cpuSr[j])
        \/ stack[j] = <<Frame(Enables, "task")>> /\ cpuSr[j] = <<{}>>
    BY <1>0, <2>1, <2>2 DEF PortInv, RunsOn
  <2>4. cpuSr[j] \in Seq({Enables, {}}) /\ newTask = j /\ Fetched(readyFifo) = j
    BY <2>1, <2>2 DEF PortInv
  <2>5. ASSUME NEW c \in Seq({Enables, {}}), Stacked(c), cpuSr' = [cpuSr EXCEPT ![j] = c],
               stack' = [stack EXCEPT ![j] = <<>>], newTask' = j,
               sr' = (IF c = <<>> THEN Enables ELSE {}),
               readyFifo' \in Seq(Job), IdleJob \in FifoSet(readyFifo')
        PROVE  PortInv'
    <3>1. /\ cpuSr' \in [Job -> Seq({Enables, {}})] /\ cpuSr'[j] = c
          /\ \A u \in Job \ {j} : cpuSr'[u] = cpuSr[u]
      BY <2>1, <2>5 DEF PortInv
    <3>2. /\ stack' \in [Job -> Seq(Frames)] /\ stack'[j] = <<>>
          /\ \A u \in Job \ {j} : stack'[u] = stack[u]
      BY <2>1, <2>5 DEF PortInv
    <3>3. RunsOn(stack'[j], cpuSr'[j], sr', pc')
      BY <2>2, <2>5, <3>1, <3>2 DEF RunsOn
    <3>4. \A u \in Job \ {j} : /\ Saved(stack'[u], cpuSr'[u])
                               /\ stackPtr'[u].of = u /\ stackPtr'[u].depth = Len(stack'[u])
      BY <2>1, <2>2, <3>1, <3>2 DEF PortInv
    <3>5. stackPtr' \in [Job -> [of : Job, depth : Nat]] /\ (pc' = "sys" => Fetched(readyFifo') = job')
      BY <1>0, <2>2 DEF PortInv
    <3> QED
      BY <2>1, <2>2, <2>5, <3>1, <3>2, <3>3, <3>4, <3>5 DEF PortInv
  <2>6. CASE stack[j] = <<>> /\ cpuSr[j] # <<>> /\ Stacked(cpuSr[j])
    <3>1. sr' = Top(cpuSr[j]) /\ UNCHANGED <<stack, readyFifo, newTask>>
      BY <1>12, <2>1, <2>6 DEF ScheduleReturns
    <3>2. PICK c : c = Below(cpuSr[j])
      OBVIOUS
    <3>3. c \in Seq({Enables, {}}) /\ Stacked(c) /\ sr' = (IF c = <<>> THEN Enables ELSE {})
      BY <2>4, <2>6, <3>1, <3>2, PopStacked DEF Top, Below
    <3>4. stack' = [stack EXCEPT ![j] = <<>>]
      BY <2>1, <2>6, <3>1 DEF PortInv
    <3> QED
      BY <1>9, <2>2, <2>4, <2>5, <3>1, <3>2, <3>3, <3>4
  <2>7. CASE stack[j] = <<Frame(Enables, "task")>> /\ cpuSr[j] = <<{}>>
    <3>1. /\ readyFifo' = Rotated(readyFifo) /\ newTask' = Fetched(readyFifo)
          /\ sr' = Top(stack[j]).sr /\ stack' = [stack EXCEPT ![j] = Below(stack[j])]
      BY <1>12, <2>1, <2>7 DEF ScheduleReturns
    <3>2. Top(stack[j]).sr = Enables /\ Below(stack[j]) = <<>> /\ Below(cpuSr[j]) = <<>>
      BY <2>7 DEF Top, Below, Frame
    <3>3. <<>> \in Seq({Enables, {}}) /\ Stacked(<<>>)
      BY DEF Stacked
    <3>4. readyFifo' \in Seq(Job) /\ IdleJob \in FifoSet(readyFifo')
      BY <1>8, <1>9, <3>1
    <3> QED
      BY <2>2, <2>4, <2>5, <3>1, <3>2, <3>3, <3>4
  <2> QED
    BY <2>3, <2>6, <2>7
<1>13. ASSUME TimerIsr PROVE PortInv'
  <2>1. PICK j : j = job /\ j \in Job /\ newTask = j /\ InTask(j)
    BY <1>13 DEF PortInv, TimerIsr, InTask
  <2>2. sr = Enables /\ cpuSr[j] = <<>> /\ stack[j] = <<>> /\ pc = "task"
    <3>1. "TEE" \in sr
      BY <1>13 DEF TimerIsr
    <3> QED
      BY <1>3, <2>1, <3>1
  <2>3. PICK q \in {readyFifo} \cup {Append(readyFifo, u) : u \in {u \in Job : ~IsReady(u)}} :
          \/ /\ Fetched(q) = newTask
             /\ readyFifo' = Rotated(Rotated(q)) /\ newTask' = Fetched(Rotated(q))
             /\ UNCHANGED <<sr, cpuSr, job, pc, stacks>>
          \/ /\ Fetched(q) # newTask
             /\ readyFifo' = Rotated(q) /\ cpuSr' = [cpuSr EXCEPT ![job] = Append(@, {})]
             /\ TaskSwitch(Fetched(q), <<Frame(sr, "task"), Frame({}, "sys")>>)
    BY <1>13 DEF TimerIsr
  <2>4. q \in Seq(Job) /\ IdleJob \in FifoSet(q)
    <3>1. CASE q = readyFifo
      BY <1>9, <3>1
    <3>2. CASE \E u \in Job : q = Append(readyFifo, u)
      BY <1>9, <3>2, AppendKeeps
    <3> QED
      BY <2>3, <3>1, <3>2
  <2>5. /\ Fetched(q) \in Job /\ Fetched(Rotated(q)) = Fetched(q)
        /\ Rotated(q) \in Seq(Job) /\ IdleJob \in FifoSet(Rotated(q))
    BY <1>8, <2>4
  <2>6. CASE Fetched(q) = newTask
    <3>1. Rotated(Rotated(q)) \in Seq(Job) /\ IdleJob \in FifoSet(Rotated(Rotated(q)))
      BY <1>8, <2>5
    <3>2. readyFifo' = Rotated(Rotated(q)) /\ newTask' = newTask /\ UNCHANGED <<sr, cpuSr, job, pc, stacks>>
      BY <2>3, <2>5, <2>6
    <3> QED
      BY <1>0, <1>1, <2>2, <3>1, <3>2 DEF stacks
  <2>7. CASE Fetched(q) # newTask
    <3>1. /\ readyFifo' = Rotated(q) /\ cpuSr' = [cpuSr EXCEPT ![job] = Append(<<>>, {})]
          /\ TaskSwitch(Fetched(q), <<Frame(Enables, "task"), Frame({}, "sys")>>)
      BY <2>1, <2>2, <2>3, <2>7
    <3>2. PICK c, u, fs : c = <<{}>> /\ u = Fetched(q) /\ fs = <<Frame(Enables, "task"), Frame({}, "sys")>>
      OBVIOUS
    <3>3. c \in Seq({Enables, {}}) /\ Append(<<>>, {}) = c
      BY <3>2
    <3>4. fs \in Seq(Frames) /\ stack[j] \o fs = fs
      <4>1. PICK a, b \in Frames : a = Frame(Enables, "task") /\ b = Frame({}, "sys")
        BY <1>10
      <4>2. <<a, b>> \in Seq(Frames) /\ <<>> \o <<a, b>> = <<a, b>>
        BY <4>1, ConcatEmptySeq
      <4> QED
        BY <2>2, <3>2, <4>1, <4>2
    <3>5. Saved(stack[j] \o fs, c)
      BY <3>2, <3>4 DEF Saved
    <3>6. u \in Job \ {job} /\ Fetched(readyFifo') = u
      BY <2>1, <2>5, <2>7, <3>1, <3>2
    <3>7. readyFifo' \in Seq(Job) /\ IdleJob \in FifoSet(readyFifo')
      BY <2>5, <3>1
    <3> QED
      BY <2>1, <3>1, <3>2, <3>3, <3>4, <3>5, <3>6, <3>7, SwitchKeeps
  <2> QED
    BY <2>6, <2>7
<1>14. ASSUME UNCHANGED <<sr, cpuSr, job, pc, stacks, readyFifo, newTask>> PROVE PortInv'
  BY <1>1, <1>9, <1>14 DEF stacks
<1>15. ASSUME NEW v \in Irq, RaiseLine(v) \/ \E t \in Job : HwInterruptMask(t, v) \/ HwInterruptUnmask(t, v)
       PROVE  PortInv'
  BY <1>14, <1>15 DEF RaiseLine, HwInterruptMask, HwInterruptUnmask, noPic
<1>16. CASE UserIsr
  BY <1>16 DEF UserIsr
<1>17. CASE UNCHANGED portVars
  BY <1>14, <1>17 DEF portVars
<1> QED
  BY <1>4, <1>5, <1>6, <1>7, <1>11, <1>12, <1>13, <1>15, <1>16, <1>17 DEF PortNext

(* A task in a critical section is not interrupted, one outside of any can *)
(* be, and every task goes on from the context saved for it on its own     *)
(* stack, for any tasks of different priorities, depth of nesting, and     *)
(* switches by calls and ticks (interrupt.c, schedule(), reset.S).         *)
THEOREM SectionsMask ==
    ASSUME RanksDiffer
    PROVE  PortSpec => []InterruptsWork
<1>1. stale \/ PortInv => InterruptsWork
  <2>0. \A a, b : <<a>> # <<>> /\ <<a, b>> # <<>>
    OBVIOUS
  <2>1. ASSUME PortInv PROVE SrFollowsSections
    <3>1. <<{}>> # <<>>
      BY <2>0
    <3>2. RunsOn(stack[job], cpuSr[job], sr, pc)
      BY <2>1 DEF PortInv
    <3> QED
      BY <3>1, <3>2 DEF RunsOn, SrFollowsSections
  <2>2. ASSUME PortInv, NEW t \in Job \ {job}
        PROVE  stack[t] # <<>> /\ stackPtr[t] = [of |-> t, depth |-> Len(stack[t])]
    <3>1. stack[t] # <<>>
      <4>1. PICK s : s = stack[t] /\ Saved(s, cpuSr[t])
        BY <2>2 DEF PortInv
      <4>2. (\E a : s = <<a>>) \/ \E a, b : s = <<a, b>>
        BY <4>1, Zenon DEF Saved
      <4> QED
        BY <2>0, <4>1, <4>2
    <3>2. /\ stackPtr[t] \in [of : Job, depth : Nat]
          /\ stackPtr[t].of = t /\ stackPtr[t].depth = Len(stack[t])
      BY <2>2 DEF PortInv
    <3> QED
      BY <3>1, <3>2
  <2> QED
    BY <2>1, <2>2 DEF InterruptsWork, OwnStacks, PortInv
<1>2. (stale \/ PortInv) /\ [PortNext]_portVars => (stale \/ PortInv)'
  BY PortInvNext
<1> QED
  BY <1>1, <1>2, PortInvInit, PTL DEF PortSpec

(***************************************************************************)
(* Devices                                                                 *)
(***************************************************************************)

(* Only a registered device has operations, and the three counts agree.    *)
DevInv ==
    /\ devqueue \in Seq(Devices)
    /\ ops \in [Devices -> SUBSET Ops]
    /\ opencount \in [Devices -> 0 .. CountMod - 1] /\ registers \in [Devices -> 0 .. CountMod - 1]
    /\ opens \in [Devices -> 0 .. Clients]
    /\ \A d \in Devices : ops[d] # {} => InQueue(d)
    /\ OpenCountBalances

(* Division has one result.                                               *)
LEMMA Multiple ==
    ASSUME NEW m \in Nat \ {0}, NEW n \in Nat \ {0}
    PROVE  m * n \in Nat /\ m * n >= m
<1>1. PICK k \in Nat : n = k + 1
  <2>1. n - 1 \in Nat /\ n = (n - 1) + 1
    OBVIOUS
  <2> QED
    BY <2>1
<1>2. m * n = m * k + m /\ m * k \in Nat
  BY <1>1
<1> QED
  BY <1>2

(* Division has one rest.                                                  *)
LEMMA RestIs ==
    ASSUME NEW m \in Nat \ {0}, NEW x \in Int, NEW q \in Int, NEW v \in 0 .. m - 1, x = m * q + v
    PROVE  x % m = v
<1>1. PICK p \in Int, w \in 0 .. m - 1 : w = x % m /\ x = m * p + w
  <2>1. x \div m \in Int /\ x % m \in 0 .. m - 1 /\ x = m * (x \div m) + (x % m)
    OBVIOUS
  <2> QED
    BY <2>1
<1>2. PICK d \in Int : d = q - p
  OBVIOUS
<1>3. m * q = m * p + m * d
  BY <1>2
<1>4. m * d = w - v
  <2>1. PICK a \in Int, b \in Int : a = m * p /\ b = m * d
    OBVIOUS
  <2>2. x = a + b + v /\ x = a + w
    BY <1>1, <1>3, <2>1
  <2>3. b = w - v
    BY <2>2
  <2> QED
    BY <2>1, <2>3
<1>5. CASE d = 0
  BY <1>1, <1>4, <1>5
<1>6. CASE d > 0
  <2>1. m * d >= m
    BY <1>6, Multiple
  <2> QED
    BY <1>4, <2>1
<1>7. CASE d < 0
  <2>1. m * (0 - d) >= m /\ m * (0 - d) = 0 - m * d
    BY <1>7, Multiple
  <2> QED
    BY <1>4, <2>1
<1> QED
  BY <1>5, <1>6, <1>7

(* A sum modulo m when one of the two moves by one, taken modulo m or not. *)
LEMMA CountsMove ==
    ASSUME NEW m \in Nat \ {0}, NEW r \in 0 .. m - 1, NEW o \in Nat
    PROVE  /\ (((r + o) % m) + 1) % m = (((r + 1) % m) + o) % m
           /\ (((r + o) % m) + 1) % m = (r + (o + 1)) % m
           /\ o > 0 => (((r + o) % m) - 1) % m = (r + (o - 1)) % m
<1>1. PICK p \in Int, v \in 0 .. m - 1 : v = (r + o) % m /\ r + o = m * p + v
  <2>1. (r + o) \div m \in Int /\ (r + o) % m \in 0 .. m - 1 /\ r + o = m * ((r + o) \div m) + ((r + o) % m)
    OBVIOUS
  <2> QED
    BY <2>1
<1>2. ASSUME NEW d \in {-1, 1}
      PROVE  (v + d) % m = (r + (o + d)) % m
  <2>1. PICK q \in Int, w \in 0 .. m - 1 : w = (v + d) % m /\ v + d = m * q + w
    <3>1. (v + d) \div m \in Int /\ (v + d) % m \in 0 .. m - 1 /\ v + d = m * ((v + d) \div m) + ((v + d) % m)
      OBVIOUS
    <3> QED
      BY <3>1
  <2>2. r + (o + d) = m * (p + q) + w /\ r + (o + d) \in Int /\ p + q \in Int
    BY <1>1, <2>1
  <2>3. (r + (o + d)) % m = w
    BY <2>2, RestIs
  <2> QED
    BY <2>1, <2>3
<1>3. (((r + 1) % m) + o) % m = (r + (o + 1)) % m
  <2>1. CASE r + 1 < m
    <3>1. (r + 1) % m = r + 1
      BY <2>1
    <3> QED
      BY <3>1
  <2>2. CASE r + 1 = m
    <3>1. (r + 1) % m = 0
      BY <2>2
    <3>2. PICK q \in Int, w \in 0 .. m - 1 : w = o % m /\ o = m * q + w
      <4>1. o \div m \in Int /\ o % m \in 0 .. m - 1 /\ o = m * (o \div m) + (o % m)
        OBVIOUS
      <4> QED
        BY <4>1
    <3>3. r + (o + 1) = m * (q + 1) + w /\ r + (o + 1) \in Int /\ q + 1 \in Int
      BY <2>2, <3>2
    <3>4. (r + (o + 1)) % m = w
      BY <3>3, RestIs
    <3> QED
      BY <3>1, <3>2, <3>4
  <2> QED
    BY <2>1, <2>2
<1>4. (v + 1) % m = (r + (o + 1)) % m /\ (v + (-1)) % m = (r + (o + (-1))) % m
  BY <1>2
<1>5. v + (-1) = v - 1 /\ o + (-1) = o - 1
  BY <1>1
<1> QED
  BY <1>1, <1>3, <1>4, <1>5

(* Without one entry, the others are still there.                          *)
LEMMA DevUnlinkKeeps ==
    ASSUME NEW s \in Seq(Devices), NEW d, \E i \in 1 .. Len(s) : s[i] = d
    PROVE  /\ DevUnlink(s, d) \in Seq(Devices)
           /\ \A e \in Devices \ {d} :
                 (\E i \in 1 .. Len(s) : s[i] = e)
                     => \E i \in 1 .. Len(DevUnlink(s, d)) : DevUnlink(s, d)[i] = e
<1> DEFINE ix == CHOOSE i \in 1 .. Len(s) : s[i] = d
           r  == [i \in 1 .. Len(s) - 1 |-> IF i < ix THEN s[i] ELSE s[i + 1]]
<1>1. ix \in 1 .. Len(s) /\ s[ix] = d
  OBVIOUS
<1>2. DevUnlink(s, d) = r
  BY DEF DevUnlink
<1> HIDE DEF ix
<1>3. Len(s) \in Nat /\ \A i \in 1 .. Len(s) : s[i] \in Devices
  BY LenProperties, ElementOfSeq
<1>4. r \in Seq(Devices) /\ Len(r) = Len(s) - 1
  <2>1. Len(s) - 1 \in Nat /\ \A i \in 1 .. Len(s) - 1 : r[i] \in Devices
    BY <1>1, <1>3
  <2> DEFINE n == Len(s) - 1
  <2>2. n \in Nat /\ r \in [1 .. n -> Devices]
    BY <2>1
  <2>3. r \in Seq(Devices)
    BY <2>2
  <2> QED
    BY <2>2, <2>3, LenProperties
<1>5. ASSUME NEW e \in Devices \ {d}, NEW i \in 1 .. Len(s), s[i] = e
      PROVE  \E j \in 1 .. Len(r) : r[j] = e
  <2>1. i # ix
    BY <1>1, <1>5
  <2>2. CASE i < ix
    <3>1. i \in 1 .. Len(s) - 1 /\ r[i] = e
      BY <1>1, <1>3, <1>5, <2>2
    <3> QED
      BY <1>4, <3>1
  <2>3. CASE i > ix
    <3>1. i - 1 \in 1 .. Len(s) - 1 /\ r[i - 1] = e
      BY <1>1, <1>3, <1>5, <2>3
    <3> QED
      BY <1>4, <3>1
  <2>4. i < ix \/ i > ix
    BY <1>1, <1>3, <2>1
  <2> QED
    BY <2>2, <2>3, <2>4
<1> QED
  BY <1>2, <1>4, <1>5

(* device_find returns a device that is in the queue, or none.             *)
LEMMA FoundInQueue ==
    ASSUME DevInv, NEW n, DeviceFind(n) # NoDevice
    PROVE  DeviceFind(n) \in Devices /\ InQueue(DeviceFind(n))
<1> DEFINE hits == {i \in 1 .. Len(devqueue) : name[devqueue[i]] = n}
<1>1. hits # {} /\ hits \in SUBSET Nat
  BY DEF DeviceFind
<1>2. \E i \in hits : \A j \in hits : i <= j
  <2> HIDE DEF hits
  <2> QED
    BY <1>1, SmallestIn
<1>3. PICK i \in hits : DeviceFind(n) = devqueue[i]
  <2> DEFINE ix == CHOOSE i \in hits : \A j \in hits : i <= j
  <2>1. DeviceFind(n) = devqueue[ix]
    BY <1>1 DEF DeviceFind
  <2> HIDE DEF hits
  <2> QED
    BY <1>2, <2>1
<1>4. i \in 1 .. Len(devqueue)
  BY <1>3
<1> QED
  BY <1>3, <1>4, ElementOfSeq DEF InQueue, DevInv

(* Of the functions of a device, a call reaches only one that is set.      *)
LEMMA CallReaches ==
    ASSUME DevInv, NEW d \in Devices, NEW oz \in Ops, CallOf(d, oz)
    PROVE  called' # NoCall => InQueue(called'.dev)
BY DEF CallOf, NoCall, DevInv

(* The invariant of the device queue in its initial state.                 *)
LEMMA DevInvInit == DevInit => DevInv
<1> SUFFICES ASSUME DevInit PROVE DevInv
  OBVIOUS
<1>1. CountMod \in Nat \ {0} /\ Clients \in Nat /\ 0 \in 0 .. CountMod - 1 /\ 0 \in 0 .. Clients
  BY DeviceAssumption
<1>2. 0 % CountMod = 0
  BY <1>1
<1>3. OpenCountBalances
  <2>1. \A d \in Devices : opencount[d] = 0 /\ opens[d] = 0 /\ registers[d] = 0
    BY DEF DevInit
  <2>2. 0 + 0 = 0
    OBVIOUS
  <2> QED
    BY <1>2, <2>1, <2>2 DEF OpenCountBalances
<1> QED
  BY <1>1, <1>3 DEF DevInit, DevInv

(* A step of one device, the numbers of the others unchanged.              *)
LEMMA DevStep ==
    ASSUME DevInv, NEW d \in Devices,
           NEW c \in 0 .. CountMod - 1, opencount' = [opencount EXCEPT ![d] = c],
           NEW r \in 0 .. CountMod - 1, registers' = [registers EXCEPT ![d] = r],
           NEW o \in 0 .. Clients, opens' = [opens EXCEPT ![d] = o],
           c = (r + o) % CountMod,
           NEW fs \in SUBSET Ops, ops' = [ops EXCEPT ![d] = fs], fs # {} => InQueue(d)',
           devqueue' \in Seq(Devices), \A e \in Devices \ {d} : InQueue(e) => InQueue(e)'
    PROVE  DevInv'
<1>1. \A e \in Devices : /\ opencount'[e] = IF e = d THEN c ELSE opencount[e]
                         /\ registers'[e] = IF e = d THEN r ELSE registers[e]
                         /\ opens'[e] = IF e = d THEN o ELSE opens[e]
                         /\ ops'[e] = IF e = d THEN fs ELSE ops[e]
  BY DEF DevInv
<1>2. OpenCountBalances'
  BY <1>1 DEF OpenCountBalances, DevInv
<1>3. \A e \in Devices : ops'[e] # {} => InQueue(e)'
  BY <1>1 DEF DevInv
<1>4. /\ opencount' \in [Devices -> 0 .. CountMod - 1] /\ registers' \in [Devices -> 0 .. CountMod - 1]
      /\ opens' \in [Devices -> 0 .. Clients] /\ ops' \in [Devices -> SUBSET Ops]
  BY DEF DevInv
<1> QED
  BY <1>2, <1>3, <1>4 DEF DevInv

(* device_register, unregister, open, close and calls keep the invariant;  *)
(* a call that begins is of a device in the queue.                         *)
LEMMA DevInvNext ==
    DevInv /\ [DevNext]_devVars => DevInv' /\ (called' # NoCall => InQueue(called'.dev) \/ UNCHANGED devVars)
<1> SUFFICES ASSUME DevInv, [DevNext]_devVars
             PROVE  DevInv' /\ (called' # NoCall => InQueue(called'.dev) \/ UNCHANGED devVars)
  OBVIOUS
<1> DEFINE Reaches == called' # NoCall => InQueue(called'.dev)
<1>0. CountMod \in Nat \ {0} /\ Clients \in Nat
  BY DeviceAssumption
<1>1. ASSUME NEW d \in Devices
      PROVE  /\ opencount[d] \in 0 .. CountMod - 1 /\ registers[d] \in 0 .. CountMod - 1
             /\ opens[d] \in 0 .. Clients /\ opens[d] \in Nat
             /\ opencount[d] = (registers[d] + opens[d]) % CountMod
             /\ ops[d] \in SUBSET Ops
             /\ opencount = [opencount EXCEPT ![d] = opencount[d]] /\ registers = [registers EXCEPT ![d] = registers[d]]
             /\ opens = [opens EXCEPT ![d] = opens[d]] /\ ops = [ops EXCEPT ![d] = ops[d]]
             /\ \A k \in {opencount[d] + 1, opencount[d] - 1, registers[d] + 1} : k % CountMod \in 0 .. CountMod - 1
  <2>1. /\ opencount[d] \in 0 .. CountMod - 1 /\ registers[d] \in 0 .. CountMod - 1
        /\ opens[d] \in 0 .. Clients /\ opens[d] \in Nat
        /\ opencount[d] = (registers[d] + opens[d]) % CountMod
        /\ ops[d] \in SUBSET Ops
    BY <1>0 DEF DevInv, OpenCountBalances
  <2>2. /\ opencount = [opencount EXCEPT ![d] = opencount[d]] /\ registers = [registers EXCEPT ![d] = registers[d]]
        /\ opens = [opens EXCEPT ![d] = opens[d]] /\ ops = [ops EXCEPT ![d] = ops[d]]
    BY DEF DevInv
  <2>3. \A k \in Int : k % CountMod \in 0 .. CountMod - 1
    BY <1>0
  <2>4. {opencount[d] + 1, opencount[d] - 1, registers[d] + 1} \subseteq Int
    BY <1>0, <2>1
  <2> QED
    BY <2>1, <2>2, <2>3, <2>4
<1>2. ASSUME NEW d \in Devices, NEW n \in Names, NEW fs \in {Ops, Ops \ {"open"}}, DeviceRegister(d, n, fs)
      PROVE  DevInv' /\ Reaches
  <2>1. called' = NoCall
    BY <1>2 DEF DeviceRegister
  <2>2. /\ devqueue' \in Seq(Devices) /\ Len(devqueue') = Len(devqueue) + 1
        /\ devqueue'[Len(devqueue) + 1] = d
        /\ \A i \in 1 .. Len(devqueue) : devqueue'[i] = devqueue[i]
    BY <1>2, AppendProperties DEF DevInv, DeviceRegister
  <2>3. Len(devqueue) \in Nat
    BY LenProperties DEF DevInv
  <2>4. InQueue(d)' /\ \A e \in Devices \ {d} : InQueue(e) => InQueue(e)'
    BY <2>2, <2>3 DEF InQueue
  <2>5. (opencount[d] + 1) % CountMod = (((registers[d] + 1) % CountMod) + opens[d]) % CountMod
    BY <1>0, <1>1, CountsMove
  <2>6. /\ opencount' = [opencount EXCEPT ![d] = (opencount[d] + 1) % CountMod]
        /\ registers' = [registers EXCEPT ![d] = (registers[d] + 1) % CountMod]
        /\ opens' = [opens EXCEPT ![d] = opens[d]] /\ ops' = [ops EXCEPT ![d] = fs]
    BY <1>1, <1>2 DEF DeviceRegister
  <2>7. (opencount[d] + 1) % CountMod \in 0 .. CountMod - 1 /\ (registers[d] + 1) % CountMod \in 0 .. CountMod - 1
        /\ opens[d] \in 0 .. Clients /\ fs \in SUBSET Ops
    BY <1>1
  <2>8. DevInv'
    BY <2>2, <2>4, <2>5, <2>6, <2>7, DevStep
  <2> QED
    BY <2>1, <2>8
<1>3. ASSUME NEW d \in Devices, DeviceUnregister(d)
      PROVE  DevInv' /\ Reaches
  <2>1. called' = NoCall
    BY <1>3 DEF DeviceUnregister
  <2>2. devqueue' \in Seq(Devices) /\ \A e \in Devices \ {d} : InQueue(e) => InQueue(e)'
    <3>1. devqueue \in Seq(Devices) /\ (\E i \in 1 .. Len(devqueue) : devqueue[i] = d)
      BY <1>3 DEF DeviceUnregister, InQueue, DevInv
    <3>2. devqueue' = DevUnlink(devqueue, d)
      BY <1>3 DEF DeviceUnregister
    <3> QED
      BY <3>1, <3>2, DevUnlinkKeeps DEF InQueue
  <2>3. /\ opencount' = [opencount EXCEPT ![d] = opencount[d]] /\ registers' = [registers EXCEPT ![d] = registers[d]]
        /\ opens' = [opens EXCEPT ![d] = opens[d]] /\ ops' = [ops EXCEPT ![d] = {}]
    BY <1>1, <1>3 DEF DeviceUnregister
  <2>4. {} \in SUBSET Ops /\ opencount[d] = (registers[d] + opens[d]) % CountMod
        /\ opencount[d] \in 0 .. CountMod - 1 /\ registers[d] \in 0 .. CountMod - 1 /\ opens[d] \in 0 .. Clients
    BY <1>1
  <2>5. DevInv'
    BY <2>2, <2>3, <2>4, DevStep
  <2> QED
    BY <2>1, <2>5
<1>4. ASSUME NEW d \in Devices, DeviceClose(d)
      PROVE  DevInv' /\ Reaches
  <2>1. Reaches
    BY <1>4, CallReaches DEF DeviceClose, Ops
  <2>2. /\ opencount' = [opencount EXCEPT ![d] = (opencount[d] - 1) % CountMod]
        /\ registers' = [registers EXCEPT ![d] = registers[d]]
        /\ opens' = [opens EXCEPT ![d] = opens[d] - 1] /\ ops' = [ops EXCEPT ![d] = ops[d]]
        /\ devqueue' = devqueue /\ opens[d] > 0
    BY <1>1, <1>4 DEF DeviceClose
  <2>3. (opencount[d] - 1) % CountMod = (registers[d] + (opens[d] - 1)) % CountMod
    <3>1. /\ opencount[d] = (registers[d] + opens[d]) % CountMod
          /\ registers[d] \in 0 .. CountMod - 1 /\ opens[d] \in Nat
      BY <1>1
    <3> QED
      BY <1>0, <2>2, <3>1, CountsMove, Zenon
  <2>4. opens[d] - 1 \in 0 .. Clients /\ (opencount[d] - 1) % CountMod \in 0 .. CountMod - 1
    BY <1>0, <1>1, <2>2
  <2>5. ops[d] # {} => InQueue(d)'
    BY <2>2 DEF DevInv, InQueue
  <2>6. devqueue' \in Seq(Devices) /\ \A e \in Devices \ {d} : InQueue(e) => InQueue(e)'
    BY <2>2 DEF DevInv, InQueue
  <2>7. DevInv'
    BY <1>1, <2>2, <2>3, <2>4, <2>5, <2>6, DevStep
  <2> QED
    BY <2>1, <2>7
<1>5. ASSUME NEW d \in Devices, NEW f \in 0 .. 1, DeviceOpen(d, f)
      PROVE  DevInv' /\ Reaches
  <2>1. Reaches
    BY <1>5, CallReaches DEF DeviceOpen, Ops
  <2>2. /\ opencount' = [opencount EXCEPT ![d] = (opencount[d] + 1) % CountMod]
        /\ registers' = [registers EXCEPT ![d] = registers[d]]
        /\ opens' = [opens EXCEPT ![d] = opens[d] + 1] /\ ops' = [ops EXCEPT ![d] = ops[d]]
        /\ devqueue' = devqueue /\ opens[d] < Clients
    BY <1>1, <1>5 DEF DeviceOpen
  <2>3. (opencount[d] + 1) % CountMod = (registers[d] + (opens[d] + 1)) % CountMod
    <3>1. /\ opencount[d] = (registers[d] + opens[d]) % CountMod
          /\ registers[d] \in 0 .. CountMod - 1 /\ opens[d] \in Nat
      BY <1>1
    <3> QED
      BY <1>0, <3>1, CountsMove, Zenon
  <2>4. opens[d] + 1 \in 0 .. Clients /\ (opencount[d] + 1) % CountMod \in 0 .. CountMod - 1
    BY <1>0, <1>1, <2>2
  <2>5. ops[d] # {} => InQueue(d)'
    BY <2>2 DEF DevInv, InQueue
  <2>6. devqueue' \in Seq(Devices) /\ \A e \in Devices \ {d} : InQueue(e) => InQueue(e)'
    BY <2>2 DEF DevInv, InQueue
  <2>7. DevInv'
    BY <1>1, <2>2, <2>3, <2>4, <2>5, <2>6, DevStep
  <2> QED
    BY <2>1, <2>7
<1>6. ASSUME NEW d \in Devices, NEW oz \in Ops, DeviceCall(d, oz)
      PROVE  DevInv' /\ Reaches
  <2>1. Reaches
    BY <1>6, CallReaches DEF DeviceCall
  <2>2. DevInv'
    BY <1>6 DEF DeviceCall, DevInv, InQueue, OpenCountBalances
  <2> QED
    BY <2>1, <2>2
<1>7. CASE UNCHANGED devVars
  <2>1. DevInv'
    BY <1>7 DEF devVars, DevInv, InQueue, OpenCountBalances
  <2> QED
    BY <1>7, <2>1
<1>8. CASE DevNext
  <2>1. ASSUME NEW n \in Names, NEW f \in 0 .. 1, DeviceFind(n) # NoDevice, DeviceOpen(DeviceFind(n), f)
        PROVE  DevInv' /\ Reaches
    BY <1>5, <2>1, FoundInQueue
  <2> HIDE DEF Reaches
  <2>2. DevInv' /\ Reaches
    BY <1>2, <1>3, <1>4, <1>6, <1>8, <2>1 DEF DevNext
  <2> QED
    BY <2>2 DEF Reaches
<1> QED
  BY <1>7, <1>8

(* Both properties, for any number of devices, clients and operations and  *)
(* a count of any width: the driver of a device that was unregistered is   *)
(* not called, and open_count counts registrations and openings (device.c).*)
THEOREM DevicesSafe == DevSpec => DeviceSafe
<1>1. DevInv => OpenCountBalances
  BY DEF DevInv
<1>2. DevInv /\ [DevNext]_devVars => [called' # NoCall => InQueue(called'.dev)]_devVars
  BY DevInvNext
<1>3. DevInv /\ [DevNext]_devVars => DevInv'
  BY DevInvNext
<1> QED
  BY <1>1, <1>2, <1>3, DevInvInit, PTL DEF DevSpec, DeviceSafe, NoCallAfterUnregister

(***************************************************************************)
(* The shell                                                               *)
(***************************************************************************)

(* The nodes are handed out in their order, and the list runs backwards    *)
(* through all that were.                                                  *)
SymbolList(c) ==
    /\ Used = 1 .. c
    /\ symNext[HEAD] = IF c = 0 THEN NIL ELSE c
    /\ \A n \in 1 .. c : symNext[n] = IF n = 1 THEN NIL ELSE n - 1

(* What the last line ran, of the nodes there were, which keep their names.*)
RanLatest ==
    asked[1] # NoText =>
        LET named == {n \in asked[2] : symName[n] = asked[1]} IN
        IF named = {} THEN ran = NIL ELSE ran \in named /\ \A n \in named : n <= ran

ShellInv ==
    /\ symName \in [1 .. Nodes -> Words \cup {NoText}]
    /\ symNext \in [0 .. Nodes -> (1 .. Nodes) \cup {NIL}]
    /\ prompt = "parse" => buffCmd \in Words
    /\ \E c \in 0 .. Nodes : SymbolList(c)
    /\ asked[2] \subseteq Used
    /\ RanLatest

(* f[k] is the node that the walk of the parser is at after k steps.       *)
SymSteps(cmd, f) ==
    f = [k \in 0 .. Nodes |-> IF k = 0 THEN symNext[HEAD]
                              ELSE IF f[k - 1] = NIL \/ symName[f[k - 1]] = cmd THEN f[k - 1]
                              ELSE symNext[f[k - 1]]]

(* The walk of parser along the symbols is determined.                     *)
LEMMA SymStepsUnique ==
    ASSUME NEW cmd, NEW f, SymSteps(cmd, f), NEW g, SymSteps(cmd, g)
    PROVE  f = g
<1> DEFINE D == {k \in 0 .. Nodes : f[k] # g[k]}
<1>1. /\ f = [k \in 0 .. Nodes |-> f[k]] /\ g = [k \in 0 .. Nodes |-> g[k]]
  BY DEF SymSteps
<1>2. ASSUME NEW k \in 0 .. Nodes
      PROVE  /\ f[k] = IF k = 0 THEN symNext[HEAD]
                       ELSE IF f[k - 1] = NIL \/ symName[f[k - 1]] = cmd THEN f[k - 1]
                       ELSE symNext[f[k - 1]]
             /\ g[k] = IF k = 0 THEN symNext[HEAD]
                       ELSE IF g[k - 1] = NIL \/ symName[g[k - 1]] = cmd THEN g[k - 1]
                       ELSE symNext[g[k - 1]]
  BY DEF SymSteps
<1>3. ASSUME D # {} PROVE FALSE
  <2>1. PICK k \in D : \A j \in D : k <= j
    <3>1. D \in SUBSET Nat
      OBVIOUS
    <3> HIDE DEF D
    <3> QED
      BY <1>3, <3>1, SmallestIn
  <2>2. k \in 0 .. Nodes /\ f[k] # g[k]
    BY <2>1
  <2>3. k # 0
    BY <1>2, <2>2
  <2>4. k - 1 \in 0 .. Nodes /\ ~(k <= k - 1)
    <3>1. Nodes \in Nat
      BY ShellAssumption
    <3> QED
      BY <2>2, <2>3, <3>1
  <2>5. f[k - 1] = g[k - 1]
    BY <2>1, <2>4
  <2>6. f[k] = g[k]
    BY <1>2, <2>2, <2>3, <2>5
  <2> QED
    BY <2>2, <2>6
<1>4. \A k \in 0 .. Nodes : f[k] = g[k]
  BY <1>3
<1> QED
  BY <1>1, <1>4

(* The walk ends at the node of the name that was exported last.           *)
LEMMA WalkFinds ==
    ASSUME NEW c \in 0 .. Nodes, SymbolList(c), NEW cmd,
           NEW v \in 0 .. c, v # 0 => symName[v] = cmd, \A n \in v + 1 .. c : symName[n] # cmd
    PROVE  SymWalk(cmd) = IF v = 0 THEN NIL ELSE v
<1> DEFINE last == IF v = 0 THEN NIL ELSE v
           w == [k \in 0 .. Nodes |-> IF c - k > v THEN c - k ELSE last]
<1>0. Nodes \in Nat /\ NIL = -1
  BY ShellAssumption DEF NIL
<1>1. ASSUME NEW k \in 0 .. Nodes
      PROVE  w[k] = IF k = 0 THEN symNext[HEAD]
                    ELSE IF w[k - 1] = NIL \/ symName[w[k - 1]] = cmd THEN w[k - 1]
                    ELSE symNext[w[k - 1]]
  <2>0. w[k] = IF c - k > v THEN c - k ELSE last
    OBVIOUS
  <2>1. CASE k = 0
    <3>1. w[k] = IF c > v THEN c ELSE last
      BY <2>0, <2>1
    <3>2. symNext[HEAD] = IF c = 0 THEN NIL ELSE c
      BY DEF SymbolList
    <3> QED
      BY <2>1, <3>1, <3>2
  <2>2. CASE k # 0 /\ c - (k - 1) > v
    <3> DEFINE m == c - (k - 1)
    <3>1. k - 1 \in 0 .. Nodes /\ m \in v + 1 .. c /\ m \in 1 .. c
      BY <1>0, <2>2
    <3>2. w[k - 1] = m
      BY <2>2, <3>1
    <3>3. m # NIL /\ symName[m] # cmd
      BY <1>0, <3>1
    <3>4. symNext[m] = IF m = 1 THEN NIL ELSE m - 1
      BY <3>1 DEF SymbolList
    <3>5. c - k = m - 1
      BY <1>0, <3>1
    <3>6. w[k] = IF m = 1 THEN NIL ELSE m - 1
      <4> HIDE DEF w, m
      <4> QED
        BY <1>0, <2>0, <3>1, <3>5
    <3> HIDE DEF w, m
    <3> QED
      BY <2>2, <3>2, <3>3, <3>4, <3>6
  <2>3. CASE k # 0 /\ ~(c - (k - 1) > v)
    <3>1. k - 1 \in 0 .. Nodes /\ ~(c - k > v)
      BY <1>0, <2>3
    <3>2. w[k - 1] = last /\ w[k] = last
      BY <2>3, <3>1
    <3>3. last = NIL \/ symName[last] = cmd
      OBVIOUS
    <3> HIDE DEF w, last
    <3> QED
      BY <2>3, <3>2, <3>3
  <2> QED
    BY <2>1, <2>2, <2>3
<1>2. SymSteps(cmd, w)
  BY <1>1 DEF SymSteps
<1> DEFINE ix == CHOOSE ix : ix = [k \in 0 .. Nodes |->
                     IF k = 0 THEN symNext[HEAD]
                     ELSE IF ix[k - 1] = NIL \/ symName[ix[k - 1]] = cmd THEN ix[k - 1]
                     ELSE symNext[ix[k - 1]]]
<1>3. SymWalk(cmd) = ix[Nodes]
  BY DEF SymWalk
<1>4. SymSteps(cmd, ix)
  <2>1. \E f : f = [k \in 0 .. Nodes |->
                     IF k = 0 THEN symNext[HEAD]
                     ELSE IF f[k - 1] = NIL \/ symName[f[k - 1]] = cmd THEN f[k - 1]
                     ELSE symNext[f[k - 1]]]
    <3> HIDE DEF w
    <3> QED
      BY <1>2 DEF SymSteps
  <2> QED
    BY <2>1 DEF SymSteps
<1>5. ix = w
  <2> HIDE DEF ix, w
  <2> QED
    BY <1>2, <1>4, SymStepsUnique
<1>6. w[Nodes] = last
  BY <1>0
<1> QED
  BY <1>3, <1>5, <1>6

(* The parser runs the symbol of the name that was exported last.          *)
LEMMA ParserRunsLatest ==
    ASSUME NEW c \in 0 .. Nodes, SymbolList(c), NEW cmd
    PROVE  LET named == {n \in Used : symName[n] = cmd} IN
           IF named = {} THEN SymWalk(cmd) = NIL
           ELSE SymWalk(cmd) \in named /\ \A n \in named : n <= SymWalk(cmd)
<1> DEFINE named == {n \in Used : symName[n] = cmd}
<1>0. Nodes \in Nat /\ Used = 1 .. c
  BY ShellAssumption DEF SymbolList
<1>1. CASE named = {}
  <2>1. \A n \in 0 + 1 .. c : symName[n] # cmd
    BY <1>0, <1>1
  <2>2. SymWalk(cmd) = NIL
    BY <1>0, <2>1, WalkFinds
  <2> QED
    BY <1>1, <2>2
<1>2. CASE named # {}
  <2> DEFINE D == {c - n : n \in named}
  <2>1. PICK d \in D : \A e \in D : d <= e
    <3>1. D \in SUBSET Nat /\ D # {}
      BY <1>0, <1>2
    <3> HIDE DEF D
    <3> QED
      BY <3>1, SmallestIn
  <2>2. PICK v \in named : d = c - v
    BY <2>1
  <2>3. ASSUME NEW n \in named PROVE n <= v
    <3>1. c - n \in D
      OBVIOUS
    <3>2. c - v <= c - n
      BY <2>1, <2>2, <3>1
    <3>3. n \in 1 .. c /\ v \in 1 .. c
      BY <1>0
    <3> HIDE DEF D, named
    <3> QED
      BY <3>2, <3>3
  <2>4. v \in 1 .. c /\ symName[v] = cmd
    BY <1>0
  <2>5. \A n \in v + 1 .. c : symName[n] # cmd
    <3>1. ASSUME NEW n \in v + 1 .. c, symName[n] = cmd PROVE FALSE
      <4>1. n \in named /\ ~(n <= v)
        BY <1>0, <2>4, <3>1
      <4> QED
        BY <2>3, <4>1
    <3> QED
      BY <3>1
  <2>6. SymWalk(cmd) = v
    <3>1. v \in 0 .. c /\ v # 0
      BY <2>4
    <3> HIDE DEF named
    <3> QED
      BY <2>4, <2>5, <3>1, WalkFinds
  <2> QED
    BY <1>2, <2>3, <2>6
<1> QED
  BY <1>1, <1>2

(* The invariant of the shell in its initial state.                        *)
LEMMA ShellInvInit == ShellInit => ShellInv
<1> SUFFICES ASSUME ShellInit PROVE ShellInv
  OBVIOUS
<1>1. Nodes \in Nat /\ Used = 1 .. 0
  BY ShellAssumption DEF ShellInit, Used
<1>2. SymbolList(0)
  BY <1>1 DEF ShellInit, SymbolList, HEAD
<1>3. asked[1] = NoText /\ asked[2] = {}
  BY DEF ShellInit
<1> QED
  BY <1>1, <1>2, <1>3 DEF ShellInit, ShellInv, RanLatest

(* export puts the next node at the head of the list.                      *)
LEMMA ExportKeeps ==
    ASSUME ShellInv, NEW name_ \in Words, Export(name_)
    PROVE  ShellInv'
<1> PICK c \in 0 .. Nodes : SymbolList(c)
  BY DEF ShellInv
<1> DEFINE temp == CHOOSE n \in 1 .. Nodes \ Used : \A m \in 1 .. Nodes \ Used : n <= m
<1>0. Nodes \in Nat /\ NoText \notin Words /\ HEAD = 0
  BY ShellAssumption DEF HEAD
<1>1. Used = 1 .. c
  BY DEF SymbolList
<1>2. c < Nodes /\ temp = c + 1
  <2>1. 1 .. Nodes # 1 .. c
    BY <1>1 DEF Export
  <2>2. c < Nodes
    BY <1>0, <2>1
  <2>3. \A n \in 1 .. Nodes \ Used : c + 1 <= n
    BY <1>0, <1>1
  <2>4. c + 1 \in 1 .. Nodes \ Used
    BY <1>0, <1>1, <2>2
  <2>5. temp \in 1 .. Nodes \ Used /\ \A m \in 1 .. Nodes \ Used : temp <= m
    BY <2>3, <2>4
  <2> HIDE DEF temp
  <2>6. temp <= c + 1 /\ c + 1 <= temp /\ temp \in 1 .. Nodes
    BY <2>3, <2>4, <2>5
  <2> QED
    BY <1>0, <2>2, <2>6
<1>3. /\ symName' = [symName EXCEPT ![temp] = name_] /\ symNext' = ListInsert(symNext, temp)
      /\ prompt' = prompt /\ buffCmd' = buffCmd /\ asked' = asked /\ ran' = ran
  BY DEF Export
<1> HIDE DEF temp
<1>4. /\ symName' \in [1 .. Nodes -> Words \cup {NoText}]
      /\ \A n \in 1 .. Nodes : symName'[n] = IF n = c + 1 THEN name_ ELSE symName[n]
  BY <1>2, <1>3 DEF ShellInv
<1>5. c + 1 \in 1 .. Nodes
  BY <1>0, <1>2
<1>6. Used' = 1 .. c + 1
  <2>1. ASSUME NEW n \in 1 .. Nodes
        PROVE  symName'[n] # NoText <=> n \in 1 .. c + 1
    <3>1. symName[n] # NoText <=> n \in 1 .. c
      BY <1>1 DEF Used
    <3> QED
      BY <1>0, <1>4, <3>1
  <2>2. \A n \in 1 .. c + 1 : n \in 1 .. Nodes
    BY <1>0, <1>5
  <2>3. Used' = {n \in 1 .. Nodes : symName'[n] # NoText}
    BY DEF Used
  <2> QED
    BY <2>1, <2>2, <2>3
<1>7. /\ symNext' \in [0 .. Nodes -> (1 .. Nodes) \cup {NIL}]
      /\ \A n \in 0 .. Nodes : symNext'[n] = IF n = HEAD THEN c + 1
                                             ELSE IF n = c + 1 THEN symNext[HEAD] ELSE symNext[n]
  <2>1. /\ symNext \in [0 .. Nodes -> (1 .. Nodes) \cup {NIL}]
        /\ symNext' = [symNext EXCEPT ![c + 1] = symNext[HEAD], ![HEAD] = c + 1]
    BY <1>2, <1>3 DEF ListInsert, ShellInv
  <2>2. HEAD \in 0 .. Nodes /\ c + 1 \in 0 .. Nodes /\ HEAD # c + 1
    BY <1>0, <1>5
  <2> QED
    BY <1>5, <2>1, <2>2
<1>8. SymbolList(c + 1)'
  <2>1. symNext'[HEAD] = c + 1 /\ c + 1 # 0
    BY <1>0, <1>5, <1>7
  <2>2. ASSUME NEW n \in 1 .. c + 1
        PROVE  symNext'[n] = IF n = 1 THEN NIL ELSE n - 1
    <3>1. n \in 0 .. Nodes /\ n # HEAD
      BY <1>0, <1>5
    <3>2. CASE n = c + 1
      <4>1. symNext'[n] = symNext[HEAD]
        BY <1>7, <3>1, <3>2
      <4> QED
        BY <3>2, <4>1 DEF SymbolList
    <3>3. CASE n # c + 1
      <4>1. n \in 1 .. c /\ symNext'[n] = symNext[n]
        BY <1>7, <3>1, <3>3
      <4> QED
        BY <4>1 DEF SymbolList
    <3> QED
      BY <3>2, <3>3
  <2> QED
    BY <1>6, <2>1, <2>2 DEF SymbolList
<1>9. c + 1 \in 0 .. Nodes
  BY <1>0, <1>2
<1>10. asked'[2] \subseteq Used' /\ \A n \in asked[2] : symName'[n] = symName[n]
  <2>1. asked[2] \subseteq 1 .. c
    BY <1>1 DEF ShellInv
  <2> QED
    BY <1>0, <1>3, <1>4, <1>5, <1>6, <2>1
<1>11. RanLatest'
  <2>1. {n \in asked[2] : symName'[n] = asked[1]} = {n \in asked[2] : symName[n] = asked[1]}
    BY <1>10
  <2> QED
    BY <1>3, <2>1 DEF RanLatest, ShellInv
<1> QED
  BY <1>3, <1>4, <1>7, <1>8, <1>9, <1>10, <1>11 DEF ShellInv

(* export, a line that arrives and the parser keep the invariant.          *)
LEMMA ShellInvNext == ShellInv /\ [ShellNext]_shellVars => ShellInv'
<1> SUFFICES ASSUME ShellInv, [ShellNext]_shellVars PROVE ShellInv'
  OBVIOUS
<1> USE DEF ShellInv
<1>1. ASSUME UNCHANGED <<symNext, symName, ran, asked>>, prompt' = "parse" => buffCmd' \in Words
      PROVE  ShellInv'
  <2>1. \E c \in 0 .. Nodes : SymbolList(c)'
    BY <1>1 DEF SymbolList, Used
  <2> QED
    BY <1>1, <2>1 DEF RanLatest, Used
<1>2. CASE UNCHANGED shellVars
  BY <1>1, <1>2 DEF shellVars
<1>3. CASE \E w \in Words : Export(w)
  BY <1>3, ExportKeeps
<1>4. CASE ReadLine
  BY <1>1, <1>4 DEF ReadLine
<1>5. CASE Parser
  <2> PICK c \in 0 .. Nodes : SymbolList(c)
    OBVIOUS
  <2>1. /\ ran' = SymWalk(buffCmd) /\ asked' = <<buffCmd, Used>> /\ prompt' = "delay"
        /\ symNext' = symNext /\ symName' = symName
    BY <1>5 DEF Parser
  <2>2. asked'[1] = buffCmd /\ asked'[2] = Used /\ Used' = Used
    BY <2>1 DEF Used
  <2>3. SymbolList(c)'
    BY <2>1, <2>2 DEF SymbolList
  <2>4. RanLatest'
    BY <2>1, <2>2, ParserRunsLatest DEF RanLatest
  <2> QED
    BY <2>1, <2>2, <2>3, <2>4
<1>6. CASE OsDelayOne
  BY <1>1, <1>6 DEF OsDelayOne
<1> QED
  BY <1>2, <1>3, <1>4, <1>5, <1>6 DEF ShellNext

(* For any number of nodes and any set of names: the shell runs the symbol *)
(* that was exported last under the name of the line, and says "not found" *)
(* exactly if there was none, also when functions export while it runs     *)
(* (shell.c parser).                                                       *)
THEOREM ShellRuns == ShellSpec => []RunsLatest
<1>1. ShellInv => RunsLatest
  BY DEF ShellInv, RanLatest, RunsLatest
<1> QED
  BY <1>1, ShellInvInit, ShellInvNext, PTL DEF ShellSpec

(***************************************************************************)
(* The state machine                                                       *)
(***************************************************************************)

(* The list that a search sees: the head, which stays when its state is    *)
(* removed, and the blocks in order of their addition, without those       *)
(* removed and those that were added behind a removed one.                 *)
Listed == {b \in Blocks : b <= used /\ b \notin lost /\ (b = 1 \/ number[b] # Removed)}

Between(S, a, b) == a \in S /\ b \in S /\ a < b /\ \A c \in S : ~(a < c /\ c < b)
Successor(S, a, b) == Between(S, a, b) \/ (b = a /\ \A c \in S : c <= a)

(* The pointers lead through the set S upwards and back.                   *)
InOrderOf(S, nx, pv) ==
    /\ \A a \in S : Successor(S, a, nx[a])
    /\ \A b \in S \ {1} : Between(S, pv[b], b)
    /\ pv[1] = 1

FsmInv ==
    /\ fnext \in [Blocks -> Blocks] /\ fprev \in [Blocks -> Blocks]
    /\ number \in [Blocks -> StateNo \cup {Removed}]
    /\ used \in Blocks /\ stateobj = used /\ stateobjcopy = 1
    /\ lost \subseteq 2 .. used
    /\ InOrderOf(Listed, fnext, fprev)

(* A walk over next pointers that stops after m steps.                     *)
Steps(nx, n, m, f) == f = [k \in 0 .. m |-> IF k = 0 THEN n ELSE nx[f[k - 1]]]

(* The walk along the states has a state for each of its steps.            *)
LEMMA StepsExist ==
    ASSUME NEW nx, NEW n, NEW m \in Nat
    PROVE  \E f : Steps(nx, n, m, f)
<1> DEFINE D == {i \in Nat : ~\E f : Steps(nx, n, i, f)}
<1>1. ASSUME D # {} PROVE FALSE
  <2>1. PICK i \in D : \A j \in D : i <= j
    <3>1. D \in SUBSET Nat
      OBVIOUS
    <3> HIDE DEF D
    <3> QED
      BY <1>1, <3>1, SmallestIn
  <2>2. i \in Nat /\ ~\E f : Steps(nx, n, i, f)
    BY <2>1
  <2>3. CASE i = 0
    <3> DEFINE f == [k \in 0 .. i |-> n]
    <3>1. f = [k \in 0 .. i |-> IF k = 0 THEN n ELSE nx[f[k - 1]]]
      BY <2>3
    <3> HIDE DEF f
    <3>2. Steps(nx, n, i, f)
      BY <3>1 DEF Steps
    <3> QED
      BY <2>2, <3>2
  <2>4. CASE i # 0
    <3>1. i - 1 \in Nat /\ ~(i <= i - 1)
      BY <2>2, <2>4
    <3>2. PICK g : Steps(nx, n, i - 1, g)
      BY <2>1, <3>1
    <3> DEFINE f == [k \in 0 .. i |-> IF k = i THEN nx[g[i - 1]] ELSE g[k]]
    <3>3. ASSUME NEW k \in 0 .. i
          PROVE  f[k] = IF k = 0 THEN n ELSE nx[f[k - 1]]
      <4>1. CASE k = i
        <5>1. f[k] = nx[g[i - 1]] /\ i - 1 \in 0 .. i /\ i - 1 # i
          BY <2>2, <2>4, <4>1
        <5>2. f[i - 1] = g[i - 1]
          BY <5>1
        <5> QED
          BY <2>4, <4>1, <5>1, <5>2
      <4>2. CASE k # i
        <5>1. k \in 0 .. i - 1 /\ f[k] = g[k]
          BY <2>2, <4>2
        <5>2. g[k] = IF k = 0 THEN n ELSE nx[g[k - 1]]
          BY <3>2, <5>1 DEF Steps
        <5>3. k # 0 => k - 1 \in 0 .. i /\ k - 1 # i
          BY <2>2, <5>1
        <5>4. k # 0 => f[k - 1] = g[k - 1]
          BY <5>3
        <5> HIDE DEF f
        <5> QED
          BY <5>1, <5>2, <5>4
      <4> QED
        BY <4>1, <4>2
    <3>4. f = [k \in 0 .. i |-> f[k]]
      OBVIOUS
    <3> HIDE DEF f
    <3>5. Steps(nx, n, i, f)
      BY <3>3, <3>4 DEF Steps
    <3> QED
      BY <2>2, <3>5
  <2> QED
    BY <2>3, <2>4
<1> QED
  BY <1>1

(* Walk is such a walk from the head of the list.                          *)
LEMMA WalkIs ==
    ASSUME FsmInv
    PROVE  /\ DOMAIN Walk = 0 .. Cardinality(Blocks)
           /\ Walk[0] = 1
           /\ \A k \in 1 .. Cardinality(Blocks) : Walk[k] = fnext[Walk[k - 1]]
<1> DEFINE m == Cardinality(Blocks)
<1>0. m \in Nat
  BY FsmAssumption
<1>1. Walk = CHOOSE node : node = [k \in 0 .. m |-> IF k = 0 THEN stateobjcopy ELSE fnext[node[k - 1]]]
  BY DEF Walk
<1> HIDE DEF m
<1>2. \E node : node = [k \in 0 .. m |-> IF k = 0 THEN stateobjcopy ELSE fnext[node[k - 1]]]
  <2>1. \E f : Steps(fnext, stateobjcopy, m, f)
    BY <1>0, StepsExist
  <2> QED
    BY <2>1 DEF Steps
<1>3. Walk = [k \in 0 .. m |-> IF k = 0 THEN stateobjcopy ELSE fnext[Walk[k - 1]]]
  BY <1>1, <1>2
<1> HIDE DEF Walk
<1> QED
  BY <1>0, <1>3 DEF FsmInv, m

(* The walk stays in the list and comes to all of it.                      *)
LEMMA WalkMeetsAll ==
    ASSUME FsmInv
    PROVE  /\ \A k \in 0 .. Cardinality(Blocks) : Walk[k] \in Listed
           /\ \A b \in Listed : \E k \in 0 .. Cardinality(Blocks) : Walk[k] = b
<1> DEFINE m == Cardinality(Blocks)
<1>0. /\ m \in Nat \ {0} /\ Blocks = 1 .. m
      /\ Walk[0] = 1 /\ \A k \in 1 .. m : Walk[k] = fnext[Walk[k - 1]]
  BY FsmAssumption, WalkIs
<1> HIDE DEF m
<1>1. 1 \in Listed /\ Listed \subseteq 1 .. m /\ InOrderOf(Listed, fnext, fprev)
  BY <1>0 DEF Listed, FsmInv
<1>2. ASSUME NEW k \in 0 .. m PROVE Walk[k] \in Listed
  <2> DEFINE D == {i \in 0 .. m : Walk[i] \notin Listed}
  <2>1. ASSUME D # {} PROVE FALSE
    <3>1. PICK i \in D : \A j \in D : i <= j
      <4>1. D \in SUBSET Nat
        BY <1>0
      <4> HIDE DEF D
      <4> QED
        BY <2>1, <4>1, SmallestIn
    <3>2. i \in 0 .. m /\ Walk[i] \notin Listed
      BY <3>1
    <3>3. i # 0
      BY <1>0, <1>1, <3>2
    <3>4. i - 1 \in 0 .. m /\ ~(i <= i - 1) /\ i \in 1 .. m
      BY <1>0, <3>2, <3>3
    <3>5. Walk[i - 1] \in Listed
      BY <3>1, <3>4
    <3>6. Successor(Listed, Walk[i - 1], Walk[i])
      BY <1>0, <1>1, <3>4, <3>5 DEF InOrderOf
    <3> QED
      BY <3>2, <3>5, <3>6 DEF Successor, Between
  <2> QED
    BY <2>1
<1>3. ASSUME NEW b \in Listed PROVE \E k \in 0 .. m : Walk[k] = b
  <2> DEFINE Early(c) == \E k \in 0 .. c - 1 : Walk[k] = c
             D == {c \in Listed : ~Early(c)}
  <2>1. ASSUME D # {} PROVE FALSE
    <3>1. PICK c \in D : \A j \in D : c <= j
      <4>1. D \in SUBSET Nat
        <5>1. Listed \in SUBSET Nat
          BY <1>0, <1>1
        <5> HIDE DEF Early
        <5> QED
          BY <5>1
      <4> HIDE DEF D
      <4> QED
        BY <2>1, <4>1, SmallestIn
    <3>2. c \in Listed /\ ~Early(c)
      BY <3>1
    <3>3. c # 1
      <4>1. 0 \in 0 .. 1 - 1
        OBVIOUS
      <4> QED
        BY <1>0, <3>2, <4>1
    <3>4. Between(Listed, fprev[c], c)
      BY <1>1, <3>2, <3>3 DEF InOrderOf
    <3> DEFINE p == fprev[c]
    <3>5. p \in Listed /\ p < c /\ p \in 1 .. m /\ c \in 1 .. m
      BY <1>1, <3>4 DEF Between
    <3>6. Early(p)
      <4>1. ~(c <= p)
        BY <3>5
      <4> HIDE DEF p, Early
      <4> QED
        BY <3>1, <3>5, <4>1
    <3>7. PICK k \in 0 .. p - 1 : Walk[k] = p
      BY <3>6
    <3>8. Successor(Listed, p, fnext[p])
      BY <1>1, <3>5 DEF InOrderOf
    <3>9. fnext[p] = c
      <4>1. Between(Listed, p, c)
        BY <3>4
      <4> HIDE DEF p
      <4>2. Between(Listed, p, fnext[p])
        BY <3>5, <3>8, <4>1 DEF Successor, Between
      <4>3. fnext[p] \in 1 .. m /\ ~(fnext[p] < c) /\ ~(c < fnext[p])
        BY <1>1, <4>1, <4>2 DEF Between
      <4> QED
        BY <3>5, <4>3
    <3>10. k + 1 \in 0 .. c - 1 /\ k + 1 \in 1 .. m /\ (k + 1) - 1 = k
      <4> HIDE DEF p
      <4> QED
        BY <3>5, <1>0
    <3>11. Walk[k + 1] = c
      BY <1>0, <3>7, <3>9, <3>10
    <3> QED
      BY <3>2, <3>10, <3>11
  <2>2. PICK k \in 0 .. b - 1 : Walk[k] = b
    BY <2>1
  <2>3. b \in 1 .. m
    BY <1>1
  <2>4. k \in 0 .. m
    BY <1>0, <2>3
  <2> QED
    BY <2>2, <2>4
<1> QED
  BY <1>2, <1>3 DEF m

(* A search finds a block of the list with the number, if there is one.    *)
LEMMA SearchFinds ==
    ASSUME FsmInv, NEW n \in StateNo
    PROVE  /\ Hits(n) # {} => Search(n) \in Listed /\ number[Search(n)] = n
           /\ (\E b \in Listed : number[b] = n) => Hits(n) # {}
<1>0. DOMAIN Walk = 0 .. Cardinality(Blocks) /\ Cardinality(Blocks) \in Nat
  BY WalkIs, FsmAssumption
<1>1. ASSUME Hits(n) # {}
      PROVE  Search(n) \in Listed /\ number[Search(n)] = n
  <2> DEFINE k == CHOOSE k \in Hits(n) : \A j \in Hits(n) : k <= j
  <2>1. Hits(n) \in SUBSET Nat
    BY <1>0 DEF Hits
  <2>2. \E i \in Hits(n) : \A j \in Hits(n) : i <= j
    BY <1>1, <2>1, SmallestIn
  <2>3. k \in Hits(n)
    BY <2>2
  <2>4. Search(n) = Walk[k]
    BY DEF Search
  <2> HIDE DEF k
  <2> QED
    BY <1>0, <2>3, <2>4, WalkMeetsAll DEF Hits
<1>2. ASSUME NEW b \in Listed, number[b] = n
      PROVE  Hits(n) # {}
  <2>1. PICK k \in 0 .. Cardinality(Blocks) : Walk[k] = b
    BY WalkMeetsAll
  <2>2. k \in Hits(n)
    BY <1>0, <1>2, <2>1 DEF Hits
  <2> QED
    BY <2>2
<1> QED
  BY <1>1, <1>2

(* One more block, the largest, behind the largest that there was.         *)
LEMMA OrderGrows ==
    ASSUME NEW S \in SUBSET Blocks, 1 \in S, NEW u \in S, \A c \in S : c <= u,
           NEW nx \in [Blocks -> Blocks], NEW pv \in [Blocks -> Blocks], InOrderOf(S, nx, pv),
           NEW b \in Blocks, b > u
    PROVE  InOrderOf(S \cup {b}, [nx EXCEPT ![b] = b, ![u] = b], [pv EXCEPT ![b] = u])
<1> DEFINE T == S \cup {b}
           mx == [nx EXCEPT ![b] = b, ![u] = b]
           qv == [pv EXCEPT ![b] = u]
<1>0. \A c \in Blocks : c \in Nat /\ c >= 1
  BY FsmAssumption
<1>1. b # u /\ b # 1 /\ b \notin S /\ u \in Blocks
  BY <1>0
<1>2. \A a \in Blocks : /\ mx[a] = IF a \in {b, u} THEN b ELSE nx[a]
                        /\ qv[a] = IF a = b THEN u ELSE pv[a]
  BY <1>1
<1> HIDE DEF mx, qv
<1>3. Between(T, u, b)
  BY <1>0, <1>1 DEF Between
<1>4. ASSUME NEW a \in T PROVE Successor(T, a, mx[a])
  <2>1. CASE a = b
    <3>1. \A c \in T : c <= b
      BY <1>0, <1>1
    <3> QED
      BY <1>2, <2>1, <3>1 DEF Successor
  <2>2. CASE a = u
    BY <1>1, <1>2, <1>3, <2>2 DEF Successor
  <2>3. CASE a \notin {b, u}
    <3>1. a \in S /\ mx[a] = nx[a] /\ Successor(S, a, nx[a])
      BY <1>2, <2>3 DEF InOrderOf
    <3>2. Between(S, a, nx[a])
      BY <1>0, <2>3, <3>1 DEF Successor
    <3>3. Between(T, a, nx[a])
      BY <1>0, <1>1, <3>2 DEF Between
    <3> QED
      BY <3>1, <3>3 DEF Successor
  <2> QED
    BY <2>1, <2>2, <2>3
<1>5. ASSUME NEW a \in T \ {1} PROVE Between(T, qv[a], a)
  <2>1. CASE a = b
    BY <1>1, <1>2, <1>3, <2>1
  <2>2. CASE a # b
    <3>1. a \in S /\ qv[a] = pv[a] /\ Between(S, pv[a], a)
      BY <1>2, <2>2 DEF InOrderOf
    <3> QED
      BY <1>0, <1>1, <3>1 DEF Between
  <2> QED
    BY <2>1, <2>2
<1>6. qv[1] = 1
  BY <1>1, <1>2 DEF InOrderOf
<1> QED
  BY <1>4, <1>5, <1>6 DEF InOrderOf, mx, qv

(* Without one block that is not the head, as list_delete unlinks it.      *)
LEMMA OrderShrinks ==
    ASSUME NEW S \in SUBSET Blocks, 1 \in S, NEW s \in S \ {1},
           NEW nx \in [Blocks -> Blocks], NEW pv \in [Blocks -> Blocks], InOrderOf(S, nx, pv)
    PROVE  /\ nx[s] = s => InOrderOf(S \ {s}, [nx EXCEPT ![pv[s]] = pv[s]], pv)
           /\ nx[s] # s => InOrderOf(S \ {s}, [nx EXCEPT ![pv[s]] = nx[s]], [pv EXCEPT ![nx[s]] = pv[s]])
<1> DEFINE T == S \ {s}
           p == pv[s]
           n == nx[s]
<1>0. \A c \in Blocks : c \in Nat /\ c >= 1
  BY FsmAssumption
<1>1. Between(S, p, s) /\ Successor(S, s, n) /\ pv[1] = 1
  BY DEF InOrderOf
<1>2. p \in T /\ p \in Blocks
  BY <1>0, <1>1 DEF Between
<1>3. ASSUME NEW a \in T PROVE Successor(S, a, nx[a]) /\ (a # p => nx[a] # s)
  <2>1. Successor(S, a, nx[a])
    BY DEF InOrderOf
  <2>2. ASSUME nx[a] = s PROVE a = p
    <3>1. Between(S, a, s)
      BY <2>1, <2>2 DEF Successor
    <3> HIDE DEF p
    <3>2. ~(a < p) /\ ~(p < a)
      BY <1>1, <3>1 DEF Between
    <3> QED
      BY <1>0, <1>2, <3>2
  <2> QED
    BY <2>1, <2>2
<1>4. ASSUME NEW a \in T \ {1} PROVE Between(S, pv[a], a) /\ (a # n => pv[a] # s)
  <2>1. Between(S, pv[a], a)
    BY DEF InOrderOf
  <2>2. ASSUME pv[a] = s PROVE a = n
    <3>1. Between(S, s, a)
      BY <2>1, <2>2
    <3> HIDE DEF n
    <3>2. Between(S, s, n)
      BY <1>0, <1>1, <3>1 DEF Successor, Between
    <3>3. ~(a < n) /\ ~(n < a) /\ n \in S
      BY <3>1, <3>2 DEF Between
    <3> QED
      BY <1>0, <3>3
  <2> QED
    BY <2>1, <2>2
<1> HIDE DEF p, n
<1>5. ASSUME NEW a \in T, NEW b \in T, Between(S, a, b) PROVE Between(T, a, b)
  BY <1>5 DEF Between
<1>6. ASSUME NEW a \in T, a # p PROVE Successor(T, a, nx[a])
  <2>1. CASE Between(S, a, nx[a])
    <3>1. nx[a] \in T
      BY <1>3, <1>6, <2>1 DEF Between
    <3> QED
      BY <1>5, <2>1, <3>1 DEF Successor
  <2>2. CASE nx[a] = a /\ \A c \in S : c <= a
    BY <2>2 DEF Successor
  <2> QED
    BY <1>3, <2>1, <2>2 DEF Successor
<1>7. ASSUME NEW a \in T \ {1}, a # n PROVE Between(T, pv[a], a)
  <2>1. pv[a] \in T
    BY <1>4, <1>7 DEF Between
  <2> QED
    BY <1>4, <1>5, <2>1
<1>8. CASE n = s
  <2> DEFINE mx == [nx EXCEPT ![p] = p]
  <2>1. \A a \in Blocks : mx[a] = IF a = p THEN p ELSE nx[a]
    OBVIOUS
  <2>2. \A c \in S : c <= s
    BY <1>0, <1>1, <1>8 DEF Successor, Between
  <2>3. \A c \in T : c <= p
    BY <1>0, <1>1, <1>2, <2>2 DEF Between
  <2>4. Successor(T, p, p)
    BY <2>3 DEF Successor
  <2>5. \A a \in T : Successor(T, a, mx[a])
    <3> HIDE DEF mx
    <3> QED
      BY <1>6, <2>1, <2>4
  <2>6. \A a \in T \ {1} : Between(T, pv[a], a)
    BY <1>7, <1>8
  <2>7. InOrderOf(T, mx, pv)
    <3> HIDE DEF mx
    <3> QED
      BY <1>1, <2>5, <2>6 DEF InOrderOf
  <2> QED
    BY <1>8, <2>7 DEF p, n
<1>9. CASE n # s
  <2> DEFINE mx == [nx EXCEPT ![p] = n]
             qv == [pv EXCEPT ![n] = p]
  <2>1. Between(S, s, n)
    BY <1>1, <1>9 DEF Successor
  <2>2. n \in T /\ n \in Blocks /\ n # 1
    BY <1>0, <2>1 DEF Between
  <2>3. \A a \in Blocks : /\ mx[a] = IF a = p THEN n ELSE nx[a]
                          /\ qv[a] = IF a = n THEN p ELSE pv[a]
    BY <2>2
  <2>4. Between(T, p, n)
    BY <1>0, <1>1, <1>2, <2>1, <2>2 DEF Between
  <2> HIDE DEF mx, qv
  <2>5. \A a \in T : Successor(T, a, mx[a])
    BY <1>6, <2>3, <2>4 DEF Successor
  <2>6. \A a \in T \ {1} : Between(T, qv[a], a)
    BY <1>7, <2>3, <2>4
  <2>7. qv[1] = 1
    BY <1>1, <2>2, <2>3
  <2>8. InOrderOf(T, mx, qv)
    BY <2>5, <2>6, <2>7 DEF InOrderOf
  <2> QED
    BY <1>9, <2>8 DEF p, n, mx, qv
<1> QED
  BY <1>8, <1>9

(* Blocks are numbered from 1, and the mark of a removed state is no state *)
(* number.                                                                 *)
LEMMA BlocksAndStates ==
    (\A c \in Blocks : c \in Nat /\ c >= 1) /\ Removed \notin StateNo /\ 1 \in Blocks
<1>1. (\A c \in Blocks : c \in Nat /\ c >= 1) /\ 1 \in Blocks
  BY FsmAssumption
<1>2. Removed \notin StateNo
  BY FsmAssumption, Zenon
<1> QED
  BY <1>1, <1>2

(* The invariant of the state machine after fsm_init.                      *)
LEMMA FsmInvInit == FsmInit => FsmInv
<1> SUFFICES ASSUME FsmInit PROVE FsmInv
  OBVIOUS
<1>0. 1 \in Blocks /\ (\A c \in Blocks : c \in Nat /\ c >= 1) /\ StateNo \subseteq Nat \ {Removed, Default}
  BY FsmAssumption
<1>1. PICK n \in StateNo :
        /\ fnext = [b \in Blocks |-> b] /\ fprev = [b \in Blocks |-> b]
        /\ number = [b \in Blocks |-> IF b = 1 THEN n ELSE Removed]
        /\ stateobj = 1 /\ stateobjcopy = 1 /\ used = 1 /\ lost = {}
  BY DEF FsmInit
<1>2. Listed = {1}
  BY <1>0, <1>1 DEF Listed
<1>3. InOrderOf(Listed, fnext, fprev)
  BY <1>0, <1>1, <1>2 DEF InOrderOf, Successor, Between
<1> QED
  BY <1>0, <1>1, <1>3 DEF FsmInv

(* state_add appends a block.                                              *)
LEMMA AddKeeps ==
    ASSUME FsmInv, NEW n \in StateNo, StateAdd(n)
    PROVE  FsmInv'
<1> DEFINE b == used + 1
<1>0. (\A c \in Blocks : c \in Nat /\ c >= 1) /\ Removed \notin StateNo /\ 1 \in Blocks
  BY BlocksAndStates
<1>1. /\ b \in Blocks /\ used' = b /\ stateobj' = b /\ stateobjcopy' = 1
      /\ number' = [number EXCEPT ![b] = n]
      /\ fnext' = [fnext EXCEPT ![b] = b, ![used] = b]
      /\ fprev' = [fprev EXCEPT ![b] = used]
      /\ lost' = IF used \in lost \/ (number[used] = Removed /\ used # 1)
                 THEN lost \cup {b} ELSE lost
  BY DEF StateAdd, FsmInv
<1>2. used \in Blocks /\ used \in Nat /\ b # used /\ used >= 1 /\ b > used
  BY <1>0 DEF FsmInv
<1>3. b \notin Listed /\ b \notin lost /\ \A c \in Listed : c <= used
  BY <1>2 DEF Listed, FsmInv
<1>4. used \in Listed <=> ~(used \in lost \/ (number[used] = Removed /\ used # 1))
  BY <1>2 DEF Listed
<1>5. \A c \in Blocks : number'[c] = IF c = b THEN n ELSE number[c]
  BY <1>1 DEF FsmInv
<1>6. /\ fnext' \in [Blocks -> Blocks] /\ fprev' \in [Blocks -> Blocks]
      /\ number' \in [Blocks -> StateNo \cup {Removed}]
      /\ lost' \subseteq 2 .. b
  <2>1. fnext' \in [Blocks -> Blocks] /\ fprev' \in [Blocks -> Blocks]
    BY <1>1, <1>2 DEF FsmInv
  <2>2. number' \in [Blocks -> StateNo \cup {Removed}]
    BY <1>1 DEF FsmInv
  <2>3. lost \cup {b} \subseteq 2 .. b
    BY <1>2 DEF FsmInv
  <2> QED
    BY <1>1, <2>1, <2>2, <2>3
<1>7. Listed' = {c \in Blocks : c <= b /\ c \notin lost' /\ (c = 1 \/ number'[c] # Removed)}
  BY <1>1 DEF Listed
<1>8. ASSUME NEW c \in Blocks, c # b PROVE c \in Listed' <=> c \in Listed
  <2>1. c <= b <=> c <= used
    BY <1>0, <1>2, <1>8
  <2>2. number'[c] = number[c] /\ (c \in lost' <=> c \in lost)
    BY <1>1, <1>5, <1>8
  <2> QED
    BY <1>7, <2>1, <2>2 DEF Listed
<1>9. Listed \in SUBSET Blocks /\ Listed' \in SUBSET Blocks /\ 1 \in Listed /\ InOrderOf(Listed, fnext, fprev)
  BY <1>0, <1>2, <1>7 DEF Listed, FsmInv
<1> HIDE DEF b
<1>10. CASE used \in Listed
  <2>1. lost' = lost
    BY <1>1, <1>4, <1>10
  <2>2. b \in Listed'
    <3>1. b \in Blocks /\ b <= b /\ b \notin lost'
      BY <1>0, <1>1, <1>3, <2>1
    <3>2. number'[b] # Removed
      BY <1>0, <1>1, <1>5
    <3> QED
      BY <1>7, <3>1, <3>2
  <2>3. Listed' = Listed \cup {b}
    BY <1>8, <1>9, <2>2
  <2>4. InOrderOf(Listed \cup {b}, fnext', fprev')
    BY <1>1, <1>2, <1>3, <1>9, <1>10, OrderGrows DEF FsmInv
  <2> QED
    BY <1>1, <1>6, <2>3, <2>4 DEF FsmInv
<1>11. CASE used \notin Listed
  <2>1. b \in lost'
    BY <1>1, <1>4, <1>11
  <2>2. Listed' = Listed
    BY <1>3, <1>7, <1>8, <1>9, <2>1
  <2>3. \A c \in Listed : fnext'[c] = fnext[c] /\ fprev'[c] = fprev[c]
    BY <1>1, <1>3, <1>9, <1>11 DEF FsmInv
  <2>4. InOrderOf(Listed, fnext', fprev')
    BY <1>9, <2>3 DEF InOrderOf
  <2> QED
    BY <1>1, <1>6, <2>2, <2>4 DEF FsmInv
<1> QED
  BY <1>10, <1>11

(* state_remove joins the neighbours of a block and marks it.              *)
LEMMA RemoveKeeps ==
    ASSUME FsmInv, NEW n \in StateNo, StateRemove(n)
    PROVE  FsmInv'
<1> DEFINE s == Search(n)
<1>0. (\A c \in Blocks : c \in Nat /\ c >= 1) /\ Removed \notin StateNo /\ 1 \in Blocks
  BY BlocksAndStates
<1>1. UNCHANGED <<fsmobj, stateobj, stateobjcopy, used, lost>>
  BY DEF StateRemove
<1>2. CASE UNCHANGED <<fnext, fprev, number>>
  BY <1>1, <1>2 DEF FsmInv, Listed
<1>3. CASE Hits(n) # {} /\ FsmUnlink(s) /\ number' = [number EXCEPT ![s] = Removed]
  <2>1. s \in Listed /\ number[s] = n
    BY <1>3, SearchFinds
  <2>2. s \in Blocks
    BY <2>1 DEF Listed
  <2>3. Listed \in SUBSET Blocks /\ 1 \in Listed /\ InOrderOf(Listed, fnext, fprev)
    BY <1>0 DEF Listed, FsmInv
  <2>4. Listed' = Listed \ ({s} \ {1}) /\ number' \in [Blocks -> StateNo \cup {Removed}]
    <3> HIDE DEF s
    <3>1. number' \in [Blocks -> StateNo \cup {Removed}] /\ number'[s] = Removed
          /\ \A c \in Blocks \ {s} : number'[c] = number[c]
      BY <1>3, <2>2 DEF FsmInv
    <3>2. Listed' = {c \in Blocks : c <= used /\ c \notin lost /\ (c = 1 \/ number'[c] # Removed)}
      BY <1>1 DEF Listed
    <3> QED
      BY <1>0, <2>3, <3>1, <3>2 DEF Listed
  <2> HIDE DEF s
  <2>5. /\ fnext[s] = s => fnext' = [fnext EXCEPT ![fprev[s]] = fprev[s]] /\ fprev' = fprev
        /\ fnext[s] # s => /\ fnext' = [fnext EXCEPT ![fprev[s]] = fnext[s]]
                           /\ fprev' = [fprev EXCEPT ![fnext[s]] = fprev[s]]
    BY <1>3 DEF FsmUnlink
  <2>6. fnext' \in [Blocks -> Blocks] /\ fprev' \in [Blocks -> Blocks]
    BY <2>2, <2>5 DEF FsmInv
  <2>7. CASE s = 1
    <3>1. fprev[1] = 1 /\ Successor(Listed, 1, fnext[1])
      BY <2>3 DEF InOrderOf
    <3>2. ASSUME fnext[1] # 1 PROVE fprev[fnext[1]] = 1
      <4> DEFINE m == fnext[1]
      <4>1. Between(Listed, 1, m)
        BY <3>1, <3>2 DEF Successor
      <4>2. m \in Listed \ {1}
        BY <3>2, <4>1 DEF Between
      <4>3. Between(Listed, fprev[m], m)
        BY <2>3, <4>2 DEF InOrderOf
      <4> HIDE DEF m
      <4>4. fprev[m] \in Blocks /\ ~(1 < fprev[m])
        BY <2>3, <4>1, <4>3 DEF Between
      <4> QED
        BY <1>0, <4>4 DEF m
    <3>3. fnext' = fnext /\ fprev' = fprev
      <4>1. fnext = [fnext EXCEPT ![1] = fnext[1]] /\ fprev = [fprev EXCEPT ![fnext[1]] = fprev[fnext[1]]]
        BY <1>0 DEF FsmInv
      <4> QED
        BY <2>5, <2>7, <3>1, <3>2, <4>1
    <3>4. Listed' = Listed
      BY <2>4, <2>7
    <3> QED
      BY <1>1, <2>3, <2>4, <3>3, <3>4 DEF FsmInv
  <2>8. CASE s # 1
    <3>1. Listed' = Listed \ {s}
      BY <2>4, <2>8
    <3>2. InOrderOf(Listed \ {s}, fnext', fprev')
      <4>1. fnext \in [Blocks -> Blocks] /\ fprev \in [Blocks -> Blocks]
        BY DEF FsmInv
      <4>2. s \in Listed \ {1}
        BY <2>1, <2>8
      <4>3. CASE fnext[s] = s
        <5>1. InOrderOf(Listed \ {s}, [fnext EXCEPT ![fprev[s]] = fprev[s]], fprev)
          BY <2>3, <4>1, <4>2, <4>3, OrderShrinks
        <5> QED
          BY <2>5, <4>3, <5>1
      <4>4. CASE fnext[s] # s
        <5>1. InOrderOf(Listed \ {s}, [fnext EXCEPT ![fprev[s]] = fnext[s]], [fprev EXCEPT ![fnext[s]] = fprev[s]])
          BY <2>3, <4>1, <4>2, <4>4, OrderShrinks
        <5> QED
          BY <2>5, <4>4, <5>1
      <4> QED
        BY <4>3, <4>4
    <3> QED
      BY <1>1, <2>4, <2>6, <3>1, <3>2 DEF FsmInv
  <2> QED
    BY <2>7, <2>8
<1> QED
  BY <1>2, <1>3 DEF StateRemove

(* Every operation of the state machine keeps the invariant.               *)
LEMMA FsmInvNext == FsmInv /\ [FsmNext]_fsmVars => FsmInv'
<1> SUFFICES ASSUME FsmInv, [FsmNext]_fsmVars PROVE FsmInv'
  OBVIOUS
<1>1. ASSUME UNCHANGED <<fnext, fprev, number, stateobj, stateobjcopy, used, lost>>
      PROVE  FsmInv'
  BY <1>1 DEF FsmInv, Listed
<1>2. CASE UNCHANGED fsmVars
  BY <1>1, <1>2 DEF fsmVars
<1>3. ASSUME NEW n \in StateNo, StateTran(n) PROVE FsmInv'
  BY <1>1, <1>3 DEF StateTran
<1> QED
  BY <1>2, <1>3, AddKeeps, RemoveKeeps DEF FsmNext

(* For any numbers of states and blocks, and any additions and removals:   *)
(* a transition enters the state it names if that was added, was not       *)
(* removed and was not added behind a removed one, and the handler that    *)
(* runs is one of that state (state_add, state_remove, state_tran).        *)
THEOREM TransitionsWork == FsmSpec => FsmSafe
<1> DEFINE Works == \A n \in StateNo : StateTran(n) =>
                       /\ Added(n) # {} => fsmobj'.state = n
                       /\ fsmobj'.state # Default => number[fsmobj'.func] = n
<1>1. ASSUME FsmInv, NEW n \in StateNo, StateTran(n)
      PROVE  /\ Added(n) # {} => fsmobj'.state = n
             /\ fsmobj'.state # Default => number[fsmobj'.func] = n
  <2>0. Removed \notin StateNo
    BY FsmAssumption
  <2>1. Added(n) # {} => Hits(n) # {}
    <3>1. Added(n) \subseteq Listed /\ \A b \in Added(n) : number[b] = n
      BY <2>0 DEF Added, Listed
    <3> QED
      BY <1>1, <3>1, SearchFinds
  <2>2. fsmobj' = IF Hits(n) = {} THEN [state |-> Default, func |-> 0]
                  ELSE [state |-> n, func |-> Search(n)]
    BY <1>1 DEF StateTran
  <2>3. Hits(n) # {} => number[Search(n)] = n
    BY <1>1, SearchFinds
  <2> QED
    BY <2>1, <2>2, <2>3
<1>2. FsmInv => Works
  BY <1>1
<1> HIDE DEF Works
<1>3. FsmInv /\ [FsmNext]_fsmVars => [Works]_fsmVars
  BY <1>2
<1>4. FsmSpec => [][Works]_fsmVars
  BY <1>3, FsmInvInit, FsmInvNext, PTL DEF FsmSpec
<1> QED
  BY <1>4 DEF FsmSafe, Works

-----------------------------------------------------------------------------

(* Two rows with one beginning and one step are one.                       *)
OneStep(n, e, f) == e[0] = f[0] /\ \A i \in 1 .. n : e[i - 1] = f[i - 1] => e[i] = f[i]
LEMMA SameRow ==
    ASSUME NEW n \in Nat, NEW e, NEW f, OneStep(n, e, f)
    PROVE  \A i \in 0 .. n : e[i] = f[i]
<1> DEFINE P == {i \in 0 .. n : e[i] = f[i]}
<1>1. 0 \in P
  BY DEF OneStep
<1>2. ASSUME NEW i \in 1 .. n, i - 1 \in P PROVE i \in P
  BY <1>2 DEF OneStep
<1> HIDE DEF P
<1>3. \A i \in 0 .. n : i \in P
  BY <1>1, <1>2, StepByStep
<1> QED
  BY <1>3 DEF P

(***************************************************************************)
(* The C library                                                           *)
(***************************************************************************)

(* A quotient is smaller than what was divided.                            *)
LEMMA Quotient ==
    ASSUME NEW x \in Nat, NEW m \in Nat \ {0, 1}
    PROVE  /\ x \div m \in Nat /\ x % m \in 0 .. m - 1 /\ x = m * (x \div m) + (x % m)
           /\ x > 0 => x \div m < x
           /\ x \div m = 0 => x % m = x
<1>1. x \div m \in Int /\ x % m \in 0 .. m - 1 /\ x = m * (x \div m) + (x % m)
  OBVIOUS
<1>2. PICK q \in Int, r \in 0 .. m - 1 : q = x \div m /\ r = x % m
  BY <1>1
<1>3. x = m * q + r
  BY <1>1, <1>2
<1>4. q >= 0
  <2>1. ASSUME q < 0 PROVE FALSE
    <3>1. m * (0 - q) >= m /\ m * (0 - q) = 0 - m * q
      BY <2>1, Multiple
    <3>2. PICK a \in Int : a = m * q
      OBVIOUS
    <3> QED
      BY <1>3, <3>1, <3>2
  <2> QED
    BY <2>1
<1>5. ASSUME x > 0 PROVE q < x
  <2>1. CASE q = 0
    BY <1>5, <2>1
  <2>2. CASE q > 0
    <3>1. PICK k \in Nat : m = k + 2
      <4>1. m - 2 \in Nat /\ m = (m - 2) + 2
        OBVIOUS
      <4> QED
        BY <4>1
    <3>2. m * q = k * q + 2 * q /\ k * q \in Nat
      BY <1>4, <3>1
    <3>3. PICK a \in Nat : a = k * q
      BY <3>2
    <3>4. x = a + 2 * q + r
      BY <1>3, <3>2, <3>3
    <3> QED
      BY <2>2, <3>4
  <2> QED
    BY <1>4, <2>1, <2>2
<1>6. q = 0 => r = x
  BY <1>3
<1> QED
  BY <1>1, <1>2, <1>4, <1>5, <1>6

(* The rounds of the first loop of itoa: q[i] is val after i of them.      *)
Rounds(q, n, val, radix) ==
    /\ q \in [0 .. n -> Nat] /\ q[0] = val /\ q[n] = 0
    /\ \A i \in 1 .. n - 1 : q[i] # 0
    /\ \A i \in 1 .. n : q[i] = q[i - 1] \div radix
LEMMA DigitsAre ==
    ASSUME NEW val \in Nat, NEW radix \in Nat \ {0, 1}
    PROVE  \E n \in Nat \ {0} : \E q : /\ Rounds(q, n, val, radix)
                                       /\ Digits(val, radix) = [i \in 1 .. n |-> q[i - 1] % radix]
<1>1. PICK m \in Nat : m = val + 1
  OBVIOUS
<1> DEFINE g == [i \in 1 .. m |-> [x \in Nat |-> x \div radix]]
           F(f) == [i \in 0 .. m |-> IF i = 0 THEN val ELSE f[i - 1] \div radix]
<1>2. g \in [1 .. m -> [Nat -> Nat]]
  BY Quotient
<1>3. PICK f : IsLoop(f, m, Nat, val, g)
  <2> HIDE DEF g
  <2> QED
    BY <1>2, LoopRuns
<1>4. f = F(f)
  <2>1. f \in [0 .. m -> Nat] /\ f[0] = val /\ \A i \in 1 .. m : f[i] = g[i][f[i - 1]]
    BY <1>3 DEF IsLoop
  <2>2. ASSUME NEW i \in 0 .. m PROVE f[i] = F(f)[i]
    <3>1. CASE i = 0
      BY <2>1, <3>1
    <3>2. CASE i # 0
      <4>1. i \in 1 .. m /\ i - 1 \in 0 .. m
        BY <3>2
      <4>2. f[i - 1] \in Nat
        BY <2>1, <4>1
      <4>3. f[i] = f[i - 1] \div radix
        BY <2>1, <4>1, <4>2
      <4> QED
        BY <3>2, <4>3
    <3> QED
      BY <3>1, <3>2
  <2> QED
    BY <2>1, <2>2
<1> DEFINE e == CHOOSE h : h = F(h)
           c == CHOOSE i \in 1 .. m : e[i] = 0 /\ \A j \in 1 .. i - 1 : e[j] # 0
<1>5. e = F(e)
  BY <1>4
<1>6. Digits(val, radix) = [i \in 1 .. c |-> e[i - 1] % radix]
  BY <1>1 DEF Digits
<1> HIDE DEF e
<1>7. e[0] = val /\ \A i \in 1 .. m : e[i] = e[i - 1] \div radix
  <2>1. \A i \in 0 .. m : e[i] = IF i = 0 THEN val ELSE e[i - 1] \div radix
    BY <1>5
  <2>2. 0 \in 0 .. m /\ \A i \in 1 .. m : i \in 0 .. m /\ i # 0
    OBVIOUS
  <2> QED
    BY <2>1, <2>2
<1>8. \A i \in 0 .. m : e[i] \in Nat /\ (e[i] = 0 \/ e[i] <= val - i)
  <2> DEFINE P == {i \in 0 .. m : e[i] \in Nat /\ (e[i] = 0 \/ e[i] <= val - i)}
  <2>1. 0 \in P
    BY <1>7
  <2>2. ASSUME NEW i \in 1 .. m, i - 1 \in P PROVE i \in P
    <3>1. PICK x \in Nat : x = e[i - 1]
      BY <2>2
    <3>2. x = 0 \/ x <= val - (i - 1)
      BY <2>2, <3>1
    <3>3. e[i] = x \div radix
      BY <1>7, <3>1
    <3>4. x \div radix \in Nat /\ (x > 0 => x \div radix < x) /\ x = radix * (x \div radix) + (x % radix)
          /\ (x \div radix = 0 => x % radix = x)
      BY Quotient
    <3>5. x = 0 => x \div radix = 0
      OBVIOUS
    <3>6. PICK y \in Nat : y = e[i]
      BY <3>3, <3>4
    <3>7. y = 0 \/ y <= val - i
      BY <3>2, <3>3, <3>4, <3>5, <3>6
    <3> QED
      BY <3>6, <3>7
  <2> HIDE DEF P
  <2>3. \A i \in 0 .. m : i \in P
    BY <2>1, <2>2, StepByStep
  <2> QED
    BY <2>3 DEF P
<1>9. c \in 1 .. m /\ e[c] = 0 /\ \A j \in 1 .. c - 1 : e[j] # 0
  <2> DEFINE Z == {i \in 1 .. m : e[i] = 0}
  <2>1. m \in Z
    BY <1>1, <1>8
  <2>2. PICK i \in Z : \A j \in Z : i <= j
    <3>1. Z \in SUBSET Nat
      OBVIOUS
    <3> HIDE DEF Z
    <3> QED
      BY <2>1, <3>1, SmallestIn
  <2>3. i \in 1 .. m /\ e[i] = 0 /\ \A j \in 1 .. i - 1 : e[j] # 0
    BY <2>2
  <2> QED
    BY <2>3
<1> HIDE DEF c, F
<1> DEFINE q == [i \in 0 .. c |-> e[i]]
<1>10. Rounds(q, c, val, radix)
  <2>1. q \in [0 .. c -> Nat]
    BY <1>8, <1>9
  <2>2. \A i \in 0 .. c : q[i] = e[i]
    OBVIOUS
  <2> HIDE DEF q
  <2>3. ASSUME NEW i \in 1 .. c PROVE q[i] = q[i - 1] \div radix
    <3>1. i \in 0 .. c /\ i - 1 \in 0 .. c /\ i \in 1 .. m
      BY <1>9
    <3>2. q[i] = e[i] /\ q[i - 1] = e[i - 1] /\ e[i] = e[i - 1] \div radix
      BY <1>7, <2>2, <3>1
    <3> QED
      BY <3>2
  <2>4. q[0] = val /\ q[c] = 0 /\ \A i \in 1 .. c - 1 : q[i] # 0
    BY <1>7, <1>9, <2>2
  <2> QED
    BY <2>1, <2>3, <2>4 DEF Rounds
<1>11. Digits(val, radix) = [i \in 1 .. c |-> q[i - 1] % radix]
  <2>1. \A i \in 1 .. c : q[i - 1] = e[i - 1]
    BY <1>9
  <2> HIDE DEF q
  <2> QED
    BY <1>6, <2>1
<1>12. c \in Nat \ {0}
  BY <1>9
<1> HIDE DEF q
<1> QED
  BY <1>10, <1>11, <1>12

(* The second loop of itoa turns the digits around.                        *)
LEMMA ReversedIs ==
    ASSUME NEW m \in Nat \ {0}, NEW s \in [1 .. m -> Nat]
    PROVE  Reversed(s) = [i \in 1 .. m |-> s[m + 1 - i]]
<1>0. Len(s) = m
  <2>1. s \in Seq(Nat) /\ DOMAIN s = 1 .. m
    OBVIOUS
  <2> QED
    BY <2>1, LenProperties
<1> DEFINE c == CHOOSE k \in 1 .. m : 1 + k >= m - k /\ \A j \in 1 .. k - 1 : 1 + j < m - j
           F(h) == [k \in 0 .. c |-> IF k = 0 THEN s ELSE Swap(h[k - 1], k, m + 1 - k)]
           e == CHOOSE h : h = F(h)
           f == [k \in 0 .. c |-> [i \in 1 .. m |-> IF i <= k \/ i >= m + 1 - k THEN s[m + 1 - i] ELSE s[i]]]
<1>1. Reversed(s) = e[c]
  BY <1>0 DEF Reversed
<1>2. c \in 1 .. m /\ 1 + c >= m - c /\ \A j \in 1 .. c - 1 : 1 + j < m - j
  <2> DEFINE Z == {k \in 1 .. m : 1 + k >= m - k}
  <2>1. m \in Z
    OBVIOUS
  <2>2. PICK k \in Z : \A j \in Z : k <= j
    <3>1. Z \in SUBSET Nat
      OBVIOUS
    <3> HIDE DEF Z
    <3> QED
      BY <2>1, <3>1, SmallestIn
  <2>3. k \in 1 .. m /\ 1 + k >= m - k
    BY <2>2
  <2>4. ASSUME NEW j \in 1 .. k - 1 PROVE 1 + j < m - j
    <3>1. j \in 1 .. m /\ ~(k <= j)
      BY <2>3
    <3>2. j \notin Z
      BY <2>2, <3>1
    <3> QED
      BY <3>1, <3>2
  <2> QED
    BY <2>3, <2>4
<1> HIDE DEF c
<1>3. f[0] = s
  <2>1. f[0] = [i \in 1 .. m |-> IF i <= 0 \/ i >= m + 1 - 0 THEN s[m + 1 - i] ELSE s[i]]
    BY <1>2
  <2>2. \A i \in 1 .. m : ~(i <= 0 \/ i >= m + 1 - 0)
    OBVIOUS
  <2>3. f[0] = [i \in 1 .. m |-> s[i]]
    BY <2>1, <2>2
  <2> QED
    BY <2>3
<1>4. ASSUME NEW k \in 1 .. c PROVE f[k] = Swap(f[k - 1], k, m + 1 - k)
  <2> DEFINE a == f[k - 1]
             b == f[k]
             z == m + 1 - k
  <2>1. k \in 1 .. m /\ z \in 1 .. m /\ k <= z
    <3>1. k = 1 \/ k - 1 \in 1 .. c - 1
      BY <1>2
    <3> QED
      BY <1>2, <3>1
  <2>2. a \in [1 .. m -> Nat] /\ \A i \in 1 .. m : a[i] = IF i <= k - 1 \/ i >= m + 1 - (k - 1) THEN s[m + 1 - i] ELSE s[i]
    <3>1. a = [i \in 1 .. m |-> IF i <= k - 1 \/ i >= m + 1 - (k - 1) THEN s[m + 1 - i] ELSE s[i]]
      BY <1>2
    <3>2. \A i \in 1 .. m : m + 1 - i \in 1 .. m
      OBVIOUS
    <3> HIDE DEF a
    <3> QED
      BY <3>1, <3>2
  <2>3. b = [i \in 1 .. m |-> IF i <= k \/ i >= z THEN s[m + 1 - i] ELSE s[i]]
    BY <1>2
  <2> HIDE DEF a, b, f
  <2>4. a[k] = s[k] /\ a[z] = s[z]
    <3>1. ~(k <= k - 1) /\ ~(k >= m + 1 - (k - 1)) /\ ~(z <= k - 1) /\ ~(z >= m + 1 - (k - 1))
      BY <2>1
    <3> QED
      BY <2>1, <2>2, <3>1
  <2>5. Swap(a, k, z) = [a EXCEPT ![k] = a[z], ![z] = a[k]]
    BY DEF Swap
  <2>6. Swap(a, k, z) = [i \in 1 .. m |-> IF i = z THEN a[k] ELSE IF i = k THEN a[z] ELSE a[i]]
    <3> HIDE DEF z
    <3> QED
      BY <2>1, <2>2, <2>5
  <2>7. ASSUME NEW i \in 1 .. m
        PROVE  (IF i = z THEN a[k] ELSE IF i = k THEN a[z] ELSE a[i])
                   = IF i <= k \/ i >= z THEN s[m + 1 - i] ELSE s[i]
    <3>1. CASE i = z
      <4>1. m + 1 - i = k
        BY <3>1, <2>1
      <4> QED
        BY <2>4, <3>1, <4>1
    <3>2. CASE i = k /\ i # z
      <4>1. m + 1 - i = z
        BY <3>2, <2>1
      <4> QED
        BY <2>4, <3>2, <4>1
    <3>3. CASE i # k /\ i # z
      <4>1. (i <= k - 1 \/ i >= m + 1 - (k - 1)) <=> (i <= k \/ i >= z)
        BY <2>1, <3>3
      <4> QED
        BY <2>2, <3>3, <4>1
    <3> QED
      BY <3>1, <3>2, <3>3
  <2> QED
    BY <2>3, <2>6, <2>7 DEF a, b, z
<1>5. f = F(f)
  <2>1. ASSUME NEW k \in 0 .. c PROVE f[k] = F(f)[k]
    <3>1. k = 0 \/ k \in 1 .. c
      BY <1>2
    <3> HIDE DEF f
    <3> QED
      BY <1>3, <1>4, <3>1
  <2>2. DOMAIN f = 0 .. c /\ f = [k \in 0 .. c |-> f[k]]
    OBVIOUS
  <2> HIDE DEF f
  <2> QED
    BY <2>1, <2>2
<1>6. e = F(e)
  <2> HIDE DEF F
  <2> QED
    BY <1>5
<1>7. e[0] = s /\ \A k \in 1 .. c : e[k] = Swap(e[k - 1], k, m + 1 - k)
  <2> HIDE DEF e
  <2>1. \A k \in 0 .. c : e[k] = IF k = 0 THEN s ELSE Swap(e[k - 1], k, m + 1 - k)
    BY <1>6
  <2>2. 0 \in 0 .. c /\ \A k \in 1 .. c : k \in 0 .. c /\ k # 0
    BY <1>2
  <2> QED
    BY <2>1, <2>2
<1>8. e[c] = f[c]
  <2> HIDE DEF e, f, F
  <2>1. \A k \in 1 .. c : e[k - 1] = f[k - 1] => e[k] = f[k]
    BY <1>4, <1>7
  <2>2. c \in Nat /\ OneStep(c, e, f)
    BY <1>2, <1>3, <1>7, <2>1 DEF OneStep
  <2>3. \A k \in 0 .. c : e[k] = f[k]
    BY <2>2, SameRow
  <2> QED
    BY <1>2, <2>3
<1>9. f[c] = [i \in 1 .. m |-> s[m + 1 - i]]
  <2>1. f[c] = [i \in 1 .. m |-> IF i <= c \/ i >= m + 1 - c THEN s[m + 1 - i] ELSE s[i]]
    BY <1>2
  <2>2. ASSUME NEW i \in 1 .. m, ~(i <= c \/ i >= m + 1 - c) PROVE m + 1 - i = i
    BY <1>2, <2>2
  <2> HIDE DEF f
  <2> QED
    BY <2>1, <2>2
<1> QED
  BY <1>1, <1>8, <1>9

(* The value of a row of digits, one after the other.                      *)
Horner(v, m, s, radix) == /\ v \in [0 .. m -> Nat] /\ v[0] = 0
                          /\ \A i \in 1 .. m : v[i] = v[i - 1] * radix + s[i]
LEMMA ValueRuns ==
    ASSUME NEW m \in Nat, NEW s \in [1 .. m -> Nat], NEW radix \in Nat
    PROVE  \E v : Horner(v, m, s, radix) /\ Value(s, radix) = v[m]
<1>0. Len(s) = m
  <2>1. s \in Seq(Nat) /\ DOMAIN s = 1 .. m
    OBVIOUS
  <2> QED
    BY <2>1, LenProperties
<1> DEFINE g == [i \in 1 .. m |-> [x \in Nat |-> x * radix + s[i]]]
           F(f) == [i \in 0 .. m |-> IF i = 0 THEN 0 ELSE f[i - 1] * radix + s[i]]
<1>1. \A x \in Nat : x * radix \in Nat
  OBVIOUS
<1>2. g \in [1 .. m -> [Nat -> Nat]]
  BY <1>1
<1>3. PICK f : IsLoop(f, m, Nat, 0, g)
  <2> HIDE DEF g
  <2> QED
    BY <1>2, LoopRuns
<1>4. f \in [0 .. m -> Nat] /\ f[0] = 0 /\ \A i \in 1 .. m : f[i] = f[i - 1] * radix + s[i]
  <2>1. f \in [0 .. m -> Nat] /\ f[0] = 0 /\ \A i \in 1 .. m : f[i] = g[i][f[i - 1]]
    BY <1>3 DEF IsLoop
  <2>2. ASSUME NEW i \in 1 .. m PROVE f[i] = f[i - 1] * radix + s[i]
    <3>1. f[i - 1] \in Nat
      BY <2>1
    <3>2. g[i][f[i - 1]] = f[i - 1] * radix + s[i]
      BY <3>1
    <3> QED
      BY <2>1, <3>2
  <2> QED
    BY <2>1, <2>2
<1>5. f = F(f)
  <2>1. ASSUME NEW i \in 0 .. m PROVE f[i] = F(f)[i]
    <3>1. i = 0 \/ i \in 1 .. m
      OBVIOUS
    <3> QED
      BY <1>4, <3>1
  <2> QED
    BY <1>4, <2>1
<1> DEFINE e == CHOOSE h : h = F(h)
<1>6. e = F(e)
  <2> HIDE DEF F
  <2> QED
    BY <1>5
<1>7. Value(s, radix) = e[m]
  BY <1>0 DEF Value
<1> HIDE DEF e
<1>8. e[0] = 0 /\ \A i \in 1 .. m : e[i] = e[i - 1] * radix + s[i]
  <2>1. \A i \in 0 .. m : e[i] = IF i = 0 THEN 0 ELSE e[i - 1] * radix + s[i]
    BY <1>6
  <2>2. 0 \in 0 .. m /\ \A i \in 1 .. m : i \in 0 .. m /\ i # 0
    OBVIOUS
  <2> QED
    BY <2>1, <2>2
<1>9. e[m] = f[m]
  <2> HIDE DEF F, g
  <2>1. OneStep(m, e, f)
    BY <1>4, <1>8 DEF OneStep
  <2>2. \A i \in 0 .. m : e[i] = f[i]
    BY <2>1, SameRow
  <2> QED
    BY <2>2
<1>10. Horner(f, m, s, radix)
  BY <1>4 DEF Horner
<1> QED
  BY <1>7, <1>9, <1>10

(* The value of digits is the last of any row that computes it digit by    *)
(* digit.                                                                  *)
LEMMA HornerIs ==
    ASSUME NEW m \in Nat, NEW s \in [1 .. m -> Nat], NEW radix \in Nat, NEW v, Horner(v, m, s, radix)
    PROVE  Value(s, radix) = v[m]
<1>1. PICK f : Horner(f, m, s, radix) /\ Value(s, radix) = f[m]
  BY ValueRuns
<1>2. OneStep(m, f, v)
  BY <1>1 DEF OneStep, Horner
<1>3. \A i \in 0 .. m : f[i] = v[i]
  BY <1>2, SameRow
<1> QED
  BY <1>1, <1>3

(* What itoa writes: digits below the radix, the first one 0 only alone,   *)
(* and together the number.                                                *)
IsNumeral(s, val, radix) ==
    /\ s \in Seq(0 .. radix - 1) /\ s # <<>>
    /\ Value(s, radix) = val
    /\ Len(s) > 1 => s[1] # 0
LEMMA ItoaIs ==
    ASSUME NEW val \in Nat, NEW radix \in Nat \ {0, 1}
    PROVE  IsNumeral(Itoa(val, radix), val, radix)
<1> PICK m \in Nat \ {0} : \E q : /\ Rounds(q, m, val, radix)
                                  /\ Digits(val, radix) = [i \in 1 .. m |-> q[i - 1] % radix]
  BY DigitsAre
<1>1. PICK q : Rounds(q, m, val, radix) /\ Digits(val, radix) = [i \in 1 .. m |-> q[i - 1] % radix]
  OBVIOUS
<1>2. /\ q \in [0 .. m -> Nat] /\ q[0] = val /\ q[m] = 0
      /\ \A i \in 1 .. m - 1 : q[i] # 0
      /\ \A i \in 1 .. m : q[i] = q[i - 1] \div radix
  BY <1>1 DEF Rounds
<1>3. \A i \in 1 .. m : q[i - 1] \in Nat /\ q[i - 1] % radix \in 0 .. radix - 1 /\ q[i - 1] = radix * q[i] + (q[i - 1] % radix)
                        /\ (q[i] = 0 => q[i - 1] % radix = q[i - 1])
  <2>1. ASSUME NEW i \in 1 .. m
        PROVE  q[i - 1] \in Nat /\ q[i - 1] % radix \in 0 .. radix - 1 /\ q[i - 1] = radix * q[i] + (q[i - 1] % radix)
               /\ (q[i] = 0 => q[i - 1] % radix = q[i - 1])
    <3>1. PICK x \in Nat : x = q[i - 1]
      BY <1>2
    <3>2. q[i] = x \div radix
      BY <1>2, <3>1
    <3>3. x \div radix \in Nat /\ x % radix \in 0 .. radix - 1 /\ x = radix * (x \div radix) + (x % radix)
          /\ (x \div radix = 0 => x % radix = x)
      BY Quotient
    <3> QED
      BY <3>1, <3>2, <3>3
  <2> QED
    BY <2>1
<1>4. ASSUME NEW i \in 1 .. m PROVE q[i - 1] % radix \in 0 .. radix - 1 /\ q[i - 1] % radix \in Nat
  <2>1. q[i - 1] % radix \in 0 .. radix - 1
    BY <1>3
  <2>2. 0 .. radix - 1 \subseteq Nat
    OBVIOUS
  <2> QED
    BY <2>1, <2>2, Zenon
<1> DEFINE d == [i \in 1 .. m |-> q[i - 1] % radix]
           r == [i \in 1 .. m |-> q[m - i] % radix]
           v == [i \in 0 .. m |-> q[m - i]]
<1>5. Itoa(val, radix) = r
  <2>1. d \in [1 .. m -> Nat]
    BY <1>4
  <2>2. Itoa(val, radix) = Reversed(d)
    BY <1>1 DEF Itoa
  <2>3. Reversed(d) = [i \in 1 .. m |-> d[m + 1 - i]]
    <3> HIDE DEF d
    <3> QED
      BY <2>1, ReversedIs
  <2>4. \A i \in 1 .. m : d[m + 1 - i] = q[m - i] % radix
    <3>1. \A i \in 1 .. m : m + 1 - i \in 1 .. m /\ (m + 1 - i) - 1 = m - i
      OBVIOUS
    <3> QED
      BY <3>1
  <2> HIDE DEF d
  <2> QED
    BY <2>2, <2>3, <2>4
<1>6. \A i \in 1 .. m : q[m - i] % radix \in 0 .. radix - 1
  <2>1. ASSUME NEW i \in 1 .. m PROVE q[m - i] % radix \in 0 .. radix - 1
    <3>1. m + 1 - i \in 1 .. m /\ (m + 1 - i) - 1 = m - i
      OBVIOUS
    <3>2. q[(m + 1 - i) - 1] % radix \in 0 .. radix - 1
      BY <1>4, <3>1, Zenon
    <3> QED
      BY <3>1, <3>2
  <2> QED
    BY <2>1
<1>7. r \in [1 .. m -> 0 .. radix - 1] /\ r \in [1 .. m -> Nat]
  BY <1>6
<1>8. r \in Seq(0 .. radix - 1) /\ Len(r) = m /\ r # <<>>
  <2> HIDE DEF r
  <2>1. r \in Seq(0 .. radix - 1) /\ DOMAIN r = 1 .. m
    BY <1>7
  <2> QED
    BY <2>1, LenProperties, EmptySeq
<1>9. Horner(v, m, r, radix)
  <2>1. v \in [0 .. m -> Nat] /\ v[0] = 0
    BY <1>2
  <2>2. ASSUME NEW i \in 1 .. m PROVE v[i] = v[i - 1] * radix + r[i]
    <3>1. m + 1 - i \in 1 .. m /\ (m + 1 - i) - 1 = m - i /\ m - (i - 1) = m + 1 - i
      OBVIOUS
    <3>2. q[m - i] = radix * q[m + 1 - i] + (q[m - i] % radix)
      BY <1>3, <3>1
    <3>3. v[i] = q[m - i] /\ v[i - 1] = q[m + 1 - i] /\ r[i] = q[m - i] % radix
      BY <3>1
    <3>4. q[m + 1 - i] \in Nat
      BY <1>2
    <3>5. radix * q[m + 1 - i] = q[m + 1 - i] * radix
      BY <3>4
    <3> QED
      BY <3>2, <3>3, <3>5
  <2> HIDE DEF v, r
  <2> QED
    BY <2>1, <2>2 DEF Horner
<1>10. Value(r, radix) = val
  <2>1. v[m] = val
    BY <1>2
  <2> HIDE DEF v, r
  <2> QED
    BY <1>7, <1>9, <2>1, HornerIs
<1>11. ASSUME m > 1 PROVE r[1] # 0
  <2>1. r[1] = q[m - 1] % radix
    BY <1>11
  <2>2. m - 1 \in 1 .. m - 1 /\ m \in 1 .. m
    BY <1>11
  <2> QED
    BY <1>2, <1>3, <2>1, <2>2
<1> HIDE DEF r
<1> QED
  BY <1>5, <1>8, <1>10, <1>11 DEF IsNumeral

(* fos_strcmp stops where the strings differ or end, and tells which comes *)
(* first in a dictionary.                                                  *)
LEMMA StrcmpIs ==
    ASSUME NEW cs \in Seq(Chars), NEW ct \in Seq(Chars)
    PROVE  Strcmp(cs, ct) = IF cs = ct THEN 0 ELSE IF Before(cs, ct) THEN -1 ELSE 1
<1>0. Chars \subseteq Nat \ {0}
  BY LibcAssumption
<1>1. Len(cs) \in Nat /\ Len(ct) \in Nat
  BY LenProperties
<1>2. /\ \A i \in 1 .. Len(cs) : cs[i] \in Nat \ {0} /\ At(cs, i) = cs[i]
      /\ \A i \in 1 .. Len(ct) : ct[i] \in Nat \ {0} /\ At(ct, i) = ct[i]
  <2>1. \A i \in 1 .. Len(cs) : cs[i] \in Chars
    BY ElementOfSeq
  <2>2. \A i \in 1 .. Len(ct) : ct[i] \in Chars
    BY ElementOfSeq
  <2>3. \A i \in 1 .. Len(cs) : At(cs, i) = cs[i]
    BY <1>1 DEF At
  <2>4. \A i \in 1 .. Len(ct) : At(ct, i) = ct[i]
    BY <1>1 DEF At
  <2> QED
    BY <1>0, <2>1, <2>2, <2>3, <2>4
<1>3. \A i \in Nat \ {0} : /\ At(cs, i) \in Nat /\ (At(cs, i) = 0 <=> i > Len(cs))
                           /\ At(ct, i) \in Nat /\ (At(ct, i) = 0 <=> i > Len(ct))
  <2>1. ASSUME NEW i \in Nat \ {0}
        PROVE  At(cs, i) \in Nat /\ (At(cs, i) = 0 <=> i > Len(cs))
    <3>1. CASE i > Len(cs)
      BY <1>1, <3>1 DEF At
    <3>2. CASE i <= Len(cs)
      <4>1. i \in 1 .. Len(cs)
        BY <1>1, <3>2
      <4> QED
        BY <1>1, <1>2, <3>2, <4>1
    <3> QED
      BY <1>1, <3>1, <3>2
  <2>2. ASSUME NEW i \in Nat \ {0}
        PROVE  At(ct, i) \in Nat /\ (At(ct, i) = 0 <=> i > Len(ct))
    <3>1. CASE i > Len(ct)
      BY <1>1, <3>1 DEF At
    <3>2. CASE i <= Len(ct)
      <4>1. i \in 1 .. Len(ct)
        BY <1>1, <3>2
      <4> QED
        BY <1>1, <1>2, <3>2, <4>1
    <3> QED
      BY <1>1, <3>1, <3>2
  <2> QED
    BY <2>1, <2>2
<1> DEFINE Stop(k) == /\ At(cs, k) # At(ct, k) \/ At(cs, k) = 0
                      /\ \A j \in 1 .. k - 1 : At(cs, j) = At(ct, j) /\ At(cs, j) # 0
           k == CHOOSE k \in 1 .. Len(cs) + 1 : Stop(k)
<1>4. Strcmp(cs, ct) = IF At(cs, k) = At(ct, k) THEN 0 ELSE IF At(cs, k) < At(ct, k) THEN -1 ELSE 1
  BY DEF Strcmp
<1>5. k \in 1 .. Len(cs) + 1 /\ Stop(k)
  <2> DEFINE Z == {i \in 1 .. Len(cs) + 1 : At(cs, i) # At(ct, i) \/ At(cs, i) = 0}
  <2>1. Len(cs) + 1 \in Z
    BY <1>1, <1>3
  <2>2. PICK i \in Z : \A j \in Z : i <= j
    <3>1. Z \in SUBSET Nat
      OBVIOUS
    <3> HIDE DEF Z
    <3> QED
      BY <2>1, <3>1, SmallestIn
  <2>3. i \in 1 .. Len(cs) + 1 /\ (At(cs, i) # At(ct, i) \/ At(cs, i) = 0)
    BY <2>2
  <2>4. ASSUME NEW j \in 1 .. i - 1 PROVE At(cs, j) = At(ct, j) /\ At(cs, j) # 0
    <3>1. j \in 1 .. Len(cs) + 1 /\ ~(i <= j)
      BY <1>1, <2>3
    <3>2. j \notin Z
      BY <2>2, <3>1
    <3> QED
      BY <3>1, <3>2
  <2>5. Stop(i)
    BY <2>3, <2>4
  <2> HIDE DEF Stop
  <2> QED
    BY <2>3, <2>5
<1> HIDE DEF k
<1>6. k \in Nat \ {0}
  BY <1>1, <1>5
<1>7. ASSUME At(cs, k) = At(ct, k) PROVE cs = ct
  <2>1. At(cs, k) = 0 /\ At(ct, k) = 0 /\ k > Len(cs) /\ k > Len(ct)
    BY <1>3, <1>5, <1>6, <1>7
  <2>2. \A j \in 1 .. k - 1 : j <= Len(ct) /\ At(cs, j) = At(ct, j)
    <3>1. ASSUME NEW j \in 1 .. k - 1 PROVE j <= Len(ct) /\ At(cs, j) = At(ct, j)
      <4>1. At(ct, j) # 0 /\ At(cs, j) = At(ct, j) /\ j \in Nat \ {0}
        BY <1>5, <1>6
      <4> QED
        BY <1>1, <1>3, <4>1
    <3> QED
      BY <3>1
  <2>3. Len(cs) = k - 1
    BY <1>1, <1>5, <2>1
  <2>4. Len(ct) = k - 1
    <3>1. CASE k = 1
      BY <1>1, <2>1, <3>1
    <3>2. CASE k > 1
      <4>1. k - 1 \in 1 .. k - 1
        BY <1>6, <3>2
      <4> QED
        BY <1>1, <1>6, <2>1, <2>2, <4>1
    <3> QED
      BY <1>6, <3>1, <3>2
  <2>5. \A j \in 1 .. Len(cs) : cs[j] = ct[j]
    BY <1>2, <2>2, <2>3, <2>4
  <2> QED
    BY <2>3, <2>4, <2>5, SeqEqual
<1>8. ASSUME At(cs, k) < At(ct, k) PROVE Before(cs, ct)
  <2>1. At(ct, k) # 0
    BY <1>3, <1>6, <1>8
  <2>2. k \in 1 .. Len(ct)
    BY <1>1, <1>3, <1>6, <2>1
  <2>3. \A j \in 1 .. k - 1 : At(cs, j) = ct[j]
    BY <1>1, <1>2, <1>5, <2>2
  <2>4. At(cs, k) < ct[k]
    BY <1>2, <1>8, <2>2
  <2> QED
    BY <2>2, <2>3, <2>4 DEF Before
<1>9. ASSUME Before(cs, ct), At(cs, k) # At(ct, k) PROVE At(cs, k) < At(ct, k)
  <2>1. PICK i \in 1 .. Len(ct) : (\A j \in 1 .. i - 1 : At(cs, j) = ct[j]) /\ At(cs, i) < ct[i]
    BY <1>9 DEF Before
  <2>2. i \in Nat \ {0} /\ ct[i] = At(ct, i)
    BY <1>1, <1>2
  <2>3. ~(i < k)
    <3>1. ASSUME i < k PROVE FALSE
      <4>1. At(cs, i) = At(ct, i)
        BY <1>5, <1>6, <2>2, <3>1
      <4> QED
        BY <1>3, <2>1, <2>2, <4>1
    <3> QED
      BY <3>1
  <2>4. ~(k < i)
    <3>1. ASSUME k < i PROVE FALSE
      <4>1. k \in 1 .. i - 1 /\ k \in 1 .. Len(ct)
        BY <1>1, <1>6, <2>2, <3>1
      <4> QED
        BY <1>2, <1>9, <2>1, <4>1
    <3> QED
      BY <3>1
  <2>5. i = k
    BY <1>6, <2>2, <2>3, <2>4
  <2> QED
    BY <2>1, <2>2, <2>5
<1>10. CASE At(cs, k) = At(ct, k)
  BY <1>4, <1>7, <1>10
<1>11. CASE At(cs, k) # At(ct, k)
  <2>1. cs # ct
    BY <1>11
  <2>2. Before(cs, ct) <=> At(cs, k) < At(ct, k)
    BY <1>8, <1>9, <1>11
  <2> QED
    BY <1>4, <1>11, <2>1, <2>2
<1> QED
  BY <1>10, <1>11

(* fos_memcpy copies, byte after byte, also downwards over itself.         *)
InMemory(M, V, m, a, b, n) ==
    /\ M \in Nat /\ m \in [1 .. M -> V] /\ a \in 1 .. M /\ b \in 1 .. M /\ n \in Nat
    /\ a + n <= M + 1 /\ b + n <= M + 1
LEMMA MemcpyIs ==
    ASSUME NEW M, NEW V, NEW m, NEW a, NEW b, NEW n, InMemory(M, V, m, a, b, n), a <= b \/ a >= b + n
    PROVE  Memcpy(m, a, b, n) = [i \in 1 .. M |-> IF i \in a .. a + n - 1 THEN m[b + i - a] ELSE m[i]]
<1>0. /\ M \in Nat /\ m \in [1 .. M -> V] /\ a \in 1 .. M /\ b \in 1 .. M /\ n \in Nat
      /\ a + n <= M + 1 /\ b + n <= M + 1
  BY DEF InMemory
<1> USE <1>0
<1> DEFINE F(h) == [k \in 0 .. n |-> IF k = 0 THEN m ELSE [h[k - 1] EXCEPT ![a + k - 1] = h[k - 1][b + k - 1]]]
           e == CHOOSE h : h = F(h)
           f == [k \in 0 .. n |-> [i \in 1 .. M |-> IF i \in a .. a + k - 1 THEN m[b + i - a] ELSE m[i]]]
<1>1. Memcpy(m, a, b, n) = e[n]
  BY DEF Memcpy
<1>2. f[0] = m
  <2>1. f[0] = [i \in 1 .. M |-> IF i \in a .. a + 0 - 1 THEN m[b + i - a] ELSE m[i]]
    OBVIOUS
  <2>2. \A i \in 1 .. M : i \notin a .. a + 0 - 1
    OBVIOUS
  <2>3. f[0] = [i \in 1 .. M |-> m[i]]
    BY <2>1, <2>2
  <2> QED
    BY <2>3
<1>3. ASSUME NEW k \in 1 .. n PROVE f[k] = [f[k - 1] EXCEPT ![a + k - 1] = f[k - 1][b + k - 1]]
  <2> DEFINE c == f[k - 1]
             to == a + k - 1
             fr == b + k - 1
  <2>1. c = [i \in 1 .. M |-> IF i \in a .. a + (k - 1) - 1 THEN m[b + i - a] ELSE m[i]]
    OBVIOUS
  <2>2. f[k] = [i \in 1 .. M |-> IF i \in a .. a + k - 1 THEN m[b + i - a] ELSE m[i]]
    OBVIOUS
  <2> HIDE DEF c, f
  <2>3. to \in 1 .. M /\ fr \in 1 .. M /\ fr \notin a .. a + (k - 1) - 1
    OBVIOUS
  <2>4. c[fr] = m[fr]
    BY <2>1, <2>3
  <2>5. [c EXCEPT ![to] = c[fr]] = [i \in 1 .. M |-> IF i = to THEN m[fr] ELSE c[i]]
    <3> HIDE DEF to, fr
    <3> QED
      BY <2>1, <2>4
  <2>6. ASSUME NEW i \in 1 .. M
        PROVE  (IF i = to THEN m[fr] ELSE c[i]) = IF i \in a .. a + k - 1 THEN m[b + i - a] ELSE m[i]
    <3>1. CASE i = to
      <4>1. i \in a .. a + k - 1 /\ b + i - a = fr
        BY <3>1
      <4> QED
        BY <3>1, <4>1
    <3>2. CASE i # to
      <4>1. i \in a .. a + (k - 1) - 1 <=> i \in a .. a + k - 1
        BY <3>2
      <4> QED
        BY <2>1, <3>2, <4>1
    <3> QED
      BY <3>1, <3>2
  <2> QED
    BY <2>2, <2>5, <2>6 DEF c, to, fr
<1>4. f = F(f)
  <2>1. ASSUME NEW k \in 0 .. n PROVE f[k] = F(f)[k]
    <3>1. k = 0 \/ k \in 1 .. n
      OBVIOUS
    <3> HIDE DEF f
    <3> QED
      BY <1>2, <1>3, <3>1
  <2>2. f = [k \in 0 .. n |-> f[k]]
    OBVIOUS
  <2> HIDE DEF f
  <2> QED
    BY <2>1, <2>2
<1>5. e = F(e)
  <2> HIDE DEF F
  <2> QED
    BY <1>4
<1>6. e[0] = m /\ \A k \in 1 .. n : e[k] = [e[k - 1] EXCEPT ![a + k - 1] = e[k - 1][b + k - 1]]
  <2> HIDE DEF e
  <2>1. \A k \in 0 .. n : e[k] = IF k = 0 THEN m ELSE [e[k - 1] EXCEPT ![a + k - 1] = e[k - 1][b + k - 1]]
    BY <1>5
  <2>2. 0 \in 0 .. n /\ \A k \in 1 .. n : k \in 0 .. n /\ k # 0
    OBVIOUS
  <2> QED
    BY <2>1, <2>2
<1>7. e[n] = f[n]
  <2> HIDE DEF e, f, F
  <2>1. OneStep(n, e, f)
    BY <1>2, <1>3, <1>6 DEF OneStep
  <2>2. \A k \in 0 .. n : e[k] = f[k]
    BY <2>1, SameRow
  <2> QED
    BY <2>2
<1>8. f[n] = [i \in 1 .. M |-> IF i \in a .. a + n - 1 THEN m[b + i - a] ELSE m[i]]
  OBVIOUS
<1> QED
  BY <1>1, <1>7, <1>8

(* fos_strlen and fos_memchr stop at the first match.                      *)
LEMMA StrlenIs ==
    ASSUME NEW M \in Nat, NEW V, NEW m \in [1 .. M -> V], NEW a \in 1 .. M, \E p \in a .. M : m[p] = 0
    PROVE  Strlen(m, a) \in Int /\ \A i \in a .. a + Strlen(m, a) : m[i] = 0 <=> i = a + Strlen(m, a)
<1> DEFINE Z == {p \in a .. M : m[p] = 0}
           First(p) == p >= a /\ m[p] = 0 /\ \A q \in a .. p - 1 : m[q] # 0
           c == CHOOSE p \in DOMAIN m : First(p)
<1>1. PICK p \in Z : \A q \in Z : p <= q
  <2>1. Z \in SUBSET Nat /\ Z # {}
    OBVIOUS
  <2> HIDE DEF Z
  <2> QED
    BY <2>1, SmallestIn
<1>2. p \in a .. M /\ m[p] = 0
  BY <1>1
<1>3. ASSUME NEW q \in a .. p - 1 PROVE m[q] # 0
  <2>1. q \in a .. M /\ ~(p <= q)
    BY <1>2
  <2>2. q \notin Z
    BY <1>1, <2>1
  <2> QED
    BY <2>1, <2>2
<1>4. p \in DOMAIN m /\ First(p)
  BY <1>2, <1>3
<1>5. c \in DOMAIN m /\ First(c)
  <2> HIDE DEF First
  <2> QED
    BY <1>4
<1>6. Strlen(m, a) = c - a
  BY DEF Strlen
<1> HIDE DEF c
<1>7. c \in 1 .. M
  BY <1>5
<1>8. Strlen(m, a) \in Int /\ a + Strlen(m, a) = c
  BY <1>6, <1>7
<1>9. \A i \in a .. c : m[i] = 0 <=> i = c
  BY <1>5, <1>7
<1> QED
  BY <1>8, <1>9

(* fos_memchr finds the first place of the character, or none.             *)
LEMMA MemchrIs ==
    ASSUME NEW a \in Nat \ {0}, NEW n \in Nat, NEW m, NEW c
    PROVE  IF Memchr(m, a, c, n) = 0 THEN \A i \in a .. a + n - 1 : m[i] # c
           ELSE \A i \in a .. Memchr(m, a, c, n) : m[i] = c <=> i = Memchr(m, a, c, n)
<1> DEFINE Z == {p \in a .. a + n - 1 : m[p] = c}
           x == CHOOSE p \in Z : \A q \in Z : p <= q
<1>1. Memchr(m, a, c, n) = IF Z = {} THEN 0 ELSE x
  BY DEF Memchr
<1>2. CASE Z = {}
  BY <1>1, <1>2
<1>3. CASE Z # {}
  <2>1. \E p \in Z : \A q \in Z : p <= q
    <3>1. Z \in SUBSET Nat
      OBVIOUS
    <3> HIDE DEF Z
    <3> QED
      BY <1>3, <3>1, SmallestIn
  <2>2. x \in Z /\ \A q \in Z : x <= q
    <3> HIDE DEF Z
    <3> QED
      BY <2>1
  <2> HIDE DEF x
  <2>3. x \in a .. a + n - 1 /\ m[x] = c
    BY <2>2
  <2>4. ASSUME NEW i \in a .. x PROVE m[i] = c <=> i = x
    <3>1. i \in a .. a + n - 1
      BY <2>3
    <3>2. m[i] = c => x <= i
      BY <2>2, <3>1
    <3> QED
      BY <2>3, <3>2
  <2>5. x # 0 /\ Memchr(m, a, c, n) = x
    BY <1>1, <1>3, <2>3
  <2> QED
    BY <2>4, <2>5
<1> QED
  BY <1>2, <1>3

(* The states of uiplib_ipaddrconv, one after each character.              *)
IpChar == 0 .. 12
ConvStates == [st : {"reading", "failed"}, out : Seq(0 .. 255), tmp : 0 .. 255, j : Nat]
ConvStart == [st |-> "reading", out |-> <<>>, tmp |-> 0, j |-> 0]
Reads(f, n, mem) == /\ f \in [0 .. n -> ConvStates] /\ f[0] = ConvStart
                    /\ \A i \in 1 .. n : f[i] = ConvStep(f[i - 1], mem[i])
ConvState(st, out, sum, j) == [st |-> st, out |-> out, tmp |-> sum, j |-> j]
LEMMA ConvStepOn ==
    ASSUME NEW o, NEW t, NEW j, NEW c
    PROVE  ConvStep(ConvState("reading", o, t, j), c) =
               IF Len(o) = 4 THEN ConvState("reading", o, t, j)
               ELSE IF j = 4 \/ c = Letter THEN ConvState("failed", o, t, j)
               ELSE IF c \in {Dot, Nul} THEN ConvState("reading", Append(o, t), 0, 0)
               ELSE ConvState("reading", o, (t * 10 + c) % 256, j + 1)
<1>1. PICK s : s = ConvState("reading", o, t, j)
  OBVIOUS
<1>2. /\ s.st = "reading" /\ s.out = o /\ s.tmp = t /\ s.j = j
      /\ s = [st |-> "reading", out |-> o, tmp |-> t, j |-> j]
  BY <1>1 DEF ConvState
<1>3. [s EXCEPT !.st = "failed"] = ConvState("failed", o, t, j)
  BY <1>2 DEF ConvState
<1>4. ConvStep(s, c) =
        IF s.st = "failed" \/ Len(s.out) = 4 THEN s
        ELSE IF s.j = 4 \/ c = Letter THEN [s EXCEPT !.st = "failed"]
        ELSE IF c \in {Dot, Nul} THEN ConvState(s.st, Append(s.out, s.tmp), 0, 0)
        ELSE ConvState(s.st, s.out, (s.tmp * 10 + c) % 256, s.j + 1)
  BY DEF ConvStep, ConvState
<1> QED
  BY <1>1, <1>2, <1>3, <1>4

(* One character takes uiplib_ipaddrconv from a state to a state.          *)
LEMMA ConvStepIs ==
    ASSUME NEW s \in ConvStates, NEW c \in IpChar
    PROVE  ConvStep(s, c) \in ConvStates
<1>1. PICK x \in {"reading", "failed"}, o \in Seq(0 .. 255), t \in 0 .. 255, j \in Nat : s = ConvState(x, o, t, j)
  BY DEF ConvStates, ConvState
<1>2. \A y \in {"reading", "failed"}, q \in Seq(0 .. 255), u \in 0 .. 255, k \in Nat : ConvState(y, q, u, k) \in ConvStates
  BY DEF ConvStates, ConvState
<1>3. CASE x = "failed"
  <2>1. s.st = "failed"
    BY <1>1, <1>3 DEF ConvState
  <2> QED
    BY <2>1 DEF ConvStep
<1>4. CASE x = "reading"
  <2>1. Append(o, t) \in Seq(0 .. 255)
    BY AppendProperties
  <2>2. (t * 10 + c) % 256 \in 0 .. 255
    <3>1. PICK y \in Nat : y = t * 10 + c
      BY DEF IpChar
    <3>2. y % 256 \in 0 .. 255
      OBVIOUS
    <3> QED
      BY <3>1, <3>2
  <2>3. 0 \in 0 .. 255 /\ 0 \in Nat /\ j + 1 \in Nat
    OBVIOUS
  <2>4. /\ ConvState("reading", o, t, j) \in ConvStates /\ ConvState("failed", o, t, j) \in ConvStates
        /\ ConvState("reading", Append(o, t), 0, 0) \in ConvStates
        /\ ConvState("reading", o, (t * 10 + c) % 256, j + 1) \in ConvStates
    BY <1>2, <2>1, <2>2, <2>3
  <2> QED
    BY <1>1, <1>4, <2>4, ConvStepOn
<1> QED
  BY <1>1, <1>3, <1>4

(* The loop of uiplib_ipaddrconv has a state after each character, and its *)
(* result is the last one's.                                               *)
LEMMA ConvRuns ==
    ASSUME NEW n \in Nat, NEW mem \in [1 .. n -> IpChar]
    PROVE  \E f : /\ Reads(f, n, mem)
                  /\ IpAddrConv(mem) = IF f[n].st = "failed" THEN <<>> ELSE f[n].out
<1>0. Len(mem) = n
  <2>1. mem \in Seq(IpChar) /\ DOMAIN mem = 1 .. n
    OBVIOUS
  <2> QED
    BY <2>1, LenProperties
<1> DEFINE g == [i \in 1 .. n |-> [s \in ConvStates |-> ConvStep(s, mem[i])]]
           F(f) == [i \in 0 .. n |-> IF i = 0 THEN [st |-> "reading", out |-> <<>>, tmp |-> 0, j |-> 0]
                                     ELSE ConvStep(f[i - 1], mem[i])]
<1>1. ConvStart \in ConvStates /\ ConvStart = [st |-> "reading", out |-> <<>>, tmp |-> 0, j |-> 0]
  <2>1. <<>> \in Seq(0 .. 255)
    OBVIOUS
  <2> QED
    BY <2>1 DEF ConvStart, ConvStates
<1>2. g \in [1 .. n -> [ConvStates -> ConvStates]]
  <2>1. \A i \in 1 .. n : \A s \in ConvStates : ConvStep(s, mem[i]) \in ConvStates
    BY ConvStepIs
  <2> QED
    BY <2>1
<1>3. PICK f : IsLoop(f, n, ConvStates, ConvStart, g)
  <2> HIDE DEF g
  <2> QED
    BY <1>1, <1>2, LoopRuns
<1>4. Reads(f, n, mem)
  <2>1. f \in [0 .. n -> ConvStates] /\ f[0] = ConvStart /\ \A i \in 1 .. n : f[i] = g[i][f[i - 1]]
    BY <1>3 DEF IsLoop
  <2>2. ASSUME NEW i \in 1 .. n PROVE f[i] = ConvStep(f[i - 1], mem[i])
    <3>1. f[i - 1] \in ConvStates
      BY <2>1
    <3>2. g[i][f[i - 1]] = ConvStep(f[i - 1], mem[i])
      BY <3>1
    <3> QED
      BY <2>1, <3>2
  <2> QED
    BY <2>1, <2>2 DEF Reads
<1>5. f = F(f)
  <2>1. ASSUME NEW i \in 0 .. n PROVE f[i] = F(f)[i]
    <3>1. i = 0 \/ i \in 1 .. n
      OBVIOUS
    <3> QED
      BY <1>1, <1>4, <3>1 DEF Reads
  <2> QED
    BY <1>4, <2>1 DEF Reads
<1> DEFINE e == CHOOSE h : h = F(h)
<1>6. e = F(e)
  <2> HIDE DEF F
  <2> QED
    BY <1>5
<1>7. IpAddrConv(mem) = IF e[n].st = "failed" THEN <<>> ELSE e[n].out
  BY <1>0 DEF IpAddrConv
<1> HIDE DEF e
<1>8. e[0] = ConvStart /\ \A i \in 1 .. n : e[i] = ConvStep(e[i - 1], mem[i])
  <2>1. \A i \in 0 .. n : e[i] = IF i = 0 THEN ConvStart ELSE ConvStep(e[i - 1], mem[i])
    BY <1>1, <1>6
  <2>2. 0 \in 0 .. n /\ \A i \in 1 .. n : i \in 0 .. n /\ i # 0
    OBVIOUS
  <2> QED
    BY <2>1, <2>2
<1>9. e[n] = f[n]
  <2> HIDE DEF F, g
  <2>1. OneStep(n, e, f)
    BY <1>4, <1>8 DEF OneStep, Reads
  <2>2. \A i \in 0 .. n : e[i] = f[i]
    BY <2>1, SameRow
  <2> QED
    BY <2>2
<1> HIDE DEF F, g
<1> QED
  BY <1>4, <1>7, <1>9

(* After the fourth number, or the first fault, nothing is read any more.  *)
Over(s) == s.st = "failed" \/ Len(s.out) = 4
LEMMA ConvOver ==
    ASSUME NEW n \in Nat, NEW mem, NEW f, Reads(f, n, mem), NEW x \in 0 .. n, Over(f[x])
    PROVE  f[n] = f[x]
<1> DEFINE P == {i \in 0 .. n : i >= x => f[i] = f[x]}
<1>1. 0 \in P
  OBVIOUS
<1>2. ASSUME NEW i \in 1 .. n, i - 1 \in P PROVE i \in P
  <2>1. CASE i < x
    BY <2>1
  <2>2. CASE i = x
    BY <2>2
  <2>3. CASE i > x
    <3>1. f[i - 1] = f[x]
      BY <1>2, <2>3
    <3>2. f[i] = ConvStep(f[x], mem[i])
      BY <3>1 DEF Reads
    <3>3. f[i] = f[x]
      BY <3>2 DEF ConvStep, Over
    <3> QED
      BY <3>3
  <2> QED
    BY <2>1, <2>2, <2>3
<1> HIDE DEF P
<1>3. \A i \in 0 .. n : i \in P
  BY <1>1, <1>2, StepByStep
<1>4. n \in P /\ n >= x
  BY <1>3
<1> QED
  BY <1>4 DEF P

(* The byte into which a part is read is the value so far modulo 256.      *)
LEMMA ByteStep ==
    ASSUME NEW v \in Nat, NEW c \in Nat
    PROVE  ((v % 256) * 10 + c) % 256 = (v * 10 + c) % 256
<1>1. PICK p \in Int, w \in 0 .. 255 : w = v % 256 /\ v = 256 * p + w
  <2>1. v \div 256 \in Int /\ v % 256 \in 0 .. 255 /\ v = 256 * (v \div 256) + (v % 256)
    OBVIOUS
  <2> QED
    BY <2>1
<1>2. PICK q \in Int, x \in 0 .. 255 : x = (w * 10 + c) % 256 /\ w * 10 + c = 256 * q + x
  <2>1. PICK y \in Nat : y = w * 10 + c
    OBVIOUS
  <2>2. y \div 256 \in Int /\ y % 256 \in 0 .. 255 /\ y = 256 * (y \div 256) + (y % 256)
    OBVIOUS
  <2> QED
    BY <2>1, <2>2
<1>3. PICK z \in Int : z = v * 10 + c
  OBVIOUS
<1>4. z = 256 * (10 * p + q) + x /\ 10 * p + q \in Int
  BY <1>1, <1>2, <1>3
<1>5. z % 256 = x
  <2>1. x \in 0 .. 256 - 1 /\ 256 \in Nat \ {0}
    OBVIOUS
  <2> QED
    BY <1>4, <2>1, RestIs
<1> QED
  BY <1>1, <1>2, <1>3, <1>5

(* What a character of a part does, as long as the part is read.           *)
IpPart == 0 .. 9 \cup {Letter}
ReadsDigit(o, a, c, k) ==
    ConvStep(ConvState("reading", o, a % 256, k), c) =
        IF k = 4 \/ ~(c < 10) THEN ConvState("failed", o, a % 256, k)
        ELSE ConvState("reading", o, (a * 10 + c) % 256, k + 1)
LEMMA DigitRead ==
    ASSUME NEW o, Len(o) # 4, NEW a \in Nat, NEW c \in IpPart, NEW k \in Nat
    PROVE  ReadsDigit(o, a, c, k)
<1>1. PICK t \in 0 .. 255 : t = a % 256
  OBVIOUS
<1>2. c # 10 /\ c # 12 /\ (c < 10 <=> c # 11)
  BY DEF IpPart, Letter
<1>3. c \notin {Dot, Nul} /\ (c < 10 <=> c # Letter)
  BY <1>2 DEF Dot, Nul, Letter
<1>4. ConvStep(ConvState("reading", o, t, k), c) =
        IF k = 4 \/ c = Letter THEN ConvState("failed", o, t, k)
        ELSE ConvState("reading", o, (t * 10 + c) % 256, k + 1)
  BY <1>3, ConvStepOn
<1>5. (t * 10 + c) % 256 = (a * 10 + c) % 256
  <2>1. c \in Nat
    BY DEF IpPart, Letter
  <2> QED
    BY <1>1, <2>1, ByteStep
<1> QED
  BY <1>1, <1>3, <1>4, <1>5, Zenon DEF ReadsDigit

(* A part with its dot: up to three digits are a number modulo 256.        *)
IsNumber(p) == Len(p) < 4 /\ \A k \in 1 .. Len(p) : p[k] < 10
PartAt(n, mem, f, p, x, y, o) ==
    /\ x \in Nat /\ y \in Nat /\ y = x + Len(p) + 1 /\ y <= n
    /\ (\A i \in 1 .. Len(p) : mem[x + i] = p[i]) /\ mem[y] \in {Dot, Nul}
    /\ Len(o) # 4 /\ f[x] = ConvState("reading", o, 0, 0)
ReadOn(f, p, y, o) == IF IsNumber(p) THEN f[y] = ConvState("reading", Append(o, Value(p, 10) % 256), 0, 0)
                                     ELSE f[y].st = "failed"
LEMMA PartRead ==
    ASSUME NEW n \in Nat, NEW mem \in [1 .. n -> IpChar], NEW f, Reads(f, n, mem),
           NEW p \in Seq(IpPart), NEW x, NEW y, NEW o \in Seq(0 .. 255), PartAt(n, mem, f, p, x, y, o)
    PROVE  ReadOn(f, p, y, o)
<1>0. /\ x \in Nat /\ y \in Nat /\ y = x + Len(p) + 1 /\ y <= n
      /\ (\A i \in 1 .. Len(p) : mem[x + i] = p[i]) /\ mem[y] \in {Dot, Nul}
      /\ Len(o) # 4 /\ f[x] = ConvState("reading", o, 0, 0)
  BY DEF PartAt
<1> USE <1>0
<1> SUFFICES IF IsNumber(p) THEN f[y] = ConvState("reading", Append(o, Value(p, 10) % 256), 0, 0)
                            ELSE f[y].st = "failed"
  BY DEF ReadOn
<1>1. PICK m \in Nat : m = Len(p)
  BY LenProperties
<1>2. p \in [1 .. m -> Nat] /\ \A i \in 1 .. m : p[i] \in IpPart
  <2>1. p \in [1 .. m -> IpPart]
    BY <1>1, LenProperties
  <2>2. IpPart \subseteq Nat
    BY DEF IpPart, Letter
  <2> QED
    BY <2>1, <2>2
<1>3. PICK v : Horner(v, m, p, 10) /\ Value(p, 10) = v[m]
  <2>1. 10 \in Nat
    OBVIOUS
  <2> QED
    BY <1>2, <2>1, ValueRuns
<1>4. v \in [0 .. m -> Nat] /\ v[0] = 0 /\ \A i \in 1 .. m : v[i] = v[i - 1] * 10 + p[i]
  BY <1>3 DEF Horner
<1> DEFINE Good(i) == i <= 4 /\ \A k \in 1 .. i : p[k] < 10
           P == {i \in 0 .. m : IF Good(i) THEN f[x + i] = ConvState("reading", o, v[i] % 256, i)
                                           ELSE f[x + i].st = "failed"}
<1>5. 0 \in P
  <2>1. 0 \in 0 .. m /\ x + 0 = x /\ Good(0)
    OBVIOUS
  <2>2. v[0] % 256 = 0
    BY <1>4
  <2>3. f[x + 0] = ConvState("reading", o, v[0] % 256, 0)
    BY <2>1, <2>2
  <2> HIDE DEF Good
  <2> QED
    BY <2>1, <2>3
<1>6. ASSUME NEW i \in 1 .. m, i - 1 \in P PROVE i \in P
  <2>1. f[x + i] = ConvStep(f[x + (i - 1)], p[i])
    <3>1. x + i \in 1 .. n /\ (x + i) - 1 = x + (i - 1)
      BY <1>1
    <3> QED
      BY <1>1, <3>1 DEF Reads
  <2>2. v[i - 1] \in Nat /\ p[i] \in Nat /\ v[i] = v[i - 1] * 10 + p[i]
    BY <1>2, <1>4
  <2>3. CASE ~Good(i - 1)
    <3>1. f[x + (i - 1)].st = "failed"
      BY <1>6, <2>3
    <3>2. ~Good(i)
      BY <2>3
    <3>3. f[x + i] = f[x + (i - 1)]
      BY <2>1, <3>1 DEF ConvStep
    <3> HIDE DEF Good
    <3> QED
      BY <3>1, <3>2, <3>3
  <2>4. CASE Good(i - 1)
    <3>1. f[x + i] = ConvStep(ConvState("reading", o, v[i - 1] % 256, i - 1), p[i])
      BY <1>6, <2>1, <2>4
    <3>2. Good(i) <=> i - 1 # 4 /\ p[i] < 10
      BY <2>4
    <3>3. f[x + i] = IF i - 1 = 4 \/ ~(p[i] < 10) THEN ConvState("failed", o, v[i - 1] % 256, i - 1)
                     ELSE ConvState("reading", o, v[i] % 256, i)
      <4>1. PICK a \in Nat, c \in IpPart, k \in Nat : a = v[i - 1] /\ c = p[i] /\ k = i - 1
        BY <1>2, <2>2
      <4>2. ReadsDigit(o, a, c, k)
        BY <1>0, DigitRead
      <4>3. v[i] = a * 10 + c /\ k + 1 = i
        BY <2>2, <4>1
      <4> HIDE DEF Good
      <4> QED
        BY <3>1, <4>1, <4>2, <4>3, Zenon DEF ReadsDigit
    <3>7. ConvState("failed", o, v[i - 1] % 256, i - 1).st = "failed"
      BY DEF ConvState
    <3> HIDE DEF Good
    <3> QED
      BY <3>2, <3>3, <3>7
  <2> QED
    BY <2>3, <2>4
<1> HIDE DEF P
<1>7. \A i \in 0 .. m : i \in P
  BY <1>5, <1>6, StepByStep
<1>8. m \in P
  BY <1>7
<1>9. f[y] = ConvStep(f[x + m], mem[y])
  <2>1. y \in 1 .. n /\ y - 1 = x + m
    BY <1>1
  <2> QED
    BY <2>1 DEF Reads
<1>10. CASE ~Good(m)
  <2>1. f[x + m].st = "failed"
    BY <1>8, <1>10 DEF P
  <2>2. f[y].st = "failed"
    BY <1>9, <2>1 DEF ConvStep
  <2>3. ~IsNumber(p)
    BY <1>1, <1>10 DEF IsNumber
  <2> QED
    BY <2>2, <2>3
<1>11. CASE Good(m)
  <2>1. IsNumber(p) <=> m # 4
    <3>1. m <= 4 /\ \A k \in 1 .. m : p[k] < 10
      BY <1>11
    <3>2. IsNumber(p) <=> m < 4
      BY <1>1, <3>1 DEF IsNumber
    <3>3. m < 4 <=> m # 4
      BY <3>1
    <3> QED
      BY <3>2, <3>3
  <2> HIDE DEF Good
  <2>2. f[x + m] = ConvState("reading", o, v[m] % 256, m)
    BY <1>8, <1>11 DEF P
  <2>3. mem[y] # Letter
    BY DEF Letter, Dot, Nul
  <2>5. f[y] = IF m = 4 THEN ConvState("failed", o, v[m] % 256, m) ELSE ConvState("reading", Append(o, v[m] % 256), 0, 0)
    BY <1>9, <2>2, <2>3, ConvStepOn
  <2>6. ConvState("failed", o, v[m] % 256, m).st = "failed"
    BY DEF ConvState
  <2> QED
    BY <1>3, <2>1, <2>5, <2>6
<1> QED
  BY <1>10, <1>11

(* Where a part and the character behind it stand in the memory.           *)
Starts(mem, c) == \A i \in 1 .. Len(c) : mem[i] = c[i]
Lays(mem, c, p, e, d) == d = (c \o p) \o <<e>> /\ Starts(mem, d)
LaidOut(mem, c, p, e, d) ==
    /\ d \in Seq(IpChar) /\ Len(d) = Len(c) + Len(p) + 1
    /\ Starts(mem, c) /\ (\A i \in 1 .. Len(p) : mem[Len(c) + i] = p[i]) /\ mem[Len(d)] = e
LEMMA Laid ==
    ASSUME NEW mem, NEW c \in Seq(IpChar), NEW p \in Seq(IpChar), NEW e \in IpChar,
           NEW d, Lays(mem, c, p, e, d)
    PROVE  LaidOut(mem, c, p, e, d)
<1>0. d = (c \o p) \o <<e>> /\ Starts(mem, d)
  BY DEF Lays
<1>1. PICK a, b \in Seq(IpChar) : a = c \o p /\ b = <<e>>
  <2>1. c \o p \in Seq(IpChar) /\ <<e>> \in Seq(IpChar)
    BY ConcatProperties
  <2> QED
    BY <2>1
<1>2. /\ Len(a) = Len(c) + Len(p)
      /\ \A i \in 1 .. Len(c) + Len(p) : a[i] = IF i <= Len(c) THEN c[i] ELSE p[i - Len(c)]
  BY <1>1, ConcatProperties
<1>3. Len(b) = 1 /\ b[1] = e
  BY <1>1
<1>4. a \in Seq(IpChar)
  BY <1>1, ConcatProperties
<1>5. d \in Seq(IpChar) /\ Len(d) = Len(a) + Len(b)
      /\ \A i \in 1 .. Len(a) + Len(b) : d[i] = IF i <= Len(a) THEN a[i] ELSE b[i - Len(a)]
  BY <1>0, <1>1, <1>4, ConcatProperties
<1>6. Len(c) \in Nat /\ Len(p) \in Nat
  BY LenProperties
<1>7. PICK x \in Nat, y \in Nat : x = Len(c) /\ y = Len(p)
  BY <1>6
<1>8. Len(d) = x + y + 1 /\ Len(a) = x + y
  BY <1>2, <1>3, <1>5, <1>7
<1>9. \A i \in 1 .. x + y : mem[i] = a[i]
  <2>1. ASSUME NEW i \in 1 .. x + y PROVE mem[i] = a[i]
    <3>1. i \in 1 .. Len(d) /\ i \in 1 .. Len(a) + Len(b) /\ i <= Len(a)
      BY <1>3, <1>8
    <3> QED
      BY <1>0, <1>5, <3>1 DEF Starts
  <2> QED
    BY <2>1
<1>10. Starts(mem, c)
  BY <1>2, <1>7, <1>9 DEF Starts
<1>11. \A i \in 1 .. y : mem[x + i] = p[i]
  <2>1. ASSUME NEW i \in 1 .. y PROVE mem[x + i] = p[i]
    <3>1. x + i \in 1 .. x + y /\ ~(x + i <= x) /\ (x + i) - x = i
      OBVIOUS
    <3> QED
      BY <1>2, <1>7, <1>9, <3>1
  <2> QED
    BY <2>1
<1>12. mem[x + y + 1] = e
  <2>1. x + y + 1 \in 1 .. Len(d) /\ ~(x + y + 1 <= x + y) /\ (x + y + 1) - (x + y) = 1
    BY <1>8
  <2>2. mem[x + y + 1] = d[x + y + 1]
    BY <1>0, <2>1 DEF Starts
  <2>3. d[x + y + 1] = b[1]
    BY <1>3, <1>5, <1>8, <2>1
  <2> QED
    BY <1>3, <2>2, <2>3
<1> QED
  BY <1>5, <1>7, <1>8, <1>10, <1>11, <1>12 DEF LaidOut

(* The value of a part, as the byte that is stored.                        *)
LEMMA PartByte ==
    ASSUME NEW p \in Seq(IpPart)
    PROVE  Value(p, 10) % 256 \in 0 .. 255 /\ p \in Seq(IpChar)
<1>1. PICK m \in Nat : m = Len(p)
  BY LenProperties
<1>2. p \in [1 .. m -> IpPart] /\ IpPart \subseteq Nat /\ IpPart \subseteq IpChar /\ 10 \in Nat
  BY <1>1, LenProperties DEF IpPart, IpChar, Letter
<1>3. p \in [1 .. m -> Nat] /\ p \in Seq(IpChar)
  BY <1>2, SeqMonotonic
<1>4. PICK v : Horner(v, m, p, 10) /\ Value(p, 10) = v[m]
  BY <1>2, <1>3, ValueRuns
<1>5. PICK x \in Nat : x = Value(p, 10)
  BY <1>4 DEF Horner
<1>6. x % 256 \in 0 .. 255
  OBVIOUS
<1> QED
  BY <1>3, <1>5, <1>6

(* uiplib_ipaddrconv: four numbers of up to three digits, or nothing.      *)
IpAddrMemory(p, q, r, s, beyond) ==
    p \o <<Dot>> \o q \o <<Dot>> \o r \o <<Dot>> \o s \o <<Nul>> \o beyond
LEMMA IpAddrIs ==
    ASSUME NEW p1 \in Seq(IpPart), NEW p2 \in Seq(IpPart), NEW p3 \in Seq(IpPart), NEW p4 \in Seq(IpPart),
           NEW beyond \in Seq(IpChar)
    PROVE  IpAddrConv(IpAddrMemory(p1, p2, p3, p4, beyond)) =
             IF IsNumber(p1) /\ IsNumber(p2) /\ IsNumber(p3) /\ IsNumber(p4)
             THEN <<Value(p1, 10) % 256, Value(p2, 10) % 256, Value(p3, 10) % 256, Value(p4, 10) % 256>>
             ELSE <<>>
<1>1. PICK b1 \in 0 .. 255, b2 \in 0 .. 255, b3 \in 0 .. 255, b4 \in 0 .. 255 :
        /\ b1 = Value(p1, 10) % 256 /\ b2 = Value(p2, 10) % 256
        /\ b3 = Value(p3, 10) % 256 /\ b4 = Value(p4, 10) % 256
  BY PartByte
<1>2. p1 \in Seq(IpChar) /\ p2 \in Seq(IpChar) /\ p3 \in Seq(IpChar) /\ p4 \in Seq(IpChar)
  BY PartByte
<1>3. Dot \in IpChar /\ Nul \in IpChar /\ Dot \in {Dot, Nul} /\ Nul \in {Dot, Nul}
  BY DEF Dot, Nul, IpChar
<1>4. PICK d1, d2, d3, d4, mem :
        /\ d1 = (<<>> \o p1) \o <<Dot>> /\ d2 = (d1 \o p2) \o <<Dot>> /\ d3 = (d2 \o p3) \o <<Dot>>
        /\ d4 = (d3 \o p4) \o <<Nul>> /\ mem = d4 \o beyond
  OBVIOUS
<1>5. <<>> \o p1 = p1
  BY ConcatEmptySeq
<1>6. IpAddrMemory(p1, p2, p3, p4, beyond) = mem
  BY <1>4, <1>5 DEF IpAddrMemory
<1>7. <<>> \in Seq(IpChar) /\ Len(<<>>) = 0
  BY EmptySeq
<1>8. \A c, p \in Seq(IpChar) : \A e \in IpChar : (c \o p) \o <<e>> \in Seq(IpChar)
  BY ConcatProperties
<1>9. d1 \in Seq(IpChar)
  BY <1>2, <1>3, <1>4, <1>7, <1>8
<1>10. d2 \in Seq(IpChar)
  BY <1>2, <1>3, <1>4, <1>8, <1>9
<1>11. d3 \in Seq(IpChar)
  BY <1>2, <1>3, <1>4, <1>8, <1>10
<1>12. d4 \in Seq(IpChar)
  BY <1>2, <1>3, <1>4, <1>8, <1>11
<1>13. /\ mem \in Seq(IpChar) /\ Len(mem) = Len(d4) + Len(beyond)
       /\ \A i \in 1 .. Len(d4) + Len(beyond) : mem[i] = IF i <= Len(d4) THEN d4[i] ELSE beyond[i - Len(d4)]
  BY <1>4, <1>12, ConcatProperties
<1>14. Len(d4) \in Nat /\ Len(beyond) \in Nat /\ Len(mem) \in Nat
  BY <1>12, <1>13, LenProperties
<1>15. Starts(mem, d4)
  BY <1>13, <1>14 DEF Starts
<1>16. LaidOut(mem, d3, p4, Nul, d4)
  <2>1. Lays(mem, d3, p4, Nul, d4)
    BY <1>4, <1>15 DEF Lays, LaidOut
  <2> QED
    BY <1>2, <1>3, <1>11, <2>1, Laid
<1>17. LaidOut(mem, d2, p3, Dot, d3)
  <2>1. Lays(mem, d2, p3, Dot, d3)
    BY <1>4, <1>16 DEF Lays, LaidOut
  <2> QED
    BY <1>2, <1>3, <1>10, <2>1, Laid
<1>18. LaidOut(mem, d1, p2, Dot, d2)
  <2>1. Lays(mem, d1, p2, Dot, d2)
    BY <1>4, <1>17 DEF Lays, LaidOut
  <2> QED
    BY <1>2, <1>3, <1>9, <2>1, Laid
<1>19. LaidOut(mem, <<>>, p1, Dot, d1)
  <2>1. Lays(mem, <<>>, p1, Dot, d1)
    BY <1>4, <1>18 DEF Lays, LaidOut
  <2> QED
    BY <1>2, <1>3, <1>7, <2>1, Laid
<1>20. PICK n \in Nat, x1 \in Nat, x2 \in Nat, x3 \in Nat, x4 \in Nat :
         n = Len(mem) /\ x1 = Len(d1) /\ x2 = Len(d2) /\ x3 = Len(d3) /\ x4 = Len(d4)
  BY <1>9, <1>10, <1>11, <1>12, <1>14, LenProperties
<1>21. /\ Len(p1) \in Nat /\ Len(p2) \in Nat /\ Len(p3) \in Nat /\ Len(p4) \in Nat
  BY LenProperties
<1>22. x4 <= n /\ x3 < x4 /\ x2 < x3 /\ x1 < x2
  <2>1. x4 <= n
    BY <1>13, <1>14, <1>20
  <2>2. x4 = x3 + Len(p4) + 1
    BY <1>16, <1>20 DEF LaidOut
  <2>3. x3 = x2 + Len(p3) + 1
    BY <1>17, <1>20 DEF LaidOut
  <2>4. x2 = x1 + Len(p2) + 1
    BY <1>18, <1>20 DEF LaidOut
  <2> QED
    BY <1>21, <2>1, <2>2, <2>3, <2>4
<1>23. mem \in [1 .. n -> IpChar]
  BY <1>13, <1>20, LenProperties
<1>24. PICK f : Reads(f, n, mem) /\ IpAddrConv(mem) = IF f[n].st = "failed" THEN <<>> ELSE f[n].out
  BY <1>23, ConvRuns
<1>25. f[0] = ConvState("reading", <<>>, 0, 0)
  BY <1>24 DEF Reads, ConvStart, ConvState
<1>26. Reads(f, n, mem)
  BY <1>24
<1>27. \A x \in 0 .. n : Over(f[x]) => f[n] = f[x]
  <2>1. ASSUME NEW x \in 0 .. n, Over(f[x]) PROVE f[n] = f[x]
    BY <1>26, <2>1, ConvOver
  <2> QED
    BY <2>1
<1>28. \A x \in 0 .. n : f[x].st = "failed" => IpAddrConv(mem) = <<>>
  BY <1>24, <1>27 DEF Over
<1>29. IF IsNumber(p1) THEN f[x1] = ConvState("reading", Append(<<>>, b1), 0, 0) ELSE f[x1].st = "failed"
  <2>1. PartAt(n, mem, f, p1, 0, x1, <<>>)
    BY <1>3, <1>7, <1>19, <1>20, <1>21, <1>22, <1>25 DEF PartAt, LaidOut
  <2>2. <<>> \in Seq(0 .. 255) /\ 0 \in Nat
    OBVIOUS
  <2>3. ReadOn(f, p1, x1, <<>>)
    BY <1>23, <1>26, <2>1, <2>2, PartRead, Zenon
  <2> QED
    BY <1>1, <2>3 DEF ReadOn
<1>30. CASE ~IsNumber(p1)
  BY <1>6, <1>22, <1>28, <1>29, <1>30
<1>31. CASE IsNumber(p1)
  <2>1. PICK o1 \in Seq(0 .. 255) : o1 = Append(<<>>, b1)
    <3>1. Append(<<>>, b1) \in Seq(0 .. 255)
      BY AppendProperties
    <3> QED
      BY <3>1
  <2>2. Len(o1) = 1
    BY <2>1
  <2>3. IF IsNumber(p2) THEN f[x2] = ConvState("reading", Append(o1, b2), 0, 0) ELSE f[x2].st = "failed"
    <3>1. PartAt(n, mem, f, p2, x1, x2, o1)
      BY <1>3, <1>18, <1>20, <1>21, <1>22, <1>29, <1>31, <2>1, <2>2 DEF PartAt, LaidOut
    <3>2. ReadOn(f, p2, x2, o1)
      BY <1>23, <1>26, <3>1, PartRead, Zenon
    <3> QED
      BY <1>1, <3>2 DEF ReadOn
  <2>4. CASE ~IsNumber(p2)
    BY <1>6, <1>22, <1>28, <2>3, <2>4
  <2>5. CASE IsNumber(p2)
    <3>1. PICK o2 \in Seq(0 .. 255) : o2 = Append(o1, b2)
      <4>1. Append(o1, b2) \in Seq(0 .. 255)
        BY AppendProperties
      <4> QED
        BY <4>1
    <3>2. Len(o2) = 2
      <4>1. Len(Append(o1, b2)) = Len(o1) + 1
        BY AppendProperties
      <4> QED
        BY <2>2, <3>1, <4>1
    <3>3. IF IsNumber(p3) THEN f[x3] = ConvState("reading", Append(o2, b3), 0, 0) ELSE f[x3].st = "failed"
      <4>1. PartAt(n, mem, f, p3, x2, x3, o2)
        BY <1>3, <1>17, <1>20, <1>21, <1>22, <2>3, <2>5, <3>1, <3>2 DEF PartAt, LaidOut
      <4>2. ReadOn(f, p3, x3, o2)
        BY <1>23, <1>26, <4>1, PartRead, Zenon
      <4> QED
        BY <1>1, <4>2 DEF ReadOn
    <3>4. CASE ~IsNumber(p3)
      BY <1>6, <1>22, <1>28, <3>3, <3>4
    <3>5. CASE IsNumber(p3)
      <4>1. PICK o3 \in Seq(0 .. 255) : o3 = Append(o2, b3)
        <5>1. Append(o2, b3) \in Seq(0 .. 255)
          BY AppendProperties
        <5> QED
          BY <5>1
      <4>2. Len(o3) = 3
        <5>1. Len(Append(o2, b3)) = Len(o2) + 1
          BY AppendProperties
        <5> QED
          BY <3>2, <4>1, <5>1
      <4>3. IF IsNumber(p4) THEN f[x4] = ConvState("reading", Append(o3, b4), 0, 0) ELSE f[x4].st = "failed"
        <5>0. Len(o3) # 4
          BY <4>2
        <5>1. f[x3] = ConvState("reading", o3, 0, 0)
          BY <3>3, <3>5, <4>1
        <5>2. x4 = x3 + Len(p4) + 1 /\ (\A i \in 1 .. Len(p4) : mem[x3 + i] = p4[i]) /\ mem[x4] = Nul
          BY <1>16, <1>20 DEF LaidOut
        <5>3. PartAt(n, mem, f, p4, x3, x4, o3)
          BY <1>3, <1>20, <1>22, <5>0, <5>1, <5>2 DEF PartAt
        <5>4. ReadOn(f, p4, x4, o3)
          BY <1>23, <1>26, <5>3, PartRead, Zenon
        <5> QED
          BY <1>1, <5>4 DEF ReadOn
      <4>4. CASE ~IsNumber(p4)
        BY <1>6, <1>22, <1>28, <4>3, <4>4
      <4>5. CASE IsNumber(p4)
        <5>1. PICK o4 \in Seq(0 .. 255) : o4 = Append(o3, b4)
          <6>1. Append(o3, b4) \in Seq(0 .. 255)
            BY AppendProperties
          <6> QED
            BY <6>1
        <5>2. Len(o4) = 4 /\ o4[1] = b1 /\ o4[2] = b2 /\ o4[3] = b3 /\ o4[4] = b4
          BY <2>1, <2>2, <3>1, <3>2, <4>1, <4>2, <5>1, AppendProperties
        <5>3. f[x4].st = "reading" /\ f[x4].out = o4
          BY <4>3, <4>5, <5>1 DEF ConvState
        <5>4. f[n] = f[x4]
          BY <1>22, <1>27, <5>2, <5>3 DEF Over
        <5>5. IpAddrConv(mem) = o4
          BY <1>24, <5>3, <5>4
        <5>6. o4 = <<b1, b2, b3, b4>>
          BY <5>2
        <5> QED
          BY <1>1, <1>6, <1>31, <2>5, <3>5, <4>5, <5>5, <5>6
      <4> QED
        BY <4>4, <4>5
    <3> QED
      BY <3>4, <3>5
  <2> QED
    BY <2>4, <2>5
<1> QED
  BY <1>30, <1>31

(* Sequences put one after the other.                                      *)
Row(a, n, parts, S) == /\ a \in [0 .. n -> Seq(S)] /\ a[0] = <<>>
                       /\ \A i \in 1 .. n : a[i] = a[i - 1] \o parts[i]
LEMMA JoinedRuns ==
    ASSUME NEW S, NEW n \in Nat, NEW parts \in [1 .. n -> Seq(S)]
    PROVE  \E a : Row(a, n, parts, S) /\ Joined(parts) = a[n]
<1>0. Len(parts) = n
  <2>1. parts \in Seq(Seq(S)) /\ DOMAIN parts = 1 .. n
    OBVIOUS
  <2> QED
    BY <2>1, LenProperties
<1> DEFINE g == [i \in 1 .. n |-> [x \in Seq(S) |-> x \o parts[i]]]
           F(f) == [i \in 0 .. n |-> IF i = 0 THEN <<>> ELSE f[i - 1] \o parts[i]]
<1>1. \A i \in 1 .. n : \A x \in Seq(S) : x \o parts[i] \in Seq(S)
  BY ConcatProperties
<1>2. g \in [1 .. n -> [Seq(S) -> Seq(S)]] /\ <<>> \in Seq(S)
  BY <1>1
<1>3. PICK f : IsLoop(f, n, Seq(S), <<>>, g)
  <2> HIDE DEF g
  <2> QED
    BY <1>2, LoopRuns
<1>4. f \in [0 .. n -> Seq(S)] /\ f[0] = <<>> /\ \A i \in 1 .. n : f[i] = f[i - 1] \o parts[i]
  <2>1. f \in [0 .. n -> Seq(S)] /\ f[0] = <<>> /\ \A i \in 1 .. n : f[i] = g[i][f[i - 1]]
    BY <1>3 DEF IsLoop
  <2>2. ASSUME NEW i \in 1 .. n PROVE f[i] = f[i - 1] \o parts[i]
    <3>1. f[i - 1] \in Seq(S)
      BY <2>1
    <3>2. g[i][f[i - 1]] = f[i - 1] \o parts[i]
      BY <3>1
    <3> QED
      BY <2>1, <3>2
  <2> QED
    BY <2>1, <2>2
<1>5. f = F(f)
  <2>1. ASSUME NEW i \in 0 .. n PROVE f[i] = F(f)[i]
    <3>1. i = 0 \/ i \in 1 .. n
      OBVIOUS
    <3> QED
      BY <1>4, <3>1
  <2> QED
    BY <1>4, <2>1
<1> DEFINE e == CHOOSE h : h = F(h)
<1>6. e = F(e)
  <2> HIDE DEF F
  <2> QED
    BY <1>5
<1>7. Joined(parts) = e[n]
  BY <1>0 DEF Joined
<1> HIDE DEF e
<1>8. e[0] = <<>> /\ \A i \in 1 .. n : e[i] = e[i - 1] \o parts[i]
  <2>1. \A i \in 0 .. n : e[i] = IF i = 0 THEN <<>> ELSE e[i - 1] \o parts[i]
    BY <1>6
  <2>2. 0 \in 0 .. n /\ \A i \in 1 .. n : i \in 0 .. n /\ i # 0
    OBVIOUS
  <2> QED
    BY <2>1, <2>2
<1>9. e[n] = f[n]
  <2> HIDE DEF F, g
  <2>1. OneStep(n, e, f)
    BY <1>4, <1>8 DEF OneStep
  <2>2. \A i \in 0 .. n : e[i] = f[i]
    BY <2>1, SameRow
  <2> QED
    BY <2>2
<1>10. Row(f, n, parts, S)
  BY <1>4 DEF Row
<1> QED
  BY <1>7, <1>9, <1>10

(* Where a piece stands among the others.                                  *)
Stands(a, n, parts, i) ==
    /\ Len(a[i - 1]) \in Nat /\ Len(a[i]) = Len(a[i - 1]) + Len(parts[i]) /\ Len(a[i]) <= Len(a[n])
    /\ \A j \in 1 .. Len(parts[i]) : a[n][Len(a[i - 1]) + j] = parts[i][j]
LEMMA PieceAt ==
    ASSUME NEW S, NEW n \in Nat, NEW parts \in [1 .. n -> Seq(S)], NEW a, Row(a, n, parts, S), NEW i \in 1 .. n
    PROVE  Stands(a, n, parts, i)
<1>1. a \in [0 .. n -> Seq(S)] /\ a[0] = <<>> /\ \A k \in 1 .. n : a[k] = a[k - 1] \o parts[k]
  BY DEF Row
<1>2. ASSUME NEW k \in 1 .. n
      PROVE  /\ Len(a[k - 1]) \in Nat /\ Len(parts[k]) \in Nat
             /\ Len(a[k]) = Len(a[k - 1]) + Len(parts[k])
             /\ \A j \in 1 .. Len(a[k]) : a[k][j] = IF j <= Len(a[k - 1]) THEN a[k - 1][j] ELSE parts[k][j - Len(a[k - 1])]
  <2>1. PICK x, y \in Seq(S) : x = a[k - 1] /\ y = parts[k]
    <3>0. k - 1 \in 0 .. n
      OBVIOUS
    <3>1. a[k - 1] \in Seq(S)
      BY <1>1, <3>0
    <3>2. parts[k] \in Seq(S)
      OBVIOUS
    <3> QED
      BY <3>1, <3>2
  <2>2. /\ Len(x \o y) = Len(x) + Len(y)
        /\ \A j \in 1 .. Len(x) + Len(y) : (x \o y)[j] = IF j <= Len(x) THEN x[j] ELSE y[j - Len(x)]
        /\ Len(x) \in Nat /\ Len(y) \in Nat
    BY ConcatProperties, LenProperties
  <2>3. a[k] = x \o y
    BY <1>1, <2>1
  <2> QED
    BY <2>1, <2>2, <2>3
<1> DEFINE P == {k \in 0 .. n : k >= i => /\ Len(a[k]) \in Nat /\ Len(a[i]) <= Len(a[k])
                                          /\ \A j \in 1 .. Len(a[i]) : a[k][j] = a[i][j]}
<1>3. 0 \in P
  OBVIOUS
<1>4. ASSUME NEW k \in 1 .. n, k - 1 \in P PROVE k \in P
  <2>1. CASE k < i
    BY <2>1
  <2>2. CASE k = i
    BY <1>2, <2>2
  <2>3. CASE k > i
    <3>1. /\ Len(a[k - 1]) \in Nat /\ Len(a[i]) <= Len(a[k - 1])
          /\ \A j \in 1 .. Len(a[i]) : a[k - 1][j] = a[i][j]
      BY <1>4, <2>3
    <3>2. Len(a[i]) \in Nat
      BY <1>2
    <3>3. Len(a[k]) \in Nat /\ Len(a[i]) <= Len(a[k])
      <4>1. PICK x \in Nat, y \in Nat : x = Len(a[k - 1]) /\ y = Len(parts[k])
        BY <1>2
      <4>2. Len(a[k]) = x + y /\ Len(a[i]) <= x
        BY <1>2, <3>1, <4>1
      <4> QED
        BY <3>2, <4>2
    <3>4. ASSUME NEW j \in 1 .. Len(a[i]) PROVE a[k][j] = a[i][j]
      <4>1. j \in 1 .. Len(a[k]) /\ j <= Len(a[k - 1])
        BY <3>1, <3>2, <3>3
      <4> QED
        BY <1>2, <3>1, <4>1
    <3> QED
      BY <3>3, <3>4
  <2> QED
    BY <2>1, <2>2, <2>3
<1> HIDE DEF P
<1>5. \A k \in 0 .. n : k \in P
  BY <1>3, <1>4, StepByStep
<1>6. n \in P /\ n >= i
  BY <1>5
<1>7. Len(a[i]) <= Len(a[n]) /\ \A j \in 1 .. Len(a[i]) : a[n][j] = a[i][j]
  BY <1>6 DEF P
<1>8. ASSUME NEW j \in 1 .. Len(parts[i]) PROVE a[n][Len(a[i - 1]) + j] = parts[i][j]
  <2>1. PICK x \in Nat, y \in Nat : x = Len(a[i - 1]) /\ y = Len(parts[i])
    BY <1>2
  <2>2. x + j \in 1 .. Len(a[i]) /\ ~(x + j <= x) /\ (x + j) - x = j
    <3>1. Len(a[i]) = x + y /\ j \in 1 .. y
      BY <1>2, <2>1
    <3> QED
      BY <3>1
  <2>3. a[i][x + j] = parts[i][(x + j) - x]
    BY <1>2, <2>1, <2>2
  <2> QED
    BY <1>7, <2>1, <2>2, <2>3
<1> QED
  BY <1>2, <1>7, <1>8 DEF Stands

(* print goes through its format piece by piece: after k of them it is     *)
(* behind the k-th and has written their texts.                            *)
PrintState(ix, ax, o) == [at |-> ix, arg |-> ax, out |-> o]
PieceHere(x, format, args, ix, ax, o) ==
    /\ IsPiece(x) /\ ix \in Nat /\ ax \in Nat /\ \E S : o \in Seq(S) /\ x.text \in Seq(S)
    /\ \A j \in 1 .. Len(x.format) : format[ix + j] = x.format[j]
    /\ \A j \in 1 .. Len(x.args) : args[ax + j] = x.args[j]
PieceDone(x, format, args, ix, ax, o) ==
    PrintStep(format, args, PrintState(1 + ix, 1 + ax, o)) =
        PrintState(1 + ix + Len(x.format), 1 + ax + Len(x.args), o \o x.text)
LEMMA PrintStepOn ==
    ASSUME NEW x, NEW format, NEW args, NEW ix, NEW ax, NEW o, PieceHere(x, format, args, ix, ax, o)
    PROVE  PieceDone(x, format, args, ix, ax, o)
<1>0. /\ IsPiece(x) /\ ix \in Nat /\ ax \in Nat
      /\ \A j \in 1 .. Len(x.format) : format[ix + j] = x.format[j]
      /\ \A j \in 1 .. Len(x.args) : args[ax + j] = x.args[j]
  BY DEF PieceHere
<1> USE <1>0
<1> PICK S : o \in Seq(S) /\ x.text \in Seq(S)
  BY DEF PieceHere
<1> SUFFICES PrintStep(format, args, PrintState(1 + ix, 1 + ax, o)) =
                 PrintState(1 + ix + Len(x.format), 1 + ax + Len(x.args), o \o x.text)
  BY DEF PieceDone
<1>1. PICK s : s = PrintState(1 + ix, 1 + ax, o)
  OBVIOUS
<1>2. s.at = 1 + ix /\ s.arg = 1 + ax /\ s.out = o /\ s = [at |-> 1 + ix, arg |-> 1 + ax, out |-> o]
  BY <1>1 DEF PrintState
<1>3. [s EXCEPT !.at = @ + 2] = PrintState(1 + ix + 2, 1 + ax, o)
  BY <1>2 DEF PrintState
<1>4. PrintStep(format, args, s) =
        IF format[1 + ix] # "%" THEN PrintState(1 + ix + 1, 1 + ax, Append(o, format[1 + ix]))
        ELSE IF format[1 + ix + 1] \in Conversions
        THEN PrintState(1 + ix + 2, 1 + ax + 1, o \o Converted(format[1 + ix + 1], args[1 + ax]))
        ELSE PrintState(1 + ix + 2, 1 + ax, o)
  BY <1>2, <1>3 DEF PrintStep, PrintState
<1>5. CASE x.format = <<x.format[1]>> /\ x.format[1] # "%" /\ x.args = <<>> /\ x.text = x.format
  <2>1. PICK c : c = x.format[1]
    OBVIOUS
  <2>2. x.format = <<c>> /\ Len(<<c>>) = 1
    BY <1>5, <2>1
  <2>3. format[ix + 1] = c /\ ix + 1 = 1 + ix
    BY <2>1, <2>2
  <2>4. Len(x.args) = 0
    BY <1>5
  <2>5. Append(o, c) = o \o <<c>>
    <3>1. <<c>> \in Seq(S)
      BY <1>5, <2>2
    <3>2. c \in S
      BY <3>1
    <3> QED
      BY <3>2, AppendIsConcat
  <2>6. format[1 + ix] = c /\ c # "%"
    BY <1>5, <2>1, <2>3
  <2>7. PrintStep(format, args, s) = PrintState(1 + ix + 1, 1 + ax, Append(o, c))
    BY <1>4, <2>6
  <2>8. Len(x.format) = 1 /\ 1 + ax + Len(x.args) = 1 + ax /\ x.text = <<c>>
    BY <1>5, <2>2, <2>4
  <2> QED
    BY <1>1, <2>5, <2>7, <2>8
<1>6. CASE /\ x.format = <<"%", x.format[2]>> /\ x.text \in Seq(STRING)
           /\ IF x.format[2] \in Conversions
              THEN x.args = <<x.args[1]>> /\ x.text = Converted(x.format[2], x.args[1])
              ELSE x.args = <<>> /\ x.text = <<>>
  <2>1. PICK c : c = x.format[2]
    OBVIOUS
  <2>2. x.format = <<"%", c>> /\ Len(<<"%", c>>) = 2 /\ x.format[1] = "%"
    BY <1>6, <2>1
  <2>3. format[1 + ix] = "%" /\ format[1 + ix + 1] = c
    <3>1. ix + 1 = 1 + ix /\ ix + 2 = 1 + ix + 1 /\ 1 \in 1 .. Len(x.format) /\ 2 \in 1 .. Len(x.format)
      BY <2>2
    <3> QED
      BY <2>1, <2>2, <3>1
  <2>4. CASE c \in Conversions
    <3>1. PICK a : a = x.args[1]
      OBVIOUS
    <3>2. x.args = <<a>> /\ Len(<<a>>) = 1 /\ x.text = Converted(c, a)
      BY <1>6, <2>1, <2>4, <3>1
    <3>3. args[1 + ax] = a
      BY <3>1, <3>2
    <3> QED
      BY <1>1, <1>4, <2>2, <2>3, <2>4, <3>2, <3>3
  <2>5. CASE c \notin Conversions
    <3>1. x.args = <<>> /\ Len(x.args) = 0 /\ x.text = <<>>
      BY <1>6, <2>1, <2>5
    <3>2. o \o <<>> = o
      BY ConcatEmptySeq
    <3> QED
      BY <1>1, <1>4, <2>2, <2>3, <2>5, <3>1, <3>2
  <2> QED
    BY <2>4, <2>5
<1> QED
  BY <1>5, <1>6 DEF IsPiece

(* print puts out the text of each piece of its format, in order.          *)
LEMMA PrintedIs ==
    ASSUME NEW n \in Nat, NEW items \in [1 .. n -> Items], \A x \in Items : IsPiece(x)
    PROVE  Printed(Joined([i \in 1 .. n |-> items[i].format]), Joined([i \in 1 .. n |-> items[i].args]))
               = Joined([i \in 1 .. n |-> items[i].text])
<1> DEFINE fp == [i \in 1 .. n |-> items[i].format]
           ap == [i \in 1 .. n |-> items[i].args]
           tp == [i \in 1 .. n |-> items[i].text]
           SF == {x.format[1] : x \in Items} \cup {x.format[2] : x \in Items} \cup {"%"}
           SA == {x.args[1] : x \in Items}
           ST == {x.format[1] : x \in Items} \cup STRING
<1>1. ASSUME NEW x \in Items PROVE x.format \in Seq(SF) /\ x.args \in Seq(SA) /\ x.text \in Seq(ST)
  <2>1. CASE x.format = <<x.format[1]>> /\ x.format[1] # "%" /\ x.args = <<>> /\ x.text = x.format
    <3>1. PICK c : c = x.format[1]
      OBVIOUS
    <3>2. c \in SF /\ c \in ST
      BY <3>1
    <3> HIDE DEF SF, SA, ST
    <3>3. <<c>> \in Seq(SF) /\ <<c>> \in Seq(ST) /\ <<>> \in Seq(SA)
      BY <3>2
    <3> QED
      BY <2>1, <3>1, <3>3
  <2>2. CASE /\ x.format = <<"%", x.format[2]>> /\ x.text \in Seq(STRING)
             /\ IF x.format[2] \in Conversions
                THEN x.args = <<x.args[1]>> /\ x.text = Converted(x.format[2], x.args[1])
                ELSE x.args = <<>> /\ x.text = <<>>
    <3>1. PICK c, a : c = x.format[2] /\ a = x.args[1]
      OBVIOUS
    <3>2. c \in SF /\ "%" \in SF /\ a \in SA /\ STRING \subseteq ST
      BY <3>1
    <3> HIDE DEF SF, SA, ST
    <3>3. <<"%", c>> \in Seq(SF) /\ <<a>> \in Seq(SA) /\ <<>> \in Seq(SA)
      BY <3>2
    <3>4. x.format \in Seq(SF)
      BY <2>2, <3>1, <3>3
    <3>5. x.args \in Seq(SA)
      BY <2>2, <3>1, <3>3
    <3>6. x.text \in Seq(ST)
      BY <2>2, <3>2, SeqMonotonic
    <3> QED
      BY <3>4, <3>5, <3>6
  <2> HIDE DEF SF, SA, ST
  <2> QED
    BY <2>1, <2>2 DEF IsPiece
<1> HIDE DEF SF, SA, ST
<1>2. fp \in [1 .. n -> Seq(SF)] /\ ap \in [1 .. n -> Seq(SA)] /\ tp \in [1 .. n -> Seq(ST)]
  BY <1>1
<1>3. \A i \in 1 .. n : fp[i] = items[i].format /\ ap[i] = items[i].args /\ tp[i] = items[i].text /\ items[i] \in Items
  OBVIOUS
<1> HIDE DEF fp, ap, tp
<1>4. PICK a : Row(a, n, fp, SF) /\ Joined(fp) = a[n]
  BY <1>2, JoinedRuns
<1>5. PICK b : Row(b, n, ap, SA) /\ Joined(ap) = b[n]
  BY <1>2, JoinedRuns
<1>6. PICK c : Row(c, n, tp, ST) /\ Joined(tp) = c[n]
  BY <1>2, JoinedRuns
<1>7. PICK m \in Nat : m = Len(a[n])
  <2>1. a[n] \in Seq(SF)
    BY <1>4 DEF Row
  <2> QED
    BY <2>1, LenProperties
<1>8. ASSUME NEW i \in 0 .. n PROVE a[i] \in Seq(SF) /\ b[i] \in Seq(SA) /\ c[i] \in Seq(ST) /\ Len(a[i]) \in Nat /\ Len(b[i]) \in Nat
  <2>1. a[i] \in Seq(SF) /\ b[i] \in Seq(SA) /\ c[i] \in Seq(ST)
    BY <1>4, <1>5, <1>6 DEF Row
  <2> QED
    BY <2>1, LenProperties
<1>9. ASSUME NEW i \in 1 .. n PROVE Len(fp[i]) \in Nat \ {0}
  <2>1. IsPiece(items[i])
    BY <1>3
  <2>2. fp[i] # <<>> /\ fp[i] \in Seq(SF)
    BY <1>2, <1>3, <2>1 DEF IsPiece
  <2> QED
    BY <2>2, LenProperties, EmptySeq
<1>10. ASSUME NEW i \in 1 .. n
       PROVE  i - 1 \in 0 .. n /\ Stands(a, n, fp, i) /\ Stands(b, n, ap, i) /\ c[i] = c[i - 1] \o tp[i]
  <2>1. Stands(a, n, fp, i)
    BY <1>2, <1>4, PieceAt
  <2>2. Stands(b, n, ap, i)
    BY <1>2, <1>5, PieceAt
  <2>3. c[i] = c[i - 1] \o tp[i]
    BY <1>6 DEF Row
  <2>4. i - 1 \in 0 .. n
    OBVIOUS
  <2> QED
    BY <2>1, <2>2, <2>3, <2>4
<1>11. n <= m
  <2> DEFINE P == {i \in 0 .. n : i <= Len(a[i])}
  <2>1. 0 \in P
    BY <1>8
  <2>2. ASSUME NEW i \in 1 .. n, i - 1 \in P PROVE i \in P
    <3>1. PICK x \in Nat, y \in Nat \ {0} : x = Len(a[i - 1]) /\ y = Len(fp[i])
      BY <1>9, <1>10 DEF Stands
    <3>2. Len(a[i]) = x + y /\ i - 1 <= x
      BY <1>10, <2>2, <3>1 DEF Stands
    <3>3. i <= x + y
      <4>1. i - 1 <= x /\ y >= 1
        BY <3>1, <3>2
      <4> QED
        BY <4>1
    <3> QED
      BY <3>2, <3>3
  <2> HIDE DEF P
  <2>3. \A i \in 0 .. n : i \in P
    BY <2>1, <2>2, StepByStep
  <2>4. n \in P
    BY <2>3
  <2> QED
    BY <1>7, <2>4 DEF P
<1> DEFINE st(i) == PrintState(1 + Len(a[i]), 1 + Len(b[i]), c[i])
           f == [k \in 0 .. m |-> IF k <= n THEN st(k) ELSE st(n)]
           F(h) == [k \in 0 .. m |-> IF k = 0 THEN [at |-> 1, arg |-> 1, out |-> <<>>]
                                      ELSE IF h[k - 1].at > m THEN h[k - 1] ELSE PrintStep(a[n], b[n], h[k - 1])]
           e == CHOOSE h : h = F(h)
<1>12. f[0] = [at |-> 1, arg |-> 1, out |-> <<>>] /\ 0 \in 0 .. m
  <2>1. a[0] = <<>> /\ b[0] = <<>> /\ c[0] = <<>>
    BY <1>4, <1>5, <1>6 DEF Row
  <2>2. st(0) = PrintState(1, 1, <<>>)
    BY <2>1
  <2>3. f[0] = st(0)
    OBVIOUS
  <2> HIDE DEF f, st
  <2> QED
    BY <2>2, <2>3 DEF PrintState
<1>13. ASSUME NEW k \in 1 .. m
       PROVE  f[k] = IF f[k - 1].at > m THEN f[k - 1] ELSE PrintStep(a[n], b[n], f[k - 1])
  <2>1. CASE k > n
    <3>1. f[k] = st(n) /\ f[k - 1] = st(n)
      BY <2>1
    <3>2. st(n).at = 1 + m
      BY <1>7 DEF PrintState
    <3> HIDE DEF f, st
    <3> QED
      BY <3>1, <3>2
  <2>2. CASE k <= n
    <3>1. k \in 1 .. n /\ f[k] = st(k) /\ f[k - 1] = st(k - 1)
      BY <2>2
    <3>2. /\ Stands(a, n, fp, k) /\ Stands(b, n, ap, k) /\ c[k] = c[k - 1] \o tp[k]
          /\ c[k - 1] \in Seq(ST)
      BY <1>8, <1>10, <3>1
    <3>3. PICK x \in Nat, y \in Nat, z \in Seq(ST) : x = Len(a[k - 1]) /\ y = Len(b[k - 1]) /\ z = c[k - 1]
      BY <3>2 DEF Stands
    <3>4. PICK p \in Items : p = items[k]
      BY <1>3, <3>1
    <3>5. fp[k] = p.format /\ ap[k] = p.args /\ tp[k] = p.text
      BY <1>3, <3>1, <3>4
    <3>6. /\ Len(a[k]) = x + Len(p.format) /\ \A j \in 1 .. Len(p.format) : a[n][x + j] = p.format[j]
      BY <3>2, <3>3, <3>5 DEF Stands
    <3>7. /\ Len(b[k]) = y + Len(p.args) /\ \A j \in 1 .. Len(p.args) : b[n][y + j] = p.args[j]
      BY <3>2, <3>3, <3>5 DEF Stands
    <3>8. PrintStep(a[n], b[n], PrintState(1 + x, 1 + y, z)) =
            PrintState(1 + x + Len(p.format), 1 + y + Len(p.args), z \o p.text)
      <4>1. IsPiece(p) /\ p.text \in Seq(ST)
        BY <1>1
      <4>2. PieceHere(p, a[n], b[n], x, y, z)
        BY <3>6, <3>7, <4>1 DEF PieceHere
      <4>3. PieceDone(p, a[n], b[n], x, y, z)
        BY <4>2, PrintStepOn
      <4> QED
        BY <4>3 DEF PieceDone
    <3>9. f[k - 1] = PrintState(1 + x, 1 + y, z) /\ f[k - 1].at = 1 + x
      BY <3>1, <3>3 DEF PrintState
    <3>10. ~(1 + x > m)
      <4>1. Len(fp[k]) \in Nat \ {0} /\ Len(a[k]) <= m
        BY <1>7, <1>9, <3>1, <3>2 DEF Stands
      <4> QED
        BY <3>5, <3>6, <4>1
    <3>11. st(k) = PrintState(1 + x + Len(p.format), 1 + y + Len(p.args), z \o p.text)
      <4>1. Len(fp[k]) \in Nat /\ Len(ap[k]) \in Nat
        <5>1. fp[k] \in Seq(SF) /\ ap[k] \in Seq(SA)
          BY <1>2, <3>1
        <5> QED
          BY <5>1, LenProperties
      <4>2. 1 + Len(a[k]) = 1 + x + Len(p.format) /\ 1 + Len(b[k]) = 1 + y + Len(p.args)
        <5>1. PICK u \in Nat, v \in Nat : u = Len(p.format) /\ v = Len(p.args)
          BY <3>5, <4>1
        <5>2. 1 + (x + u) = 1 + x + u /\ 1 + (y + v) = 1 + y + v
          OBVIOUS
        <5> QED
          BY <3>6, <3>7, <5>1, <5>2
      <4>3. c[k] = z \o p.text
        BY <3>2, <3>3, <3>5
      <4> QED
        BY <4>2, <4>3
    <3> HIDE DEF f, st
    <3> QED
      BY <3>1, <3>8, <3>9, <3>10, <3>11
  <2> QED
    BY <2>1, <2>2
<1>14. f = F(f)
  <2>1. ASSUME NEW k \in 0 .. m PROVE f[k] = F(f)[k]
    <3>1. k = 0 \/ k \in 1 .. m
      OBVIOUS
    <3> HIDE DEF f
    <3> QED
      BY <1>12, <1>13, <3>1
  <2>2. DOMAIN f = 0 .. m /\ f = [k \in 0 .. m |-> f[k]]
    OBVIOUS
  <2> HIDE DEF f
  <2> QED
    BY <2>1, <2>2
<1>15. e = F(e)
  <2> HIDE DEF F
  <2> QED
    BY <1>14
<1>16. Printed(a[n], b[n]) = e[m].out
  BY <1>7 DEF Printed
<1>17. /\ e[0] = [at |-> 1, arg |-> 1, out |-> <<>>]
       /\ \A k \in 1 .. m : e[k] = IF e[k - 1].at > m THEN e[k - 1] ELSE PrintStep(a[n], b[n], e[k - 1])
  <2> HIDE DEF e
  <2>1. \A k \in 0 .. m : e[k] = IF k = 0 THEN [at |-> 1, arg |-> 1, out |-> <<>>]
                                  ELSE IF e[k - 1].at > m THEN e[k - 1] ELSE PrintStep(a[n], b[n], e[k - 1])
    BY <1>15
  <2>2. 0 \in 0 .. m /\ \A k \in 1 .. m : k \in 0 .. m /\ k # 0
    OBVIOUS
  <2> QED
    BY <2>1, <2>2
<1>18. e[m] = f[m]
  <2> HIDE DEF e, f, F
  <2>1. OneStep(m, e, f)
    BY <1>12, <1>13, <1>17 DEF OneStep
  <2>2. \A k \in 0 .. m : e[k] = f[k]
    BY <2>1, SameRow
  <2> QED
    BY <2>2
<1>19. f[m].out = c[n]
  <2>1. f[m] = st(n)
    BY <1>11
  <2>2. st(n).out = c[n]
    BY DEF PrintState
  <2> HIDE DEF f, st
  <2> QED
    BY <2>1, <2>2
<1> HIDE DEF e, f, F
<1>20. Printed(Joined(fp), Joined(ap)) = Joined(tp)
  BY <1>4, <1>5, <1>6, <1>16, <1>18, <1>19
<1> QED
  BY <1>20 DEF fp, ap, tp

(* Each call of the library, from whatever state.                          *)
LibcRight == LibcIsRight /\ MemoryIsRight
LEMMA ItoaCalled ==
    ASSUME CallItoa
    PROVE  LibcRight'
<1>1. PICK val \in 0 .. MaxVal, radix \in Radix :
        op' = "itoa" /\ arg' = <<<<val>>, <<radix>>>> /\ result' = Itoa(val, radix)
  BY DEF CallItoa
<1>2. val \in Nat /\ radix \in Nat \ {0, 1}
  BY LibcAssumption
<1>3. IsNumeral(Itoa(val, radix), val, radix)
  BY <1>2, ItoaIs
<1>4. PICK s \in Seq(0 .. radix - 1) : s = Itoa(val, radix)
  BY <1>3 DEF IsNumeral
<1>5. Value(s, radix) = val /\ (Len(s) > 1 => s[1] # 0)
  BY <1>3, <1>4 DEF IsNumeral
<1>6. \A i \in DOMAIN s : s[i] < radix
  <2>1. PICK m \in Nat : s \in [1 .. m -> 0 .. radix - 1]
    BY LenProperties
  <2> QED
    BY <1>2, <2>1
<1>7. op' = "itoa" /\ result' = s /\ arg'[1][1] = val /\ arg'[2][1] = radix
  BY <1>1, <1>4
<1>8. LibcIsRight'
  BY <1>5, <1>6, <1>7 DEF LibcIsRight
<1>9. MemoryIsRight'
  BY <1>7 DEF MemoryIsRight
<1> QED
  BY <1>8, <1>9 DEF LibcRight

(* A call of fos_strcmp.                                                   *)
LEMMA StrcmpCalled ==
    ASSUME CallStrcmp
    PROVE  LibcRight'
<1>1. PICK cs \in Strings, ct \in Strings : op' = "strcmp" /\ arg' = <<cs, ct>> /\ result' = <<Strcmp(cs, ct)>>
  BY DEF CallStrcmp
<1>2. \A s \in Strings : s \in Seq(Chars)
  <2>1. ASSUME NEW s \in Strings PROVE s \in Seq(Chars)
    <3>1. PICK n \in 0 .. MaxLen : s \in [1 .. n -> Chars]
      BY DEF Strings
    <3>2. n \in Nat
      BY LibcAssumption
    <3> QED
      BY <3>1, <3>2
  <2> QED
    BY <2>1
<1>3. Strcmp(cs, ct) = IF cs = ct THEN 0 ELSE IF Before(cs, ct) THEN -1 ELSE 1
  BY <1>2, StrcmpIs
<1>4. op' = "strcmp" /\ arg'[1] = cs /\ arg'[2] = ct /\ result' = <<Strcmp(cs, ct)>>
  BY <1>1
<1>5. LibcIsRight'
  BY <1>3, <1>4 DEF LibcIsRight
<1>6. MemoryIsRight'
  BY <1>4 DEF MemoryIsRight
<1> QED
  BY <1>5, <1>6 DEF LibcRight

(* A call of print.                                                        *)
LEMMA PrintCalledRight ==
    ASSUME CallPrint
    PROVE  LibcRight'
<1>1. PICK n \in 0 .. MaxItems : \E items \in [1 .. n -> Items] :
        /\ op' = "print" /\ arg' = <<Joined([i \in 1 .. n |-> items[i].text])>>
        /\ result' = Printed(Joined([i \in 1 .. n |-> items[i].format]), Joined([i \in 1 .. n |-> items[i].args]))
  BY DEF CallPrint
<1>2. PICK items \in [1 .. n -> Items] :
        /\ op' = "print" /\ arg' = <<Joined([i \in 1 .. n |-> items[i].text])>>
        /\ result' = Printed(Joined([i \in 1 .. n |-> items[i].format]), Joined([i \in 1 .. n |-> items[i].args]))
  BY <1>1
<1>3. n \in Nat /\ \A x \in Items : IsPiece(x)
  BY LibcAssumption
<1>4. result' = Joined([i \in 1 .. n |-> items[i].text])
  BY <1>2, <1>3, PrintedIs
<1>5. op' = "print" /\ result' = arg'[1]
  BY <1>2, <1>4
<1>6. LibcIsRight'
  BY <1>5 DEF LibcIsRight
<1>7. MemoryIsRight'
  BY <1>5 DEF MemoryIsRight
<1> QED
  BY <1>6, <1>7 DEF LibcRight

(* A call of fos_memcpy, fos_memset, fos_memchr or fos_strlen.             *)
LEMMA MemoryCalled ==
    ASSUME CallMemory
    PROVE  LibcRight'
<1>1. PICK m \in Memories, a \in 1 .. MemSize, b \in 1 .. MemSize : \E n \in 0 .. MemSize + 1 - (IF a > b THEN a ELSE b) :
        /\ arg' = <<m, <<a, b, n>>>>
        /\ \/ op' = "memcpy" /\ result' = Memcpy(m, a, b, n)
           \/ op' = "memset" /\ result' = Memset(m, a, m[b], n)
           \/ op' = "memchr" /\ result' = <<Memchr(m, a, m[b], n)>>
           \/ /\ \E p \in a .. MemSize : m[p] = 0
              /\ op' = "strlen" /\ result' = <<Strlen(m, a)>>
  BY DEF CallMemory
<1>2. PICK n \in 0 .. MemSize + 1 - (IF a > b THEN a ELSE b) :
        /\ arg' = <<m, <<a, b, n>>>>
        /\ \/ op' = "memcpy" /\ result' = Memcpy(m, a, b, n)
           \/ op' = "memset" /\ result' = Memset(m, a, m[b], n)
           \/ op' = "memchr" /\ result' = <<Memchr(m, a, m[b], n)>>
           \/ /\ \E p \in a .. MemSize : m[p] = 0
              /\ op' = "strlen" /\ result' = <<Strlen(m, a)>>
  BY <1>1
<1>3. MemSize \in Nat /\ m \in [1 .. MemSize -> {0} \cup Chars] /\ DOMAIN m = 1 .. MemSize
  BY LibcAssumption DEF Memories
<1>4. n \in Nat /\ a + n <= MemSize + 1 /\ b + n <= MemSize + 1
  BY <1>3
<1>5. PICK M, V : M \in Nat /\ M = MemSize /\ V = {0} \cup Chars
  BY <1>3
<1>6. InMemory(M, V, m, a, b, n) /\ a \in Nat \ {0}
  BY <1>3, <1>4, <1>5 DEF InMemory
<1>7. arg'[1] = m /\ arg'[2][1] = a /\ arg'[2][2] = b /\ arg'[2][3] = n
  BY <1>2
<1>8. op' \in {"memcpy", "memset", "memchr", "strlen"}
  BY <1>2
<1>9. LibcIsRight'
  BY <1>8 DEF LibcIsRight
<1>10. CASE op' = "memcpy" /\ result' = Memcpy(m, a, b, n)
  <2>1. ASSUME a <= b \/ a >= b + n
        PROVE  result' = [i \in DOMAIN m |-> IF i \in a .. a + n - 1 THEN m[b + i - a] ELSE m[i]]
    <3>1. Memcpy(m, a, b, n) = [i \in 1 .. M |-> IF i \in a .. a + n - 1 THEN m[b + i - a] ELSE m[i]]
      BY <1>6, <2>1, MemcpyIs
    <3> QED
      BY <1>3, <1>10, <1>5, <3>1
  <2> QED
    BY <1>7, <1>9, <1>10, <2>1 DEF MemoryIsRight, LibcRight
<1>11. CASE op' = "memset" /\ result' = Memset(m, a, m[b], n)
  <2>1. \A i \in DOMAIN m : result'[i] = IF i \in a .. a + n - 1 THEN m[b] ELSE m[i]
    BY <1>11 DEF Memset
  <2> QED
    BY <1>7, <1>9, <1>11, <2>1 DEF MemoryIsRight, LibcRight
<1>12. CASE op' = "memchr" /\ result' = <<Memchr(m, a, m[b], n)>>
  <2>1. PICK c : c = m[b]
    OBVIOUS
  <2>2. IF Memchr(m, a, c, n) = 0 THEN \A i \in a .. a + n - 1 : m[i] # c
        ELSE \A i \in a .. Memchr(m, a, c, n) : m[i] = c <=> i = Memchr(m, a, c, n)
    BY <1>4, <1>6, MemchrIs
  <2>3. result'[1] = Memchr(m, a, c, n)
    BY <1>12, <2>1
  <2> QED
    BY <1>7, <1>9, <1>12, <2>1, <2>2, <2>3 DEF MemoryIsRight, LibcRight
<1>13. CASE /\ \E p \in a .. MemSize : m[p] = 0
            /\ op' = "strlen" /\ result' = <<Strlen(m, a)>>
  <2>1. \A i \in a .. a + Strlen(m, a) : m[i] = 0 <=> i = a + Strlen(m, a)
    BY <1>3, <1>13, StrlenIs
  <2>2. result'[1] = Strlen(m, a)
    BY <1>13
  <2> QED
    BY <1>7, <1>9, <1>13, <2>1, <2>2 DEF MemoryIsRight, LibcRight
<1> QED
  BY <1>2, <1>10, <1>11, <1>12, <1>13

(* A call of uiplib_ipaddrconv.                                            *)
LEMMA IpAddrCalled ==
    ASSUME CallIpAddrConv
    PROVE  LibcRight'
<1>1. PICK parts \in [1 .. 4 -> Parts], beyond \in {<<Letter>>, <<Dot, 1, Nul>>} :
        /\ op' = "ipaddrconv" /\ arg' = parts
        /\ result' = IpAddrConv(IpAddrMemory(parts[1], parts[2], parts[3], parts[4], beyond))
  BY DEF CallIpAddrConv, IpAddrMemory
<1>2. beyond \in Seq(IpChar)
  <2>1. Letter \in IpChar /\ Dot \in IpChar /\ Nul \in IpChar /\ 1 \in IpChar
    BY DEF Letter, Dot, Nul, IpChar
  <2>2. <<Letter>> \in Seq(IpChar) /\ <<Dot, 1, Nul>> \in Seq(IpChar)
    BY <2>1
  <2> QED
    BY <2>2
<1>3. \A i \in 1 .. 4 : parts[i] \in Seq(IpPart)
  BY LibcAssumption DEF IpPart
<1>4. parts[1] \in Seq(IpPart) /\ parts[2] \in Seq(IpPart) /\ parts[3] \in Seq(IpPart) /\ parts[4] \in Seq(IpPart)
  BY <1>3
<1>5. IpAddrConv(IpAddrMemory(parts[1], parts[2], parts[3], parts[4], beyond)) =
        IF IsNumber(parts[1]) /\ IsNumber(parts[2]) /\ IsNumber(parts[3]) /\ IsNumber(parts[4])
        THEN <<Value(parts[1], 10) % 256, Value(parts[2], 10) % 256, Value(parts[3], 10) % 256, Value(parts[4], 10) % 256>>
        ELSE <<>>
  BY <1>2, <1>4, IpAddrIs
<1>6. (\A i \in 1 .. 4 : IsNumber(parts[i])) <=>
        IsNumber(parts[1]) /\ IsNumber(parts[2]) /\ IsNumber(parts[3]) /\ IsNumber(parts[4])
  <2>1. \A i \in 1 .. 4 : i = 1 \/ i = 2 \/ i = 3 \/ i = 4
    OBVIOUS
  <2>2. 1 \in 1 .. 4 /\ 2 \in 1 .. 4 /\ 3 \in 1 .. 4 /\ 4 \in 1 .. 4
    OBVIOUS
  <2> QED
    BY <2>1, <2>2, Zenon
<1>7. <<Value(parts[1], 10) % 256, Value(parts[2], 10) % 256, Value(parts[3], 10) % 256, Value(parts[4], 10) % 256>>
        = [i \in 1 .. 4 |-> Value(parts[i], 10) % 256]
  <2>1. PICK v : v = [i \in 1 .. 4 |-> Value(parts[i], 10) % 256]
    OBVIOUS
  <2>2. /\ v \in [1 .. 4 -> {v[i] : i \in 1 .. 4}] /\ v[1] = Value(parts[1], 10) % 256 /\ v[2] = Value(parts[2], 10) % 256
        /\ v[3] = Value(parts[3], 10) % 256 /\ v[4] = Value(parts[4], 10) % 256
    BY <2>1
  <2>3. v = <<v[1], v[2], v[3], v[4]>>
    BY <2>2
  <2> QED
    BY <2>1, <2>2, <2>3
<1>8. \A i \in 1 .. 4 : IsNumber(parts[i]) <=> Len(parts[i]) < 4 /\ \A k \in DOMAIN parts[i] : parts[i][k] < 10
  <2>1. \A i \in 1 .. 4 : DOMAIN parts[i] = 1 .. Len(parts[i])
    BY <1>3, LenProperties
  <2> QED
    BY <2>1 DEF IsNumber
<1>9. op' = "ipaddrconv" /\ arg' = parts
      /\ result' = IF \A i \in 1 .. 4 : IsNumber(parts[i])
                   THEN [i \in 1 .. 4 |-> Value(parts[i], 10) % 256] ELSE <<>>
  BY <1>1, <1>5, <1>6, <1>7
<1>10. (\A i \in 1 .. 4 : IsNumber(parts[i])) <=>
         \A i \in 1 .. 4 : Len(parts[i]) < 4 /\ \A k \in DOMAIN parts[i] : parts[i][k] < 10
  BY <1>8
<1>11. LibcIsRight'
  BY <1>9, <1>10 DEF LibcIsRight
<1>12. MemoryIsRight'
  BY <1>9 DEF MemoryIsRight
<1> QED
  BY <1>11, <1>12 DEF LibcRight

(* The calls keep what has been established, and there is none to begin.  *)
LEMMA LibcRightInit == LibcInit => LibcRight
BY DEF LibcInit, LibcRight, LibcIsRight, MemoryIsRight

(* Every call of the library returns what it should.                       *)
LEMMA LibcRightNext == LibcRight /\ [LibcNext]_libcVars => LibcRight'
<1> SUFFICES ASSUME LibcRight, [LibcNext]_libcVars PROVE LibcRight'
  OBVIOUS
<1>1. CASE UNCHANGED libcVars
  BY <1>1 DEF libcVars, LibcRight, LibcIsRight, MemoryIsRight
<1>2. CASE LibcNext
  BY <1>2, ItoaCalled, StrcmpCalled, PrintCalledRight, MemoryCalled, IpAddrCalled DEF LibcNext
<1> QED
  BY <1>1, <1>2

(* The library computes what its callers take it to.                       *)
THEOREM LibcWorks == LibcSpec => [](LibcIsRight /\ MemoryIsRight)
<1>1. LibcRight => LibcIsRight /\ MemoryIsRight
  BY DEF LibcRight
<1> QED
  BY <1>1, LibcRightInit, LibcRightNext, PTL DEF LibcSpec

-----------------------------------------------------------------------------

(***************************************************************************)
(* The serial line                                                         *)
(***************************************************************************)

(* The row of a number shifted right, digit by digit.                      *)
LEMMA ShiftedIs ==
    ASSUME NEW v \in Nat
    PROVE  /\ Shifted(v) \in [0 .. Nibbles -> Nat] /\ Shifted(v)[0] = v
           /\ \A k \in 1 .. Nibbles : Shifted(v)[k] = Shifted(v)[k - 1] \div 16
<1> PICK n \in Nat : n = Nibbles
  BY UartAssumption
<1> DEFINE g == [i \in 1 .. n |-> [x \in Nat |-> x \div 16]]
           F(f) == [k \in 0 .. n |-> IF k = 0 THEN v ELSE f[k - 1] \div 16]
<1>1. \A x \in Nat : x \div 16 \in Nat
  BY Quotient
<1>2. g \in [1 .. n -> [Nat -> Nat]]
  BY <1>1
<1>3. PICK f : IsLoop(f, n, Nat, v, g)
  <2> HIDE DEF g
  <2> QED
    BY <1>2, LoopRuns
<1>4. f \in [0 .. n -> Nat] /\ f[0] = v /\ \A i \in 1 .. n : f[i] = f[i - 1] \div 16
  <2>1. f \in [0 .. n -> Nat] /\ f[0] = v /\ \A i \in 1 .. n : f[i] = g[i][f[i - 1]]
    BY <1>3 DEF IsLoop
  <2>2. ASSUME NEW i \in 1 .. n PROVE f[i] = f[i - 1] \div 16
    <3>1. f[i - 1] \in Nat
      BY <2>1
    <3>2. g[i][f[i - 1]] = f[i - 1] \div 16
      BY <3>1
    <3> QED
      BY <2>1, <3>2
  <2> QED
    BY <2>1, <2>2
<1>5. f = F(f)
  <2>1. ASSUME NEW i \in 0 .. n PROVE f[i] = F(f)[i]
    <3>1. i = 0 \/ i \in 1 .. n
      OBVIOUS
    <3> QED
      BY <1>4, <3>1
  <2> QED
    BY <1>4, <2>1
<1> DEFINE e == CHOOSE h : h = F(h)
<1>6. e = F(e)
  <2> HIDE DEF F
  <2> QED
    BY <1>5
<1>7. Shifted(v) = e
  BY DEF Shifted
<1> HIDE DEF e
<1>8. e[0] = v /\ \A i \in 1 .. n : e[i] = e[i - 1] \div 16
  <2>1. \A i \in 0 .. n : e[i] = IF i = 0 THEN v ELSE e[i - 1] \div 16
    BY <1>6
  <2>2. 0 \in 0 .. n /\ \A i \in 1 .. n : i \in 0 .. n /\ i # 0
    OBVIOUS
  <2> QED
    BY <2>1, <2>2
<1>9. \A i \in 0 .. n : e[i] = f[i]
  <2> HIDE DEF F, g
  <2>1. OneStep(n, e, f)
    BY <1>4, <1>8 DEF OneStep
  <2> QED
    BY <2>1, SameRow
<1>10. e \in [0 .. n -> Nat]
  <2>1. DOMAIN e = 0 .. n /\ e = [k \in 0 .. n |-> e[k]]
    BY <1>6
  <2> HIDE DEF F
  <2> QED
    BY <1>4, <1>9, <2>1
<1> QED
  BY <1>7, <1>8, <1>10

(* The characters that are printed, and what the sixteen digits are.       *)
Chr == STRING \cup {Digit[d + 1] : d \in 0 .. 15} \cup {"0", "x", "nl", "cr"}
LEMMA DigitIs ==
    /\ \A d \in 0 .. 15 : Digit[d + 1] \in Chr /\ Digit[d + 1] # "nl"
    /\ \A d \in 0 .. 15 : (CHOOSE x \in 0 .. 15 : Digit[x + 1] = Digit[d + 1]) = d
    /\ \A d \in 0 .. 15 : Digit[d + 1] = "0" => d = 0
<1>1. /\ Digit[1] = "0" /\ Digit[2] = "1" /\ Digit[3] = "2" /\ Digit[4] = "3" /\ Digit[5] = "4" /\ Digit[6] = "5"
      /\ Digit[7] = "6" /\ Digit[8] = "7" /\ Digit[9] = "8" /\ Digit[10] = "9" /\ Digit[11] = "a" /\ Digit[12] = "b"
      /\ Digit[13] = "c" /\ Digit[14] = "d" /\ Digit[15] = "e" /\ Digit[16] = "f"
  BY DEF Digit
<1>2. \A d \in 0 .. 15 : d \in {0, 1, 2, 3, 4, 5, 6, 7, 8, 9, 10, 11, 12, 13, 14, 15}
  OBVIOUS
<1>3. \A d \in 0 .. 15 : Digit[d + 1] \in Chr
  BY DEF Chr
<1>4. \A d \in 0 .. 15 : Digit[d + 1] # "nl"
  BY <1>1, <1>2
<1>5. \A x, d \in 0 .. 15 : Digit[x + 1] = Digit[d + 1] => x = d
  BY <1>1, <1>2
<1>6. \A d \in 0 .. 15 : Digit[d + 1] = "0" => d = 0
  BY <1>1, <1>5
<1> QED
  BY <1>4, <1>5, <1>6, <1>3

(* The digits of a number, and the value they have from one on before      *)
(* which there are only zeros.                                             *)
LEMMA HexIs ==
    ASSUME NEW v \in Nat
    PROVE  /\ Hex(v) \in [1 .. Nibbles -> Chr]
           /\ \A i \in 1 .. Nibbles : /\ Hex(v)[i] # "nl"
                                      /\ Shifted(v)[Nibbles - i] % 16 \in 0 .. 15
                                      /\ Hex(v)[i] = Digit[(Shifted(v)[Nibbles - i] % 16) + 1]
<1> PICK n \in Nat : n = Nibbles
  BY UartAssumption
<1>1. ASSUME NEW i \in 1 .. n PROVE Shifted(v)[n - i] % 16 \in 0 .. 15
  <2>1. n - i \in 0 .. n
    OBVIOUS
  <2>2. PICK x \in Nat : x = Shifted(v)[n - i]
    BY <2>1, ShiftedIs
  <2>3. x % 16 \in 0 .. 15
    OBVIOUS
  <2> QED
    BY <2>2, <2>3
<1>2. Hex(v) = [i \in 1 .. n |-> Digit[(Shifted(v)[n - i] % 16) + 1]]
  BY DEF Hex
<1>3. ASSUME NEW i \in 1 .. n
      PROVE  Digit[(Shifted(v)[n - i] % 16) + 1] \in Chr /\ Digit[(Shifted(v)[n - i] % 16) + 1] # "nl"
  <2>1. PICK d \in 0 .. 15 : d = Shifted(v)[n - i] % 16
    BY <1>1
  <2>2. Digit[d + 1] \in Chr /\ Digit[d + 1] # "nl"
    BY DigitIs
  <2> QED
    BY <2>1, <2>2
<1> QED
  BY <1>1, <1>2, <1>3

(* The digits behind leading zeros have the value of the number.           *)
LEMMA HexFrom ==
    ASSUME NEW v \in Nat, NEW m \in 0 .. Nibbles - 1, Shifted(v)[Nibbles - m] = 0
    PROVE  ValueOf(SubSeq(Hex(v), m + 1, Nibbles)) = v
<1> PICK n \in Nat : n = Nibbles
  BY UartAssumption
<1>0. /\ Shifted(v) \in [0 .. n -> Nat] /\ Shifted(v)[0] = v
      /\ \A k \in 1 .. n : Shifted(v)[k] = Shifted(v)[k - 1] \div 16
  BY ShiftedIs
<1>1. PICK u : u = Shifted(v) /\ u \in [0 .. n -> Nat] /\ u[0] = v /\ \A k \in 1 .. n : u[k] = u[k - 1] \div 16
  BY <1>0
<1>2. PICK l \in Nat : l = n - m
  OBVIOUS
<1> DEFINE s == SubSeq(Hex(v), m + 1, n)
<1>3. Len(s) = l /\ \A i \in 1 .. l : s[i] = Hex(v)[m + i]
  <2>1. \A i \in m + 1 .. n : Hex(v)[i] \in Chr
    <3>1. Hex(v) \in [1 .. n -> Chr]
      BY HexIs, Zenon
    <3>2. \A i \in m + 1 .. n : i \in 1 .. n
      OBVIOUS
    <3> QED
      BY <3>1, <3>2
  <2>2. /\ Len(s) = IF m + 1 <= n THEN n - (m + 1) + 1 ELSE 0
        /\ \A i \in 1 .. n - (m + 1) + 1 : s[i] = Hex(v)[(m + 1) + i - 1]
    BY <2>1, SubSeqProperties
  <2>3. m + 1 <= n /\ n - (m + 1) + 1 = l /\ \A i \in 1 .. l : (m + 1) + i - 1 = m + i
    BY <1>2
  <2> HIDE DEF s
  <2> QED
    BY <2>2, <2>3
<1> HIDE DEF s
<1> DEFINE val(c) == CHOOSE d \in 0 .. 15 : Digit[d + 1] = c
           f == [i \in 0 .. l |-> u[l - i]]
           F(h) == [i \in 0 .. l |-> IF i = 0 THEN 0 ELSE h[i - 1] * 16 + val(s[i])]
           e == CHOOSE h : h = F(h)
<1>4. ASSUME NEW i \in 1 .. l PROVE f[i] = f[i - 1] * 16 + val(s[i])
  <2>1. PICK j \in Nat : j = l - i
    OBVIOUS
  <2>2. j + 1 \in 1 .. n /\ (j + 1) - 1 = j /\ l - (i - 1) = j + 1 /\ n - (m + i) = j /\ m + i \in 1 .. n
    BY <1>2, <2>1
  <2>3. PICK x \in Nat : x = u[j]
    BY <1>1, <2>2
  <2>4. u[j + 1] = x \div 16
    BY <1>1, <2>2, <2>3
  <2>5. x = 16 * (x \div 16) + (x % 16) /\ x \div 16 \in Nat /\ x % 16 \in 0 .. 15
    BY Quotient
  <2>6. s[i] = Digit[(x % 16) + 1]
    <3>1. Hex(v)[m + i] = Digit[(Shifted(v)[n - (m + i)] % 16) + 1]
      BY <2>2, HexIs
    <3>2. Shifted(v)[n - (m + i)] = x
      BY <1>1, <2>2, <2>3
    <3> QED
      BY <1>3, <3>1, <3>2
  <2>7. val(s[i]) = x % 16
    BY <2>5, <2>6, DigitIs
  <2>8. f[i] = x /\ f[i - 1] = x \div 16
    BY <2>1, <2>2, <2>3, <2>4
  <2> HIDE DEF f, val
  <2> QED
    BY <2>5, <2>7, <2>8
<1>5. f[0] = 0
  BY <1>1, <1>2
<1>6. f = F(f)
  <2>1. ASSUME NEW k \in 0 .. l PROVE f[k] = F(f)[k]
    <3>1. k = 0 \/ k \in 1 .. l
      OBVIOUS
    <3> HIDE DEF f, val
    <3> QED
      BY <1>4, <1>5, <3>1
  <2>2. DOMAIN f = 0 .. l /\ f = [k \in 0 .. l |-> f[k]]
    OBVIOUS
  <2> HIDE DEF f, val
  <2> QED
    BY <2>1, <2>2
<1>7. e = F(e)
  <2> HIDE DEF F
  <2> QED
    BY <1>6
<1>8. ValueOf(s) = e[l]
  BY <1>3 DEF ValueOf
<1> HIDE DEF e
<1>9. e[0] = 0 /\ \A k \in 1 .. l : e[k] = e[k - 1] * 16 + val(s[k])
  <2> HIDE DEF val
  <2>1. \A k \in 0 .. l : e[k] = IF k = 0 THEN 0 ELSE e[k - 1] * 16 + val(s[k])
    BY <1>7
  <2>2. 0 \in 0 .. l /\ \A k \in 1 .. l : k \in 0 .. l /\ k # 0
    OBVIOUS
  <2> QED
    BY <2>1, <2>2
<1>10. e[l] = f[l]
  <2> HIDE DEF f, F, val
  <2>1. OneStep(l, e, f)
    BY <1>4, <1>5, <1>9 DEF OneStep
  <2>2. \A k \in 0 .. l : e[k] = f[k]
    BY <2>1, SameRow
  <2> QED
    BY <2>2
<1>11. f[l] = v
  BY <1>1, <1>2
<1> QED
  BY <1>8, <1>10, <1>11 DEF s

(* What the line sees of a text, character by character.                   *)
OnWire(c) == IF c = "nl" THEN <<"nl", "cr">> ELSE <<c>>
LEMMA WiredIs ==
    ASSUME NEW T \in Seq(Chr)
    PROVE  /\ Wired(T) \in [0 .. Len(T) -> Seq(Chr)] /\ Wired(T)[0] = <<>>
           /\ \A i \in 1 .. Len(T) : Wired(T)[i] = Wired(T)[i - 1] \o OnWire(T[i])
<1>1. PICK n \in Nat : n = Len(T)
  BY LenProperties
<1>2. \A i \in 1 .. n : T[i] \in Chr
  BY <1>1, ElementOfSeq
<1> DEFINE pieces == [i \in 1 .. n |-> OnWire(T[i])]
           F(f) == [i \in 0 .. n |-> IF i = 0 THEN <<>> ELSE f[i - 1] \o (IF T[i] = "nl" THEN <<"nl", "cr">> ELSE <<T[i]>>)]
<1>3. pieces \in [1 .. n -> Seq(Chr)]
  <2>1. "nl" \in Chr /\ "cr" \in Chr
    BY DEF Chr
  <2>2. \A c \in Chr : OnWire(c) \in Seq(Chr)
    BY <2>1 DEF OnWire
  <2> QED
    BY <1>2, <2>2
<1>4. PICK f : Row(f, n, pieces, Chr)
  <2> HIDE DEF pieces
  <2> QED
    BY <1>3, JoinedRuns
<1>5. f \in [0 .. n -> Seq(Chr)] /\ f[0] = <<>> /\ \A i \in 1 .. n : f[i] = f[i - 1] \o OnWire(T[i])
  BY <1>4 DEF Row
<1>6. f = F(f)
  <2>1. ASSUME NEW i \in 0 .. n PROVE f[i] = F(f)[i]
    <3>1. i = 0 \/ i \in 1 .. n
      OBVIOUS
    <3> QED
      BY <1>5, <3>1 DEF OnWire
  <2> QED
    BY <1>5, <2>1
<1> DEFINE e == CHOOSE h : h = F(h)
<1>7. e = F(e)
  <2> HIDE DEF F
  <2> QED
    BY <1>6
<1>8. Wired(T) = e
  BY <1>1 DEF Wired
<1> HIDE DEF e
<1>9. e[0] = <<>> /\ \A i \in 1 .. n : e[i] = e[i - 1] \o OnWire(T[i])
  <2>1. \A i \in 0 .. n : e[i] = IF i = 0 THEN <<>> ELSE e[i - 1] \o OnWire(T[i])
    BY <1>7 DEF OnWire
  <2>2. 0 \in 0 .. n /\ \A i \in 1 .. n : i \in 0 .. n /\ i # 0
    OBVIOUS
  <2> QED
    BY <2>1, <2>2
<1>10. \A i \in 0 .. n : e[i] = f[i]
  <2> HIDE DEF F, pieces
  <2>1. OneStep(n, e, f)
    BY <1>5, <1>9 DEF OneStep
  <2> QED
    BY <2>1, SameRow
<1>11. e \in [0 .. n -> Seq(Chr)]
  <2>1. DOMAIN e = 0 .. n /\ e = [k \in 0 .. n |-> e[k]]
    BY <1>7
  <2> HIDE DEF F
  <2> QED
    BY <1>5, <1>10, <2>1
<1> QED
  BY <1>1, <1>8, <1>9, <1>11

(* A text without line ends looks the same on the line.                    *)
LEMMA WirePlain ==
    ASSUME NEW T \in Seq(Chr), \A i \in 1 .. Len(T) : T[i] # "nl"
    PROVE  Wire(T) = T
<1>0. PICK n \in Nat : n = Len(T)
  BY LenProperties
<1>1. \A i \in 1 .. n : T[i] \in Chr
  BY <1>0, ElementOfSeq
<1>2. /\ Wired(T) \in [0 .. n -> Seq(Chr)] /\ Wired(T)[0] = <<>>
      /\ \A i \in 1 .. n : Wired(T)[i] = Wired(T)[i - 1] \o OnWire(T[i])
  BY <1>0, WiredIs
<1>3. PICK w : w = Wired(T) /\ w \in [0 .. n -> Seq(Chr)] /\ w[0] = <<>>
               /\ \A i \in 1 .. n : w[i] = w[i - 1] \o OnWire(T[i])
  BY <1>2
<1> DEFINE P == {i \in 0 .. n : Len(w[i]) = i /\ \A j \in 1 .. i : w[i][j] = T[j]}
<1>4. 0 \in P
  BY <1>3
<1>5. ASSUME NEW i \in 1 .. n, i - 1 \in P PROVE i \in P
  <2>1. PICK c \in Chr : c = T[i]
    BY <1>1
  <2>2. OnWire(T[i]) = <<c>>
    BY <1>0, <2>1 DEF OnWire
  <2>3. i - 1 \in 0 .. n
    OBVIOUS
  <2>4. PICK x \in Seq(Chr) : x = w[i - 1]
    BY <1>3, <2>3
  <2>5. Len(x) = i - 1 /\ \A j \in 1 .. i - 1 : x[j] = T[j]
    BY <1>5, <2>4
  <2>6. w[i] = Append(x, c)
    <3>1. w[i] = x \o <<c>>
      BY <1>3, <2>2, <2>4
    <3>2. x \o <<c>> = Append(x, c)
      BY AppendIsConcat, Zenon
    <3> QED
      BY <3>1, <3>2
  <2>7. /\ Len(Append(x, c)) = Len(x) + 1 /\ \A j \in 1 .. Len(x) : Append(x, c)[j] = x[j]
        /\ Append(x, c)[Len(x) + 1] = c
    BY AppendProperties
  <2>8. Len(w[i]) = i /\ w[i][i] = T[i] /\ \A j \in 1 .. i - 1 : w[i][j] = T[j]
    BY <2>1, <2>5, <2>6, <2>7
  <2>9. \A j \in 1 .. i : j \in 1 .. i - 1 \/ j = i
    OBVIOUS
  <2> QED
    BY <2>8, <2>9
<1> HIDE DEF P
<1>6. \A i \in 0 .. n : i \in P
  BY <1>4, <1>5, StepByStep
<1>7. n \in P /\ n \in 0 .. n
  BY <1>6
<1>8. PICK y \in Seq(Chr) : y = w[n]
  BY <1>3, <1>7
<1>9. Len(y) = n /\ \A j \in 1 .. n : y[j] = T[j]
  BY <1>7, <1>8 DEF P
<1>10. y = T
  BY <1>0, <1>9, SeqEqual
<1> QED
  BY <1>0, <1>3, <1>8, <1>10 DEF Wire

(* What is behind the "0x" of a number.                                    *)
LEMMA PastTwo ==
    ASSUME NEW T \in Seq(Chr), NEW h \in Seq(Chr), Len(T) = Len(h) + 2, \A i \in 1 .. Len(h) : T[2 + i] = h[i]
    PROVE  SubSeq(T, 3, Len(T)) = h
<1>1. PICK n \in Nat, a \in Int, k \in Int : n = Len(h) /\ a = 3 /\ k = Len(T)
  BY LenProperties
<1>2. \A i \in a .. k : T[i] \in Chr
  <2>1. \A i \in a .. k : i \in 1 .. Len(T)
    BY <1>1
  <2> QED
    BY <2>1, ElementOfSeq
<1>3. /\ SubSeq(T, a, k) \in Seq(Chr) /\ Len(SubSeq(T, a, k)) = IF a <= k THEN k - a + 1 ELSE 0
      /\ \A i \in 1 .. k - a + 1 : SubSeq(T, a, k)[i] = T[a + i - 1]
  BY <1>2, SubSeqProperties
<1>4. k - a + 1 = n /\ (a <= k <=> n # 0) /\ \A i \in 1 .. n : a + i - 1 = 2 + i
  BY <1>1
<1>5. PICK y \in Seq(Chr) : y = SubSeq(T, a, k)
  BY <1>3
<1>6. Len(y) = n /\ \A i \in 1 .. n : y[i] = h[i]
  BY <1>1, <1>3, <1>4, <1>5
<1>7. y = h
  BY <1>1, <1>6, SeqEqual
<1> QED
  BY <1>1, <1>5, <1>7

(* A number is printed after 0x, and arrives as it is.                     *)
LEMMA Prefixed ==
    ASSUME NEW h \in Seq(Chr), \A i \in 1 .. Len(h) : h[i] # "nl", NEW T, T = <<"0", "x">> \o h
    PROVE  /\ T \in Seq(Chr) /\ Len(T) = Len(h) + 2 /\ Wire(T) = T
           /\ SubSeq(T, 1, 2) = <<"0", "x">> /\ SubSeq(T, 3, Len(T)) = h /\ (h # <<>> => T[3] = h[1])
<1>1. PICK n \in Nat : n = Len(h)
  BY LenProperties
<1>2. PICK z \in Seq(Chr) : z = <<"0", "x">>
  <2>1. "0" \in Chr /\ "x" \in Chr
    BY DEF Chr
  <2>2. <<"0", "x">> \in Seq(Chr)
    BY <2>1
  <2> QED
    BY <2>2
<1>3. Len(z) = 2 /\ z[1] = "0" /\ z[2] = "x"
  BY <1>2
<1>4. /\ T \in Seq(Chr) /\ Len(T) = 2 + n
      /\ \A i \in 1 .. 2 + n : T[i] = IF i <= 2 THEN z[i] ELSE h[i - 2]
  BY <1>1, <1>2, <1>3, ConcatProperties
<1>5. T[1] = "0" /\ T[2] = "x"
  BY <1>3, <1>4
<1>6. ASSUME NEW i \in 1 .. n PROVE T[2 + i] = h[i] /\ 2 + i = 3 + i - 1
  <2>1. 2 + i \in 1 .. 2 + n /\ ~(2 + i <= 2) /\ (2 + i) - 2 = i
    OBVIOUS
  <2> QED
    BY <1>4, <2>1
<1>7. \A i \in 1 .. Len(T) : T[i] # "nl"
  <2>1. \A i \in 1 .. 2 + n : i = 1 \/ i = 2 \/ (i - 2 \in 1 .. n /\ ~(i <= 2))
    OBVIOUS
  <2> QED
    BY <1>1, <1>4, <1>5, <2>1
<1>8. \A i \in 1 .. 2 + n : T[i] \in Chr
  BY <1>4, ElementOfSeq
<1>9. SubSeq(T, 1, 2) = <<"0", "x">>
  <2>1. \A i \in 1 .. 2 : T[i] \in Chr
    BY <1>8
  <2>2. /\ SubSeq(T, 1, 2) \in Seq(Chr) /\ Len(SubSeq(T, 1, 2)) = 2
        /\ \A i \in 1 .. 2 - 1 + 1 : SubSeq(T, 1, 2)[i] = T[1 + i - 1]
    BY <2>1, SubSeqProperties
  <2>3. \A i \in 1 .. 2 : SubSeq(T, 1, 2)[i] = z[i]
    <3>1. \A i \in 1 .. 2 : i = 1 \/ i = 2
      OBVIOUS
    <3> QED
      BY <1>3, <1>5, <2>2, <3>1
  <2>4. SubSeq(T, 1, 2) = z
    BY <1>3, <2>2, <2>3, SeqEqual
  <2> QED
    BY <1>2, <2>4
<1>10. SubSeq(T, 3, Len(T)) = h
  <2>1. Len(T) = Len(h) + 2 /\ \A i \in 1 .. Len(h) : T[2 + i] = h[i]
    BY <1>1, <1>4, <1>6
  <2> QED
    BY <1>4, <2>1, PastTwo
<1>11. h # <<>> => T[3] = h[1]
  <2>1. h # <<>> => 1 \in 1 .. n
    BY <1>1, EmptySeq
  <2> QED
    BY <1>6, <2>1
<1>12. Wire(T) = T
  BY <1>4, <1>7, WirePlain
<1> QED
  BY <1>1, <1>4, <1>9, <1>10, <1>11, <1>12

(* The last digits of a number, when those before are zeros.               *)
Ends(v, m, h) == Shifted(v)[Nibbles - m] = 0 /\ h = SubSeq(Hex(v), m + 1, Nibbles)
EndIs(v, m, h) == /\ h \in Seq(Chr) /\ Len(h) = Nibbles - m /\ h # <<>> /\ h[1] = Hex(v)[m + 1]
                  /\ (\A i \in 1 .. Len(h) : h[i] # "nl") /\ ValueOf(h) = v
LEMMA HexEnd ==
    ASSUME NEW v \in Nat, NEW m \in 0 .. Nibbles - 1, NEW h, Ends(v, m, h)
    PROVE  EndIs(v, m, h)
<1> PICK n \in Nat : n = Nibbles /\ n # 0
  BY UartAssumption
<1>0. Shifted(v)[n - m] = 0 /\ h = SubSeq(Hex(v), m + 1, n)
  BY DEF Ends
<1>1. Hex(v) \in [1 .. n -> Chr] /\ \A i \in 1 .. n : Hex(v)[i] # "nl"
  BY HexIs
<1>2. PICK k \in Int : k = m + 1
  OBVIOUS
<1>3. \A i \in k .. n : Hex(v)[i] \in Chr
  <2>1. \A i \in k .. n : i \in 1 .. n
    BY <1>2
  <2> QED
    BY <1>1, <2>1
<1>4. /\ SubSeq(Hex(v), k, n) \in Seq(Chr)
      /\ Len(SubSeq(Hex(v), k, n)) = IF k <= n THEN n - k + 1 ELSE 0
      /\ \A i \in 1 .. n - k + 1 : SubSeq(Hex(v), k, n)[i] = Hex(v)[k + i - 1]
  BY <1>3, SubSeqProperties
<1>5. /\ h \in Seq(Chr) /\ Len(h) = n - m /\ \A i \in 1 .. n - m : h[i] = Hex(v)[m + i]
  <2>1. k <= n /\ n - k + 1 = n - m /\ \A i \in 1 .. n - m : k + i - 1 = m + i
    BY <1>2
  <2> QED
    BY <1>0, <1>2, <1>4, <2>1
<1>6. h # <<>> /\ h[1] = Hex(v)[m + 1]
  <2>1. n - m > 0 /\ 1 \in 1 .. n - m
    OBVIOUS
  <2> QED
    BY <1>5, <2>1, EmptySeq
<1>7. \A i \in 1 .. Len(h) : h[i] # "nl"
  <2>1. \A i \in 1 .. n - m : m + i \in 1 .. n
    OBVIOUS
  <2> QED
    BY <1>1, <1>5, <2>1
<1>8. ValueOf(h) = v
  BY <1>0, HexFrom
<1> QED
  BY <1>5, <1>6, <1>7, <1>8 DEF EndIs

(* What is printed reads as it was meant, once the line has seen it.       *)
LEMMA TextArrives ==
    ASSUME NEW p \in Prints
    PROVE  Text(p) \in Seq(Chr) /\ Right(p, Wire(Text(p)))
<1> PICK n \in Nat : n = Nibbles /\ n # 0
  BY UartAssumption
<1>1. \/ p.how = "str" /\ p.value \in Seq(STRING)
      \/ p.how \in {"long", "short"} /\ p.value \in Nat /\ Shifted(p.value)[n] = 0
  BY UartAssumption
<1>2. CASE p.how = "str" /\ p.value \in Seq(STRING)
  <2>1. Text(p) = p.value
    BY <1>2 DEF Text
  <2>2. STRING \subseteq Chr
    BY DEF Chr
  <2>3. p.value \in Seq(Chr)
    BY <1>2, <2>2, SeqMonotonic
  <2> QED
    BY <1>2, <2>1, <2>3 DEF Right
<1>3. CASE p.how \in {"long", "short"} /\ p.value \in Nat /\ Shifted(p.value)[n] = 0
  <2>1. PICK v \in Nat : v = p.value
    BY <1>3
  <2>2. Hex(v) \in [1 .. n -> Chr]
    BY HexIs
  <2>4. PICK T : T = Text(p)
    OBVIOUS
  <2>5. CASE p.how = "long"
    <3>1. PICK h : h = SubSeq(Hex(v), 0 + 1, n)
      OBVIOUS
    <3>2. /\ h \in Seq(Chr) /\ Len(h) = n /\ h # <<>> /\ (\A i \in 1 .. Len(h) : h[i] # "nl") /\ ValueOf(h) = v
      <4>1. 0 \in 0 .. n - 1 /\ Shifted(v)[n - 0] = 0 /\ n - 0 = n
        BY <1>3, <2>1
      <4>2. Ends(v, 0, h)
        BY <3>1, <4>1 DEF Ends
      <4> QED
        BY <4>1, <4>2, HexEnd DEF EndIs
    <3>3. h = Hex(v)
      <4>1. Hex(v) \in Seq(Chr) /\ Len(Hex(v)) = n
        <5>1. Hex(v) \in Seq(Chr) /\ DOMAIN Hex(v) = 1 .. n
          BY <2>2
        <5> QED
          BY <5>1, LenProperties
      <4>2. SubSeq(Hex(v), 1, n) = Hex(v)
        BY <4>1, SubSeqFull
      <4> QED
        BY <3>1, <4>2
    <3>4. T = <<"0", "x">> \o h
      BY <2>1, <2>4, <2>5, <3>3 DEF Text, PrintLong
    <3>5. /\ T \in Seq(Chr) /\ Len(T) = Len(h) + 2 /\ Wire(T) = T
          /\ SubSeq(T, 1, 2) = <<"0", "x">> /\ SubSeq(T, 3, Len(T)) = h
      BY <3>2, <3>4, Prefixed
    <3> QED
      BY <2>1, <2>4, <2>5, <3>2, <3>5 DEF Right
  <2>6. CASE p.how = "short"
    <3> DEFINE shown == {i \in 1 .. n : i = n \/ \E j \in 1 .. i : Hex(v)[j] # "0"}
               first == CHOOSE i \in shown : \A j \in shown : i <= j
    <3>1. first \in shown /\ \A j \in shown : first <= j
      <4>1. n \in shown /\ shown \in SUBSET Nat
        OBVIOUS
      <4> HIDE DEF shown
      <4>2. \E i \in shown : \A j \in shown : i <= j
        BY <4>1, SmallestIn
      <4> QED
        BY <4>2
    <3>2. T = <<"0", "x">> \o SubSeq(Hex(v), first, n)
      BY <2>1, <2>4, <2>6 DEF Text, PrintShort
    <3> HIDE DEF first
    <3>3. PICK m \in 0 .. n - 1 : first = m + 1
      <4>1. first - 1 \in 0 .. n - 1 /\ first = (first - 1) + 1
        BY <3>1
      <4> QED
        BY <4>1
    <3>4. \A j \in 1 .. m : Hex(v)[j] = "0"
      <4>1. ASSUME NEW j \in 1 .. m PROVE Hex(v)[j] = "0"
        <5>1. j \in 1 .. n /\ j \in 1 .. j /\ ~(first <= j)
          BY <3>3
        <5>2. j \notin shown
          BY <3>1, <5>1
        <5> QED
          BY <5>1, <5>2
      <4> QED
        BY <4>1
    <3>5. Shifted(v)[n - m] = 0
      <4> DEFINE P == {i \in 0 .. m : Shifted(v)[n - i] = 0}
      <4>1. 0 \in P
        BY <1>3, <2>1
      <4>2. ASSUME NEW i \in 1 .. m, i - 1 \in P PROVE i \in P
        <5>1. PICK j \in Nat : j = n - i
          OBVIOUS
        <5>2. j + 1 \in 1 .. n /\ (j + 1) - 1 = j /\ n - (i - 1) = j + 1 /\ i \in 1 .. n /\ j \in 0 .. n
          BY <5>1
        <5>3. PICK x \in Nat : x = Shifted(v)[j]
          BY <5>2, ShiftedIs
        <5>4. x \div 16 = 0
          <6>1. Shifted(v)[j + 1] = Shifted(v)[(j + 1) - 1] \div 16
            BY <5>2, ShiftedIs
          <6>2. Shifted(v)[n - (i - 1)] = 0
            BY <4>2
          <6> QED
            BY <5>2, <5>3, <6>1, <6>2
        <5>5. x = 16 * (x \div 16) + (x % 16) /\ x % 16 \in 0 .. 15
          BY Quotient
        <5>6. Hex(v)[i] = Digit[(x % 16) + 1]
          BY <5>1, <5>2, <5>3, HexIs
        <5>7. x % 16 = 0
          BY <3>4, <5>5, <5>6, DigitIs
        <5>8. x = 0
          BY <5>4, <5>5, <5>7
        <5>9. Shifted(v)[n - i] = 0
          BY <5>1, <5>3, <5>8
        <5>10. i \in 0 .. m
          OBVIOUS
        <5> QED
          BY <5>9, <5>10
      <4> HIDE DEF P
      <4>3. \A i \in 0 .. m : i \in P
        BY <4>1, <4>2, StepByStep
      <4>4. m \in P
        BY <4>3
      <4> QED
        BY <4>4 DEF P
    <3>6. PICK h : h = SubSeq(Hex(v), m + 1, n)
      OBVIOUS
    <3>7. /\ h \in Seq(Chr) /\ Len(h) = n - m /\ h # <<>> /\ h[1] = Hex(v)[m + 1]
          /\ (\A i \in 1 .. Len(h) : h[i] # "nl") /\ ValueOf(h) = v
      <4>1. Ends(v, m, h)
        BY <3>5, <3>6 DEF Ends
      <4> QED
        BY <4>1, HexEnd DEF EndIs
    <3>8. /\ T \in Seq(Chr) /\ Len(T) = Len(h) + 2 /\ Wire(T) = T
          /\ SubSeq(T, 1, 2) = <<"0", "x">> /\ SubSeq(T, 3, Len(T)) = h /\ T[3] = h[1]
      BY <3>2, <3>3, <3>6, <3>7, Prefixed
    <3>9. Len(T) = 3 \/ T[3] # "0"
      <4>1. CASE first = n
        BY <3>3, <3>7, <3>8, <4>1
      <4>2. CASE first # n
        <5>1. PICK j \in 1 .. first : Hex(v)[j] # "0"
          BY <3>1, <4>2
        <5>2. j = first
          BY <3>3, <3>4, <5>1
        <5> QED
          BY <3>3, <3>7, <3>8, <5>1, <5>2
      <4> QED
        BY <4>1, <4>2
    <3> QED
      BY <2>1, <2>4, <2>6, <3>7, <3>8, <3>9 DEF Right
  <2> QED
    BY <1>3, <2>5, <2>6
<1> QED
  BY <1>1, <1>2, <1>3

(* What a writer's text looks like on its way: rest is T without its first *)
(* k characters; seen, shift register and FIFO together hold those k on    *)
(* the wire, and what uart_putc has written of the next.                   *)
Unsent(T, k, r) == k \in 0 .. Len(T) /\ Len(r) = Len(T) - k /\ \A i \in 1 .. Len(r) : r[i] = T[k + i]
Stage(T, k, st, total, sh, fi) ==
    \/ /\ st \in {"out", "tx"} /\ (st = "tx" => k < Len(T))
       /\ total = Wired(T)[k] /\ sh = <<>> /\ fi = <<>>
    \/ /\ st \in {"nl", "cr"} /\ k < Len(T) /\ T[k + 1] = "nl"
       /\ total = Wired(T)[k] \o <<"nl">> /\ (st = "cr" => fi = <<>>)
    \/ st = "sent" /\ k < Len(T) /\ total = Wired(T)[k + 1]
Underway(p, r, st, sn, sh, fi) ==
    \E k \in Nat : Unsent(Text(p), k, r) /\ Stage(Text(p), k, st, (sn \o sh) \o fi, sh, fi)
Calm(r, st, sn, sh, fi) == r = <<>> /\ st = "out" /\ sn = <<>> /\ sh = <<>> /\ fi = <<>>
Writes(pr, r, st, sn, sh, fi) ==
    /\ r \in Seq(Chr) /\ sn \in Seq(Chr) /\ sh \in Seq(Chr) /\ fi \in Seq(Chr)
    /\ IF pr = <<>> THEN Calm(r, st, sn, sh, fi)
       ELSE \E p \in Prints : pr = <<p>> /\ Underway(p, r, st, sn, sh, fi)

(* Nothing added changes nothing.                                          *)
LEMMA Plain ==
    ASSUME NEW x \in Seq(Chr)
    PROVE  x \o <<>> = x /\ <<>> \o x = x
BY ConcatEmptySeq

(* The line sees one character more, or a line end as two.                 *)
LEMMA WiredNext ==
    ASSUME NEW T \in Seq(Chr), NEW k \in Nat, k < Len(T)
    PROVE  /\ Wired(T)[k] \in Seq(Chr) /\ T[k + 1] \in Chr
           /\ Wired(T)[k + 1] = Wired(T)[k] \o OnWire(T[k + 1])
<1>1. PICK n \in Nat : n = Len(T)
  BY LenProperties
<1>2. k \in 0 .. n /\ k + 1 \in 1 .. n /\ (k + 1) - 1 = k
  BY <1>1
<1>3. /\ Wired(T) \in [0 .. n -> Seq(Chr)]
      /\ \A i \in 1 .. n : Wired(T)[i] = Wired(T)[i - 1] \o OnWire(T[i])
  BY <1>1, WiredIs
<1>4. T[k + 1] \in Chr
  BY <1>1, <1>2, ElementOfSeq
<1> QED
  BY <1>2, <1>3, <1>4

(* uart_print_...: the text is there, nothing of it is on its way.         *)
LEMMA WritesPrint ==
    ASSUME NEW r, NEW st, NEW sn, NEW sh, NEW fi, Writes(<<>>, r, st, sn, sh, fi), NEW p \in Prints
    PROVE  Writes(<<p>>, Text(p), st, sn, sh, fi)
<1>1. sn = <<>> /\ sh = <<>> /\ fi = <<>> /\ st = "out"
  BY DEF Writes, Calm
<1>2. PICK T \in Seq(Chr) : T = Text(p)
  BY TextArrives
<1>3. <<>> \in Seq(Chr) /\ <<>> \o <<>> = <<>>
  <2>1. <<>> \in Seq(Chr)
    BY EmptySeq
  <2> QED
    BY <2>1, Plain
<1>4. Unsent(T, 0, T)
  BY LenProperties DEF Unsent
<1>5. Stage(T, 0, st, (sn \o sh) \o fi, sh, fi)
  <2>1. Wired(T)[0] = <<>>
    BY WiredIs
  <2>2. (sn \o sh) \o fi = <<>>
    BY <1>1, <1>3
  <2> QED
    BY <1>1, <2>1, <2>2 DEF Stage
<1>6. Underway(p, T, st, sn, sh, fi)
  <2>1. 0 \in Nat
    OBVIOUS
  <2> QED
    BY <1>2, <1>4, <1>5, <2>1 DEF Underway
<1>7. <<p>> # <<>>
  OBVIOUS
<1> QED
  BY <1>1, <1>2, <1>3, <1>6, <1>7 DEF Writes

(* What is still to print has a first character.                           *)
LEMMA UnsentNext ==
    ASSUME NEW T \in Seq(Chr), NEW k \in Nat, NEW r \in Seq(Chr), Unsent(T, k, r)
    PROVE  /\ r # <<>> <=> k < Len(T)
           /\ k < Len(T) => Head(r) = T[k + 1] /\ Unsent(T, k + 1, Tail(r)) /\ Tail(r) \in Seq(Chr)
<1>1. PICK n \in Nat, m \in Nat : n = Len(T) /\ m = Len(r)
  BY LenProperties
<1>2. k \in 0 .. n /\ m = n - k /\ \A i \in 1 .. m : r[i] = T[k + i]
  BY <1>1 DEF Unsent
<1>3. r # <<>> <=> m # 0
  BY <1>1, EmptySeq
<1>4. r # <<>> <=> k < Len(T)
  BY <1>1, <1>2, <1>3
<1>5. ASSUME k < n PROVE Head(r) = T[k + 1] /\ Unsent(T, k + 1, Tail(r)) /\ Tail(r) \in Seq(Chr)
  <2>1. r # <<>>
    BY <1>1, <1>4, <1>5
  <2>2. Tail(r) \in Seq(Chr) /\ Len(Tail(r)) = m - 1 /\ \A i \in 1 .. m - 1 : Tail(r)[i] = r[i + 1]
    BY <1>1, <2>1, HeadTailProperties
  <2>3. Head(r) = T[k + 1]
    <3>1. 1 \in 1 .. m
      BY <1>2, <1>5
    <3>2. Head(r) = r[1]
      BY <2>1
    <3> QED
      BY <1>2, <3>1, <3>2
  <2>4. k + 1 \in 0 .. n /\ m - 1 = n - (k + 1)
    BY <1>2, <1>5
  <2>5. ASSUME NEW i \in 1 .. m - 1 PROVE Tail(r)[i] = T[(k + 1) + i]
    <3>1. i + 1 \in 1 .. m /\ k + (i + 1) = (k + 1) + i
      OBVIOUS
    <3> QED
      BY <1>2, <2>2, <3>1
  <2>6. Unsent(T, k + 1, Tail(r))
    BY <1>1, <2>2, <2>4, <2>5 DEF Unsent
  <2> QED
    BY <2>2, <2>3, <2>6
<1> QED
  BY <1>1, <1>4, <1>5

(* A writer that is printing: where it is.                                 *)
LEMMA WritesAt ==
    ASSUME NEW pr, NEW r, NEW st, NEW sn, NEW sh, NEW fi, Writes(pr, r, st, sn, sh, fi), r # <<>> \/ st # "out"
    PROVE  \E p \in Prints, T \in Seq(Chr), k \in Nat :
              /\ pr = <<p>> /\ T = Text(p) /\ Unsent(T, k, r)
              /\ Stage(T, k, st, (sn \o sh) \o fi, sh, fi)
<1>1. pr # <<>>
  BY DEF Writes, Calm
<1>2. PICK p \in Prints : pr = <<p>> /\ Underway(p, r, st, sn, sh, fi)
  BY <1>1 DEF Writes
<1>3. PICK k \in Nat : Unsent(Text(p), k, r) /\ Stage(Text(p), k, st, (sn \o sh) \o fi, sh, fi)
  BY <1>2 DEF Underway
<1>4. Text(p) \in Seq(Chr)
  BY TextArrives
<1> QED
  BY <1>2, <1>3, <1>4

(* A text on its way is one that a writer writes.                          *)
LEMMA WritesWhen ==
    ASSUME NEW p \in Prints, NEW r \in Seq(Chr), NEW st, NEW sn \in Seq(Chr), NEW sh \in Seq(Chr), NEW fi \in Seq(Chr),
           Underway(p, r, st, sn, sh, fi)
    PROVE  Writes(<<p>>, r, st, sn, sh, fi)
<1>1. <<p>> # <<>>
  OBVIOUS
<1> QED
  BY <1>1 DEF Writes

(* One lemma for each step of uart_putc and of the device.                 *)
Gone(s) == s = <<>>
LEMMA WritesThre ==
    ASSUME NEW pr, NEW r, NEW sn, NEW sh, NEW fi, Writes(pr, r, "out", sn, sh, fi), r # <<>>
    PROVE  Writes(pr, r, "tx", sn, sh, fi)
<1>1. r \in Seq(Chr) /\ sn \in Seq(Chr) /\ sh \in Seq(Chr) /\ fi \in Seq(Chr)
  BY DEF Writes
<1>2. PICK p \in Prints, T \in Seq(Chr), k \in Nat :
        pr = <<p>> /\ T = Text(p) /\ Unsent(T, k, r) /\ Stage(T, k, "out", (sn \o sh) \o fi, sh, fi)
  BY WritesAt
<1>3. k < Len(T)
  BY <1>1, <1>2, UnsentNext
<1>4. Stage(T, k, "tx", (sn \o sh) \o fi, sh, fi)
  BY <1>2, <1>3 DEF Stage
<1>5. Underway(p, r, "tx", sn, sh, fi)
  BY <1>2, <1>4 DEF Underway
<1> QED
  BY <1>1, <1>2, <1>5, WritesWhen

(* uart_putc writes a character to the transmitter.                        *)
LEMMA WritesTx ==
    ASSUME NEW pr, NEW r, NEW sn, NEW sh, NEW fi, Writes(pr, r, "tx", sn, sh, fi)
    PROVE  /\ fi = <<>> /\ Head(r) \in Chr
           /\ Writes(pr, r, IF Head(r) = "nl" THEN "nl" ELSE "sent", sn, sh, <<Head(r)>>)
<1>1. r \in Seq(Chr) /\ sn \in Seq(Chr) /\ sh \in Seq(Chr) /\ fi \in Seq(Chr)
  BY DEF Writes
<1>2. PICK p \in Prints, T \in Seq(Chr), k \in Nat :
        pr = <<p>> /\ T = Text(p) /\ Unsent(T, k, r) /\ Stage(T, k, "tx", (sn \o sh) \o fi, sh, fi)
  BY WritesAt
<1>3. k < Len(T) /\ (sn \o sh) \o fi = Wired(T)[k] /\ sh = <<>> /\ fi = <<>>
  BY <1>2 DEF Stage
<1>4. Head(r) = T[k + 1] /\ T[k + 1] \in Chr /\ Wired(T)[k + 1] = Wired(T)[k] \o OnWire(T[k + 1])
  <2>1. Head(r) = T[k + 1]
    BY <1>1, <1>2, <1>3, UnsentNext
  <2>2. T[k + 1] \in Chr /\ Wired(T)[k + 1] = Wired(T)[k] \o OnWire(T[k + 1])
    BY <1>3, WiredNext
  <2> QED
    BY <2>1, <2>2
<1>5. PICK c \in Chr : c = Head(r)
  BY <1>4
<1>6. <<c>> \in Seq(Chr)
  OBVIOUS
<1>7. sn \o sh = sn /\ sn \o fi = sn /\ sn = Wired(T)[k]
  <2>1. sn \o <<>> = sn
    BY <1>1, Plain
  <2> QED
    BY <1>3, <2>1
<1>8. (sn \o sh) \o <<c>> = Wired(T)[k] \o <<c>>
  BY <1>7
<1>9. Stage(T, k, IF c = "nl" THEN "nl" ELSE "sent", (sn \o sh) \o <<c>>, sh, <<c>>)
  <2>1. CASE c = "nl"
    BY <1>3, <1>4, <1>5, <1>8, <2>1 DEF Stage
  <2>2. CASE c # "nl"
    <3>1. OnWire(T[k + 1]) = <<c>>
      BY <1>4, <1>5, <2>2 DEF OnWire
    <3> QED
      BY <1>3, <1>4, <1>8, <2>2, <3>1 DEF Stage
  <2> QED
    BY <2>1, <2>2
<1>10. Underway(p, r, IF c = "nl" THEN "nl" ELSE "sent", sn, sh, <<c>>)
  BY <1>2, <1>9 DEF Underway
<1>11. Writes(pr, r, IF c = "nl" THEN "nl" ELSE "sent", sn, sh, <<c>>)
  BY <1>1, <1>2, <1>6, <1>10, WritesWhen
<1> QED
  BY <1>3, <1>5, <1>11

(* uart_putc has waited for room behind a line feed.                       *)
LEMMA WritesThreNl ==
    ASSUME NEW pr, NEW r, NEW sn, NEW sh, NEW fi, Gone(fi), Writes(pr, r, "nl", sn, sh, fi)
    PROVE  Writes(pr, r, "cr", sn, sh, fi)
<1>1. r \in Seq(Chr) /\ sn \in Seq(Chr) /\ sh \in Seq(Chr) /\ fi \in Seq(Chr)
  BY DEF Writes
<1>2. PICK p \in Prints, T \in Seq(Chr), k \in Nat :
        pr = <<p>> /\ T = Text(p) /\ Unsent(T, k, r) /\ Stage(T, k, "nl", (sn \o sh) \o fi, sh, fi)
  BY WritesAt
<1>3. Stage(T, k, "cr", (sn \o sh) \o fi, sh, fi)
  BY <1>2 DEF Stage, Gone
<1>4. Underway(p, r, "cr", sn, sh, fi)
  BY <1>2, <1>3 DEF Underway
<1> QED
  BY <1>1, <1>2, <1>4, WritesWhen

(* uart_putc writes the carriage return behind a line feed.                *)
LEMMA WritesCr ==
    ASSUME NEW pr, NEW r, NEW sn, NEW sh, NEW fi, Writes(pr, r, "cr", sn, sh, fi)
    PROVE  fi = <<>> /\ Writes(pr, r, "sent", sn, sh, <<"cr">>)
<1>1. r \in Seq(Chr) /\ sn \in Seq(Chr) /\ sh \in Seq(Chr) /\ fi \in Seq(Chr)
  BY DEF Writes
<1>2. PICK p \in Prints, T \in Seq(Chr), k \in Nat :
        pr = <<p>> /\ T = Text(p) /\ Unsent(T, k, r) /\ Stage(T, k, "cr", (sn \o sh) \o fi, sh, fi)
  BY WritesAt
<1>3. k < Len(T) /\ T[k + 1] = "nl" /\ (sn \o sh) \o fi = Wired(T)[k] \o <<"nl">> /\ fi = <<>>
  BY <1>2 DEF Stage
<1>4. Wired(T)[k] \in Seq(Chr) /\ Wired(T)[k + 1] = Wired(T)[k] \o <<"nl", "cr">>
  BY <1>2, <1>3, WiredNext DEF OnWire
<1>5. PICK x \in Seq(Chr), w \in Seq(Chr) : x = sn \o sh /\ w = Wired(T)[k]
  <2>1. sn \o sh \in Seq(Chr)
    BY <1>1, ConcatProperties
  <2> QED
    BY <1>4, <2>1
<1>6. "nl" \in Chr /\ "cr" \in Chr
  BY DEF Chr
<1>7. <<"nl">> \in Seq(Chr) /\ <<"cr">> \in Seq(Chr)
  BY <1>6
<1>8. x = w \o <<"nl">>
  BY <1>3, <1>5, Plain
<1>9. x \o <<"cr">> = w \o (<<"nl">> \o <<"cr">>)
  BY <1>7, <1>8, ConcatAssociative
<1>10. <<"nl">> \o <<"cr">> = <<"nl", "cr">>
  <2>1. PICK a \in Seq(Chr), b \in Seq(Chr), c \in Seq(Chr) : a = <<"nl">> /\ b = <<"cr">> /\ c = <<"nl", "cr">>
    <3>1. <<"nl", "cr">> \in Seq(Chr)
      BY <1>6
    <3> QED
      BY <1>7, <3>1
  <2>2. Len(a) = 1 /\ Len(b) = 1 /\ Len(c) = 2 /\ a[1] = "nl" /\ b[1] = "cr" /\ c[1] = "nl" /\ c[2] = "cr"
    BY <2>1
  <2>3. /\ a \o b \in Seq(Chr) /\ Len(a \o b) = Len(a) + Len(b)
        /\ \A i \in 1 .. Len(a) + Len(b) : (a \o b)[i] = IF i <= Len(a) THEN a[i] ELSE b[i - Len(a)]
    BY ConcatProperties
  <2>4. /\ a \o b \in Seq(Chr) /\ Len(a \o b) = 2
        /\ \A i \in 1 .. 2 : (a \o b)[i] = IF i <= 1 THEN a[i] ELSE b[i - 1]
    BY <2>2, <2>3
  <2>5. \A i \in 1 .. 2 : (a \o b)[i] = c[i]
    <3>1. \A i \in 1 .. 2 : i = 1 \/ i = 2
      OBVIOUS
    <3> QED
      BY <2>2, <2>4, <3>1
  <2>6. a \o b = c
    BY <2>2, <2>4, <2>5, SeqEqual
  <2> QED
    BY <2>1, <2>6
<1>11. Stage(T, k, "sent", (sn \o sh) \o <<"cr">>, sh, <<"cr">>)
  BY <1>3, <1>4, <1>5, <1>9, <1>10 DEF Stage
<1>12. Underway(p, r, "sent", sn, sh, <<"cr">>)
  BY <1>2, <1>11 DEF Underway
<1> QED
  BY <1>1, <1>2, <1>3, <1>7, <1>12, WritesWhen

(* uart_putc has waited until its character left, and returns.             *)
LEMMA WritesDone ==
    ASSUME NEW pr, NEW r, NEW sn, NEW sh, NEW fi, Gone(sh), Gone(fi), Writes(pr, r, "sent", sn, sh, fi)
    PROVE  r # <<>> /\ Writes(pr, Tail(r), "out", sn, sh, fi)
<1>1. r \in Seq(Chr) /\ sn \in Seq(Chr) /\ sh \in Seq(Chr) /\ fi \in Seq(Chr)
  BY DEF Writes
<1>2. PICK p \in Prints, T \in Seq(Chr), k \in Nat :
        pr = <<p>> /\ T = Text(p) /\ Unsent(T, k, r) /\ Stage(T, k, "sent", (sn \o sh) \o fi, sh, fi)
  BY WritesAt
<1>3. k < Len(T) /\ (sn \o sh) \o fi = Wired(T)[k + 1]
  BY <1>2 DEF Stage
<1>4. r # <<>> /\ Unsent(T, k + 1, Tail(r)) /\ Tail(r) \in Seq(Chr)
  BY <1>1, <1>2, <1>3, UnsentNext
<1>5. Stage(T, k + 1, "out", (sn \o sh) \o fi, sh, fi)
  BY <1>3 DEF Stage, Gone
<1>6. Underway(p, Tail(r), "out", sn, sh, fi)
  <2>1. k + 1 \in Nat
    OBVIOUS
  <2> QED
    BY <1>2, <1>4, <1>5, <2>1 DEF Underway
<1> QED
  BY <1>1, <1>2, <1>4, <1>6, WritesWhen

(* The character of a writer moves from the FIFO to the shift register.    *)
LEMMA WritesShift ==
    ASSUME NEW pr, NEW r, NEW st, NEW sn, NEW c, Writes(pr, r, st, sn, <<>>, <<c>>)
    PROVE  Writes(pr, r, st, sn, <<c>>, <<>>)
<1>1. r \in Seq(Chr) /\ sn \in Seq(Chr) /\ <<c>> \in Seq(Chr) /\ <<>> \in Seq(Chr)
  BY DEF Writes
<1>2. PICK d : d = <<c>> /\ d # <<>> /\ d \in Seq(Chr)
  BY <1>1
<1>3. PICK p \in Prints : pr = <<p>> /\ Underway(p, r, st, sn, <<>>, d)
  BY <1>2 DEF Writes, Calm
<1>4. PICK k \in Nat : Unsent(Text(p), k, r) /\ Stage(Text(p), k, st, (sn \o <<>>) \o d, <<>>, d)
  BY <1>3 DEF Underway
<1>5. (sn \o <<>>) \o d = (sn \o d) \o <<>>
  <2>1. sn \o d \in Seq(Chr)
    BY <1>1, <1>2, ConcatProperties
  <2>2. sn \o <<>> = sn /\ (sn \o d) \o <<>> = sn \o d
    BY <1>1, <2>1, Plain
  <2> QED
    BY <2>2
<1>6. Stage(Text(p), k, st, (sn \o d) \o <<>>, d, <<>>)
  BY <1>2, <1>4, <1>5 DEF Stage
<1>7. Underway(p, r, st, sn, d, <<>>)
  BY <1>4, <1>6 DEF Underway
<1> QED
  BY <1>1, <1>2, <1>3, <1>7, WritesWhen

(* The character of a writer leaves the shift register, and the line has   *)
(* seen it.                                                                *)
LEMMA WritesSeen ==
    ASSUME NEW pr, NEW r, NEW st, NEW sn, NEW c, NEW fi, Writes(pr, r, st, sn, <<c>>, fi)
    PROVE  Append(sn, c) \in Seq(Chr) /\ Writes(pr, r, st, Append(sn, c), <<>>, fi)
<1>1. r \in Seq(Chr) /\ sn \in Seq(Chr) /\ <<c>> \in Seq(Chr) /\ fi \in Seq(Chr)
  BY DEF Writes
<1>2. PICK d : d = <<c>> /\ d # <<>> /\ d \in Seq(Chr)
  BY <1>1
<1>3. PICK p \in Prints : pr = <<p>> /\ Underway(p, r, st, sn, d, fi)
  BY <1>2 DEF Writes, Calm
<1>4. PICK k \in Nat : Unsent(Text(p), k, r) /\ Stage(Text(p), k, st, (sn \o d) \o fi, d, fi)
  BY <1>3 DEF Underway
<1>5. PICK y : y = Append(sn, c) /\ y = sn \o d /\ y \in Seq(Chr)
  <2>1. c \in Chr
    BY <1>1
  <2>2. Append(sn, c) = sn \o <<c>> /\ Append(sn, c) \in Seq(Chr)
    BY <1>1, <2>1, AppendIsConcat, AppendProperties
  <2> QED
    BY <1>2, <2>2
<1>6. (y \o <<>>) \o fi = (sn \o d) \o fi
  BY <1>5, Plain
<1>7. Stage(Text(p), k, st, (y \o <<>>) \o fi, <<>>, fi)
  BY <1>2, <1>4, <1>6 DEF Stage
<1>8. Underway(p, r, st, y, <<>>, fi)
  BY <1>4, <1>7 DEF Underway
<1>9. <<>> \in Seq(Chr)
  BY EmptySeq
<1> QED
  BY <1>1, <1>3, <1>5, <1>8, <1>9, WritesWhen

(* The character of a writer in the FIFO or in the shift register.         *)
Entry == [by : Writer, char : Chr]
On(q, t) == IF \E i \in 1 .. Len(q) : q[i].by = t
            THEN <<q[CHOOSE i \in 1 .. Len(q) : q[i].by = t].char>> ELSE <<>>
Distinct(q) == \A i, j \in 1 .. Len(q) : q[i].by = q[j].by => i = j
LEMMA OnIs ==
    ASSUME NEW q, Distinct(q), NEW i \in 1 .. Len(q), NEW t, q[i].by = t
    PROVE  On(q, t) = <<q[i].char>>
<1> DEFINE c == CHOOSE j \in 1 .. Len(q) : q[j].by = t
<1>1. c \in 1 .. Len(q) /\ q[c].by = t
  OBVIOUS
<1> HIDE DEF c
<1>2. c = i
  BY <1>1 DEF Distinct
<1> QED
  BY <1>2 DEF On, c

(* A writer has no character in a queue in which none is its own.          *)
LEMMA OnNone ==
    ASSUME NEW q, NEW t
    PROVE  On(q, t) = <<>> <=> \A i \in 1 .. Len(q) : q[i].by # t
<1>1. CASE \A i \in 1 .. Len(q) : q[i].by # t
  BY <1>1 DEF On
<1>2. CASE \E i \in 1 .. Len(q) : q[i].by = t
  <2>1. PICK x : On(q, t) = <<x>>
    BY <1>2 DEF On
  <2> QED
    BY <1>2, <2>1
<1> QED
  BY <1>1, <1>2

(* What a writer has in a queue are characters.                            *)
LEMMA OnTyped ==
    ASSUME NEW q \in Seq(Entry), NEW t
    PROVE  On(q, t) \in Seq(Chr)
<1>1. CASE \E i \in 1 .. Len(q) : q[i].by = t
  <2>1. PICK i \in 1 .. Len(q) : On(q, t) = <<q[i].char>>
    BY <1>1 DEF On
  <2>2. q[i] \in Entry
    BY ElementOfSeq
  <2>3. q[i].char \in Chr
    BY <2>2 DEF Entry
  <2>4. <<q[i].char>> \in Seq(Chr)
    BY <2>3
  <2> QED
    BY <2>1, <2>4
<1>2. CASE ~\E i \in 1 .. Len(q) : q[i].by = t
  BY <1>2, EmptySeq DEF On
<1> QED
  BY <1>1, <1>2

(* A writer that has none in the queue adds one, and the others' stay.     *)
Joins(q, t, c, z) == On(q, t) = <<>> /\ z = Append(q, Char(t, c))
HasJoined(q, t, c, z) == /\ z \in Seq(Entry) /\ Distinct(z) /\ On(z, t) = <<c>>
                         /\ \A u : u # t => On(z, u) = On(q, u)
LEMMA OnAppend ==
    ASSUME NEW q \in Seq(Entry), Distinct(q), NEW t \in Writer, NEW c \in Chr, NEW z, Joins(q, t, c, z)
    PROVE  HasJoined(q, t, c, z)
<1> USE DEF Joins
<1>1. PICK e \in Entry : e = Char(t, c) /\ e.by = t /\ e.char = c
  BY DEF Char, Entry
<1>2. PICK n \in Nat : n = Len(q)
  BY LenProperties
<1>3. z \in Seq(Entry) /\ Len(z) = n + 1 /\ z[n + 1] = e /\ \A i \in 1 .. n : z[i] = q[i]
  BY <1>1, <1>2, AppendProperties
<1>4. \A i \in 1 .. n : q[i].by # t
  BY <1>2, OnNone
<1>5. \A i \in 1 .. n + 1 : i \in 1 .. n \/ i = n + 1
  OBVIOUS
<1>6. Distinct(z)
  <2>1. ASSUME NEW i \in 1 .. n + 1, NEW j \in 1 .. n + 1, z[i].by = z[j].by PROVE i = j
    <3>1. CASE i \in 1 .. n /\ j \in 1 .. n
      BY <1>2, <1>3, <2>1, <3>1 DEF Distinct
    <3>2. CASE i \in 1 .. n /\ j = n + 1
      BY <1>1, <1>3, <1>4, <2>1, <3>2
    <3>3. CASE i = n + 1 /\ j \in 1 .. n
      BY <1>1, <1>3, <1>4, <2>1, <3>3
    <3>4. CASE i = n + 1 /\ j = n + 1
      BY <3>4
    <3> QED
      BY <1>5, <3>1, <3>2, <3>3, <3>4
  <2> QED
    BY <1>3, <2>1 DEF Distinct
<1>7. On(z, t) = <<c>>
  <2>1. n + 1 \in 1 .. Len(z) /\ z[n + 1].by = t /\ z[n + 1].char = c
    BY <1>1, <1>3
  <2> QED
    BY <1>6, <2>1, OnIs
<1>8. ASSUME NEW u, u # t PROVE On(z, u) = On(q, u)
  <2>1. CASE \A i \in 1 .. n : q[i].by # u
    <3>1. \A i \in 1 .. n + 1 : z[i].by # u
      BY <1>1, <1>3, <1>5, <1>8, <2>1
    <3>2. On(q, u) = <<>>
      BY <1>2, <2>1, OnNone
    <3>3. On(z, u) = <<>>
      <4>1. \A i \in 1 .. Len(z) : z[i].by # u
        BY <1>3, <3>1, Zenon
      <4> HIDE DEF Joins
      <4> QED
        BY <4>1, OnNone, Zenon
    <3> QED
      BY <3>2, <3>3
  <2>2. CASE \E i \in 1 .. n : q[i].by = u
    <3>1. PICK i \in 1 .. n : q[i].by = u
      BY <2>2
    <3>2. i \in 1 .. Len(q) /\ i \in 1 .. Len(z) /\ z[i] = q[i] /\ z[i].by = u
      BY <1>2, <1>3, <3>1
    <3>3. On(q, u) = <<q[i].char>>
      BY <3>1, <3>2, OnIs
    <3>4. On(z, u) = <<z[i].char>>
      BY <1>6, <3>2, OnIs
    <3> QED
      BY <3>2, <3>3, <3>4
  <2> QED
    BY <2>1, <2>2
<1> QED
  BY <1>3, <1>6, <1>7, <1>8 DEF HasJoined

(* The first of a queue leaves it, and the others' stay.                   *)
Leaves(q, e, z) == q # <<>> /\ e = Head(q) /\ z = Tail(q)
HasLeft(q, e, z) == /\ e \in Entry /\ z \in Seq(Entry) /\ Distinct(z)
                    /\ On(q, e.by) = <<e.char>> /\ On(z, e.by) = <<>>
                    /\ \A u : u # e.by => On(z, u) = On(q, u)
LEMMA OnTail ==
    ASSUME NEW q \in Seq(Entry), Distinct(q), NEW e, NEW z, Leaves(q, e, z)
    PROVE  HasLeft(q, e, z)
<1> USE DEF Leaves
<1>1. PICK n \in Nat \ {0} : n = Len(q)
  BY EmptySeq
<1>2. e \in Entry /\ e = q[1] /\ z \in Seq(Entry) /\ Len(z) = n - 1 /\ \A i \in 1 .. n - 1 : z[i] = q[i + 1]
  <2>1. Head(q) = q[1]
    OBVIOUS
  <2> QED
    BY <1>1, <2>1, HeadTailProperties
<1>3. \A i \in 1 .. n - 1 : i + 1 \in 1 .. n /\ i + 1 # 1
  OBVIOUS
<1>4. Distinct(z)
  <2>1. ASSUME NEW i \in 1 .. n - 1, NEW j \in 1 .. n - 1, z[i].by = z[j].by PROVE i = j
    <3>1. i + 1 = j + 1
      BY <1>1, <1>2, <1>3, <2>1 DEF Distinct
    <3> QED
      BY <3>1
  <2> QED
    BY <1>2, <2>1 DEF Distinct
<1>5. On(q, e.by) = <<e.char>>
  <2>1. 1 \in 1 .. Len(q) /\ q[1].by = e.by
    BY <1>1, <1>2
  <2> QED
    BY <1>2, <2>1, OnIs
<1>6. On(z, e.by) = <<>>
  <2>1. ASSUME NEW i \in 1 .. n - 1, z[i].by = e.by PROVE FALSE
    <3>1. q[i + 1].by = q[1].by /\ 1 \in 1 .. n
      BY <1>2, <2>1
    <3>2. i + 1 = 1
      BY <1>1, <1>3, <3>1 DEF Distinct
    <3> QED
      BY <1>3, <3>2
  <2> QED
    BY <1>2, <2>1, OnNone
<1>7. ASSUME NEW u, u # e.by PROVE On(z, u) = On(q, u)
  <2>1. CASE \A i \in 1 .. n : q[i].by # u
    <3>1. \A i \in 1 .. n - 1 : z[i].by # u
      BY <1>2, <1>3, <2>1
    <3>2. On(q, u) = <<>>
      BY <1>1, <2>1, OnNone
    <3>3. On(z, u) = <<>>
      <4>1. \A i \in 1 .. Len(z) : z[i].by # u
        BY <1>2, <3>1, Zenon
      <4> HIDE DEF Leaves
      <4> QED
        BY <4>1, OnNone, Zenon
    <3> QED
      BY <3>2, <3>3
  <2>2. CASE \E i \in 1 .. n : q[i].by = u
    <3>1. PICK i \in 1 .. n : q[i].by = u
      BY <2>2
    <3>2. i # 1
      BY <1>2, <1>7, <3>1
    <3>3. PICK j \in 1 .. n - 1 : i = j + 1
      <4>1. i - 1 \in 1 .. n - 1 /\ i = (i - 1) + 1
        BY <3>2
      <4> QED
        BY <4>1
    <3>4. i \in 1 .. Len(q) /\ j \in 1 .. Len(z) /\ z[j] = q[i] /\ z[j].by = u
      BY <1>1, <1>2, <3>1, <3>3
    <3>5. On(q, u) = <<q[i].char>>
      BY <3>1, <3>4, OnIs
    <3>6. On(z, u) = <<z[j].char>>
      BY <1>4, <3>4, OnIs
    <3> QED
      BY <3>4, <3>5, <3>6
  <2> QED
    BY <2>1, <2>2
<1> QED
  BY <1>2, <1>4, <1>5, <1>6, <1>7 DEF HasLeft

(* One writer without a character in it, and the FIFO is not full.         *)
LEMMA FifoHasRoom ==
    ASSUME NEW q \in Seq(Entry), Distinct(q), NEW t \in Writer, On(q, t) = <<>>
    PROVE  Len(q) < FifoSize
<1>1. PICK n \in Nat : n = Len(q)
  BY LenProperties
<1>2. \A i \in 1 .. n : q[i].by \in Writer /\ q[i].by # t
  <2>1. \A i \in 1 .. n : q[i] \in Entry
    BY <1>1, ElementOfSeq
  <2>2. \A i \in 1 .. n : q[i].by # t
    BY <1>1, OnNone
  <2> QED
    BY <2>1, <2>2 DEF Entry
<1> DEFINE f == [i \in 1 .. n |-> q[i].by]
           S == Writer \ {t}
<1>3. f \in Injection(1 .. n, S)
  <2>1. f \in [1 .. n -> S]
    BY <1>2
  <2>2. \A i, j \in 1 .. n : f[i] = f[j] => i = j
    BY <1>1 DEF Distinct
  <2> HIDE DEF f, S
  <2> QED
    BY <2>1, <2>2 DEF Injection, IsInjective
<1>4. IsFiniteSet(Writer) /\ FifoSize \in Nat /\ Cardinality(Writer) <= FifoSize
  BY UartAssumption
<1>5. IsFiniteSet(S) /\ Cardinality(S) = Cardinality(Writer) - 1 /\ Cardinality(Writer) \in Nat
  BY <1>4, FS_RemoveElement, FS_CardinalityType
<1>6. Cardinality(1 .. n) <= Cardinality(S)
  <2> HIDE DEF f, S
  <2> QED
    BY <1>3, <1>5, FS_Injection
<1>7. Cardinality(1 .. n) = n
  <2>1. 1 \in Int /\ n \in Int
    OBVIOUS
  <2> QED
    BY <2>1, FS_Interval
<1> QED
  BY <1>1, <1>4, <1>5, <1>6, <1>7

(* The serial line: what is printed is on its way or has arrived.          *)
UartTypes ==
    /\ depth = FifoSize /\ fifo \in Seq(Entry) /\ Distinct(fifo)
    /\ shift = <<>> \/ \E e \in Entry : shift = <<e>>
    /\ seen \in [Writer -> Seq(Chr)] /\ rest \in [Writer -> Seq(Chr)]
    /\ step \in [Writer -> {"out", "tx", "nl", "cr", "sent"}]
    /\ printing \in [Writer -> {<<>>} \cup {<<p>> : p \in Prints}]
WriterInv(t) == Writes(printing[t], rest[t], step[t], seen[t], On(shift, t), On(fifo, t))
UartInv == UartTypes /\ \A t \in Writer : WriterInv(t)

(* What a shift register with one character or none holds of each writer.  *)
LEMMA OnShift ==
    /\ \A u : On(<<>>, u) = <<>>
    /\ \A e \in Entry : Distinct(<<e>>) /\ On(<<e>>, e.by) = <<e.char>> /\ \A u : u # e.by => On(<<e>>, u) = <<>>
<1>1. ASSUME NEW u PROVE On(<<>>, u) = <<>>
  <2>1. \A i \in 1 .. Len(<<>>) : FALSE
    OBVIOUS
  <2> QED
    BY <2>1, OnNone
<1>2. ASSUME NEW e \in Entry
      PROVE  Distinct(<<e>>) /\ On(<<e>>, e.by) = <<e.char>> /\ \A u : u # e.by => On(<<e>>, u) = <<>>
  <2>1. PICK q : q = <<e>>
    OBVIOUS
  <2>2. Len(q) = 1 /\ q[1] = e /\ \A i \in 1 .. Len(q) : i = 1
    BY <2>1
  <2>3. Distinct(q)
    BY <2>2 DEF Distinct
  <2>4. On(q, e.by) = <<e.char>>
    <3>1. 1 \in 1 .. Len(q) /\ q[1].by = e.by
      BY <2>2
    <3>2. On(q, e.by) = <<q[1].char>>
      BY <2>3, <3>1, OnIs
    <3> QED
      BY <2>2, <3>2
  <2>5. ASSUME NEW u, u # e.by PROVE On(q, u) = <<>>
    <3>1. \A i \in 1 .. Len(q) : q[i].by # u
      BY <2>2, <2>5
    <3> QED
      BY <3>1, OnNone
  <2> QED
    BY <2>1, <2>3, <2>4, <2>5
<1> QED
  BY <1>1, <1>2

(* uart_init: nothing is on its way.                                       *)
LEMMA UartInvInit == UartInit => UartInv
<1> SUFFICES ASSUME UartInit PROVE UartInv
  OBVIOUS
<1>1. depth = FifoSize /\ fifo = <<>> /\ shift = <<>> /\ seen = [t \in Writer |-> <<>>]
      /\ rest = [t \in Writer |-> <<>>] /\ printing = [t \in Writer |-> <<>>] /\ step = [t \in Writer |-> "out"]
  BY DEF UartInit
<1>2. <<>> \in Seq(Chr) /\ <<>> \in Seq(Entry) /\ Len(<<>>) = 0
  BY EmptySeq
<1>3. Distinct(fifo)
  BY <1>1, <1>2 DEF Distinct
<1>4. UartTypes
  BY <1>1, <1>2, <1>3 DEF UartTypes
<1>5. ASSUME NEW t \in Writer PROVE WriterInv(t)
  <2>1. On(shift, t) = <<>> /\ On(fifo, t) = <<>>
    BY <1>1, OnShift
  <2>2. printing[t] = <<>> /\ rest[t] = <<>> /\ step[t] = "out" /\ seen[t] = <<>>
    BY <1>1
  <2>3. Writes(<<>>, <<>>, "out", <<>>, <<>>, <<>>)
    BY <1>2 DEF Writes, Calm
  <2> QED
    BY <2>1, <2>2, <2>3 DEF WriterInv
<1> QED
  BY <1>4, <1>5 DEF UartInv

(* A task that leaves the device alone.                                    *)
LEMMA UartSame ==
    ASSUME UartInv, UNCHANGED uartVars
    PROVE  UartInv'
BY DEF UartInv, UartTypes, WriterInv, uartVars

(* A task begins to print.                                                 *)
LEMMA UartPrint ==
    ASSUME UartInv, NEW t \in Writer, PrintCalled(t)
    PROVE  UartInv'
<1>1. UartTypes /\ \A u \in Writer : WriterInv(u)
  BY DEF UartInv
<1>2. printing[t] = <<>> /\ UNCHANGED <<depth, fifo, shift, seen, step>>
  BY DEF PrintCalled
<1>3. PICK p \in Prints : printing' = [printing EXCEPT ![t] = <<p>>] /\ rest' = [rest EXCEPT ![t] = Text(p)]
  BY DEF PrintCalled
<1>4. Text(p) \in Seq(Chr)
  BY TextArrives
<1>5. UartTypes'
  BY <1>1, <1>2, <1>3, <1>4 DEF UartTypes
<1>6. ASSUME NEW u \in Writer PROVE WriterInv(u)'
  <2>1. Writes(printing[u], rest[u], step[u], seen[u], On(shift, u), On(fifo, u))
    BY <1>1 DEF WriterInv
  <2>2. On(shift, u)' = On(shift, u) /\ On(fifo, u)' = On(fifo, u) /\ step'[u] = step[u] /\ seen'[u] = seen[u]
    BY <1>2
  <2>3. CASE u # t
    <3>1. printing'[u] = printing[u] /\ rest'[u] = rest[u]
      BY <1>1, <1>3, <2>3 DEF UartTypes
    <3> QED
      BY <2>1, <2>2, <3>1 DEF WriterInv
  <2>4. CASE u = t
    <3>1. printing'[u] = <<p>> /\ rest'[u] = Text(p)
      BY <1>1, <1>3, <2>4 DEF UartTypes
    <3>2. Writes(<<>>, rest[u], step[u], seen[u], On(shift, u), On(fifo, u))
      BY <1>2, <2>1, <2>4
    <3>3. Writes(<<p>>, Text(p), step[u], seen[u], On(shift, u), On(fifo, u))
      BY <3>2, WritesPrint
    <3> QED
      BY <2>2, <3>1, <3>3 DEF WriterInv
  <2> QED
    BY <2>3, <2>4
<1> QED
  BY <1>5, <1>6 DEF UartInv

(* uart_putc of t, one step after the other.                               *)
LEMMA UartWaits ==
    ASSUME UartInv, NEW t \in Writer, WaitForThre(t) \/ WaitForThreNl(t)
    PROVE  UartInv'
<1>1. UartTypes /\ \A u \in Writer : WriterInv(u)
  BY DEF UartInv
<1>2. fifo = <<>> /\ UNCHANGED <<depth, fifo, shift, seen, printing, rest>>
  BY DEF WaitForThre, WaitForThreNl, device
<1>3. \/ step[t] = "out" /\ rest[t] # <<>> /\ step' = [step EXCEPT ![t] = "tx"]
      \/ step[t] = "nl" /\ step' = [step EXCEPT ![t] = "cr"]
  BY DEF WaitForThre, WaitForThreNl, Goes
<1>4. UartTypes'
  BY <1>1, <1>2, <1>3 DEF UartTypes
<1>5. ASSUME NEW u \in Writer PROVE WriterInv(u)'
  <2>1. Writes(printing[u], rest[u], step[u], seen[u], On(shift, u), On(fifo, u))
    BY <1>1 DEF WriterInv
  <2>2. /\ On(shift, u)' = On(shift, u) /\ On(fifo, u)' = On(fifo, u)
        /\ rest'[u] = rest[u] /\ seen'[u] = seen[u] /\ printing'[u] = printing[u]
    BY <1>2
  <2>3. CASE u # t
    <3>1. step'[u] = step[u]
      BY <1>1, <1>3, <2>3 DEF UartTypes
    <3> QED
      BY <2>1, <2>2, <3>1 DEF WriterInv
  <2>4. CASE u = t /\ step[t] = "out" /\ rest[t] # <<>> /\ step' = [step EXCEPT ![t] = "tx"]
    <3>1. step'[u] = "tx"
      BY <1>1, <2>4 DEF UartTypes
    <3>2. Writes(printing[u], rest[u], "tx", seen[u], On(shift, u), On(fifo, u))
      BY <2>1, <2>4, WritesThre
    <3> QED
      BY <2>2, <3>1, <3>2 DEF WriterInv
  <2>5. CASE u = t /\ step[t] = "nl" /\ step' = [step EXCEPT ![t] = "cr"]
    <3>1. step'[u] = "cr"
      BY <1>1, <2>5 DEF UartTypes
    <3>2. Gone(On(fifo, u))
      BY <1>2, OnShift DEF Gone
    <3>3. Writes(printing[u], rest[u], "cr", seen[u], On(shift, u), On(fifo, u))
      BY <2>1, <2>5, <3>2, WritesThreNl
    <3> QED
      BY <2>2, <3>1, <3>3 DEF WriterInv
  <2> QED
    BY <1>3, <2>3, <2>4, <2>5
<1> QED
  BY <1>4, <1>5 DEF UartInv

(* A write to the transmit register, and what uart_putc does next.         *)
Wrote(t, c, to) == /\ step' = [step EXCEPT ![t] = to] /\ Tx(t, c) /\ UNCHANGED rest
                   /\ to \in {"nl", "sent"} /\ c \in Chr /\ On(fifo, t) = <<>>
                   /\ Writes(printing[t], rest[t], to, seen[t], On(shift, t), <<c>>)
LEMMA UartWrites ==
    ASSUME UartInv, NEW t \in Writer, NEW c, NEW to, Wrote(t, c, to)
    PROVE  UartInv'
<1>1. UartTypes /\ \A u \in Writer : WriterInv(u)
  BY DEF UartInv
<1>2. UNCHANGED <<depth, shift, seen, printing, rest>> /\ step' = [step EXCEPT ![t] = to]
      /\ to \in {"nl", "sent"} /\ c \in Chr /\ On(fifo, t) = <<>>
  BY DEF Wrote, Tx
<1>3. fifo' = Append(fifo, Char(t, c))
  <2>1. Len(fifo) < depth
    BY <1>1, <1>2, FifoHasRoom DEF UartTypes
  <2> QED
    BY <2>1 DEF Wrote, Tx
<1>4. fifo' \in Seq(Entry) /\ Distinct(fifo') /\ On(fifo', t) = <<c>> /\ \A u : u # t => On(fifo', u) = On(fifo, u)
  <2>1. PICK z : z = Append(fifo, Char(t, c))
    OBVIOUS
  <2>2. fifo \in Seq(Entry) /\ Distinct(fifo) /\ c \in Chr /\ On(fifo, t) = <<>>
    BY <1>1, <1>2 DEF UartTypes
  <2>3. /\ z \in Seq(Entry) /\ Distinct(z) /\ On(z, t) = <<c>>
        /\ \A u : u # t => On(z, u) = On(fifo, u)
    <3>1. Joins(fifo, t, c, z)
      BY <2>1, <2>2 DEF Joins
    <3> QED
      BY <2>2, <3>1, OnAppend DEF HasJoined
  <2> QED
    BY <1>3, <2>1, <2>3
<1>5. UartTypes'
  BY <1>1, <1>2, <1>4 DEF UartTypes
<1>6. ASSUME NEW u \in Writer PROVE WriterInv(u)'
  <2>1. /\ On(shift, u)' = On(shift, u) /\ On(fifo, u)' = On(fifo', u)
        /\ rest'[u] = rest[u] /\ seen'[u] = seen[u] /\ printing'[u] = printing[u]
    BY <1>2
  <2>2. CASE u # t
    <3>1. step'[u] = step[u]
      BY <1>1, <1>2, <2>2 DEF UartTypes
    <3>2. Writes(printing[u], rest[u], step[u], seen[u], On(shift, u), On(fifo, u))
      BY <1>1 DEF WriterInv
    <3> QED
      BY <1>4, <2>1, <2>2, <3>1, <3>2 DEF WriterInv
  <2>3. CASE u = t
    <3>1. step'[u] = to
      BY <1>1, <1>2, <2>3 DEF UartTypes
    <3>2. Writes(printing[u], rest[u], to, seen[u], On(shift, u), <<c>>)
      BY <2>3 DEF Wrote
    <3> QED
      BY <1>4, <2>1, <2>3, <3>1, <3>2 DEF WriterInv
  <2> QED
    BY <2>2, <2>3
<1> QED
  BY <1>5, <1>6 DEF UartInv

(* A task writes to the transmitter.                                       *)
LEMMA UartTx ==
    ASSUME UartInv, NEW t \in Writer, WriteTx(t) \/ WriteCr(t)
    PROVE  UartInv'
<1>1. Writes(printing[t], rest[t], step[t], seen[t], On(shift, t), On(fifo, t))
  BY DEF UartInv, WriterInv
<1>2. CASE WriteTx(t)
  <2>1. PICK c, to : c = Head(rest[t]) /\ to = (IF c = "nl" THEN "nl" ELSE "sent")
    OBVIOUS
  <2>2. step[t] = "tx" /\ step' = [step EXCEPT ![t] = to] /\ Tx(t, c) /\ UNCHANGED rest
    BY <1>2, <2>1 DEF WriteTx, Goes
  <2>3. Writes(printing[t], rest[t], "tx", seen[t], On(shift, t), On(fifo, t))
    BY <1>1, <2>2
  <2>4. /\ On(fifo, t) = <<>> /\ c \in Chr
        /\ Writes(printing[t], rest[t], to, seen[t], On(shift, t), <<c>>)
    BY <2>1, <2>3, WritesTx
  <2>5. Wrote(t, c, to)
    BY <2>1, <2>2, <2>4 DEF Wrote
  <2> QED
    BY <2>5, UartWrites
<1>3. CASE WriteCr(t)
  <2>1. PICK c, to : c = "cr" /\ to = "sent"
    OBVIOUS
  <2>2. step[t] = "cr" /\ step' = [step EXCEPT ![t] = to] /\ Tx(t, c) /\ UNCHANGED rest
    BY <1>3, <2>1 DEF WriteCr, Goes
  <2>3. Writes(printing[t], rest[t], "cr", seen[t], On(shift, t), On(fifo, t))
    BY <1>1, <2>2
  <2>4. /\ On(fifo, t) = <<>> /\ c \in Chr
        /\ Writes(printing[t], rest[t], to, seen[t], On(shift, t), <<c>>)
    BY <2>1, <2>3, WritesCr DEF Chr
  <2>5. Wrote(t, c, to)
    BY <2>1, <2>2, <2>4 DEF Wrote
  <2> QED
    BY <2>5, UartWrites
<1> QED
  BY <1>2, <1>3

(* A task is done with a character.                                        *)
LEMMA UartDone ==
    ASSUME UartInv, NEW t \in Writer, WaitForXmitr(t)
    PROVE  UartInv'
<1>1. UartTypes /\ \A u \in Writer : WriterInv(u)
  BY DEF UartInv
<1>2. /\ fifo = <<>> /\ shift = <<>> /\ step[t] = "sent" /\ step' = [step EXCEPT ![t] = "out"]
      /\ UNCHANGED <<depth, fifo, shift, seen, printing>>
  BY DEF WaitForXmitr, Goes, device
<1>3. PICK r : r = Tail(rest[t]) /\ rest' = [rest EXCEPT ![t] = r]
  BY DEF WaitForXmitr
<1>4. ASSUME NEW u \in Writer
      PROVE  Writes(printing[u], rest[u], step[u], seen[u], On(shift, u), On(fifo, u))
  BY <1>1 DEF WriterInv
<1>5. Writes(printing[t], r, "out", seen[t], On(shift, t), On(fifo, t))
  <2>1. Gone(On(shift, t)) /\ Gone(On(fifo, t))
    BY <1>2, OnShift DEF Gone
  <2>2. Writes(printing[t], rest[t], "sent", seen[t], On(shift, t), On(fifo, t))
    BY <1>2, <1>4
  <2> QED
    BY <1>3, <2>1, <2>2, WritesDone
<1>6. UartTypes'
  <2>1. r \in Seq(Chr)
    BY <1>5 DEF Writes
  <2> QED
    BY <1>1, <1>2, <1>3, <2>1 DEF UartTypes
<1>7. ASSUME NEW u \in Writer PROVE WriterInv(u)'
  <2>1. /\ On(shift, u)' = On(shift, u) /\ On(fifo, u)' = On(fifo, u)
        /\ seen'[u] = seen[u] /\ printing'[u] = printing[u]
    BY <1>2
  <2>2. CASE u # t
    <3>1. step'[u] = step[u] /\ rest'[u] = rest[u]
      BY <1>1, <1>2, <1>3, <2>2 DEF UartTypes
    <3> QED
      BY <1>4, <2>1, <3>1 DEF WriterInv
  <2>3. CASE u = t
    <3>1. step'[u] = "out" /\ rest'[u] = r
      BY <1>1, <1>2, <1>3, <2>3 DEF UartTypes
    <3> QED
      BY <1>5, <2>1, <2>3, <3>1 DEF WriterInv
  <2> QED
    BY <2>2, <2>3
<1> QED
  BY <1>6, <1>7 DEF UartInv

(* The device moves a character on, or it appears on the line.             *)
LEMMA UartShifts ==
    ASSUME UartInv, Shift
    PROVE  UartInv'
<1>1. UartTypes /\ \A u \in Writer : WriterInv(u)
  BY DEF UartInv
<1>2. ASSUME NEW u \in Writer
      PROVE  Writes(printing[u], rest[u], step[u], seen[u], On(shift, u), On(fifo, u))
  BY <1>1 DEF WriterInv
<1>3. CASE shift = <<>> /\ fifo # <<>> /\ shift' = <<Head(fifo)>> /\ fifo' = Tail(fifo)
           /\ UNCHANGED <<depth, seen, rest, step, printing>>
  <2>1. PICK e, z : e = Head(fifo) /\ z = Tail(fifo)
    OBVIOUS
  <2>2. fifo \in Seq(Entry) /\ Distinct(fifo) /\ fifo # <<>>
    BY <1>1, <1>3 DEF UartTypes
  <2>3. /\ e \in Entry /\ z \in Seq(Entry) /\ Distinct(z)
        /\ On(fifo, e.by) = <<e.char>> /\ On(z, e.by) = <<>>
        /\ \A u : u # e.by => On(z, u) = On(fifo, u)
    <3>1. Leaves(fifo, e, z)
      BY <2>1, <2>2 DEF Leaves
    <3> QED
      BY <2>2, <3>1, OnTail DEF HasLeft
  <2>4. fifo' = z /\ shift' = <<e>>
    BY <1>3, <2>1
  <2>5. UartTypes'
    BY <1>1, <1>3, <2>3, <2>4 DEF UartTypes
  <2>6. ASSUME NEW u \in Writer PROVE WriterInv(u)'
    <3>1. rest'[u] = rest[u] /\ seen'[u] = seen[u] /\ printing'[u] = printing[u] /\ step'[u] = step[u]
      BY <1>3
    <3>2. On(shift, u)' = On(<<e>>, u) /\ On(fifo, u)' = On(z, u) /\ On(shift, u) = <<>>
      BY <1>3, <2>4, OnShift
    <3>3. CASE u # e.by
      <4>1. On(<<e>>, u) = <<>> /\ On(z, u) = On(fifo, u)
        BY <2>3, <3>3, OnShift
      <4> QED
        BY <1>2, <3>1, <3>2, <4>1 DEF WriterInv
    <3>4. CASE u = e.by
      <4>1. On(<<e>>, u) = <<e.char>> /\ On(z, u) = <<>> /\ On(fifo, u) = <<e.char>>
        BY <2>3, <3>4, OnShift
      <4>2. Writes(printing[u], rest[u], step[u], seen[u], <<>>, <<e.char>>)
        BY <1>2, <3>2, <4>1
      <4>3. Writes(printing[u], rest[u], step[u], seen[u], <<e.char>>, <<>>)
        BY <4>2, WritesShift
      <4> QED
        BY <3>1, <3>2, <4>1, <4>3 DEF WriterInv
    <3> QED
      BY <3>3, <3>4
  <2> QED
    BY <2>5, <2>6 DEF UartInv
<1>4. CASE shift # <<>> /\ shift' = <<>> /\ seen' = [seen EXCEPT ![shift[1].by] = Append(@, shift[1].char)]
           /\ UNCHANGED <<depth, fifo, rest, step, printing>>
  <2>1. PICK e \in Entry : shift = <<e>>
    BY <1>1, <1>4 DEF UartTypes
  <2>2. e.by \in Writer /\ shift[1] = e
    BY <2>1 DEF Entry
  <2>3. PICK y : y = Append(seen[e.by], e.char) /\ seen' = [seen EXCEPT ![e.by] = y]
    BY <1>4, <2>2
  <2>4. Writes(printing[e.by], rest[e.by], step[e.by], seen[e.by], <<e.char>>, On(fifo, e.by))
    <3>1. On(shift, e.by) = <<e.char>>
      BY <2>1, OnShift
    <3> QED
      BY <1>2, <2>2, <3>1
  <2>5. y \in Seq(Chr) /\ Writes(printing[e.by], rest[e.by], step[e.by], y, <<>>, On(fifo, e.by))
    BY <2>3, <2>4, WritesSeen
  <2>6. UartTypes'
    BY <1>1, <1>4, <2>2, <2>3, <2>5 DEF UartTypes
  <2>7. ASSUME NEW u \in Writer PROVE WriterInv(u)'
    <3>1. /\ rest'[u] = rest[u] /\ printing'[u] = printing[u] /\ step'[u] = step[u]
          /\ On(fifo, u)' = On(fifo, u)
      BY <1>4
    <3>2. On(shift, u)' = <<>>
      BY <1>4, OnShift
    <3>3. CASE u # e.by
      <4>1. seen'[u] = seen[u]
        BY <1>1, <2>3, <3>3 DEF UartTypes
      <4>2. On(shift, u) = <<>>
        BY <2>1, <3>3, OnShift
      <4> QED
        BY <1>2, <3>1, <3>2, <4>1, <4>2 DEF WriterInv
    <3>4. CASE u = e.by
      <4>1. seen'[u] = y
        BY <1>1, <2>2, <2>3, <3>4 DEF UartTypes
      <4> QED
        BY <2>5, <3>1, <3>2, <3>4, <4>1 DEF WriterInv
    <3> QED
      BY <3>3, <3>4
  <2> QED
    BY <2>6, <2>7 DEF UartInv
<1> QED
  BY <1>3, <1>4 DEF Shift

(* Every step of the tasks and of the device keeps the invariant.          *)
LEMMA UartInvNext == UartInv /\ [UartNext]_uartVars => UartInv'
<1> SUFFICES ASSUME UartInv, [UartNext]_uartVars PROVE UartInv'
  OBVIOUS
<1>1. CASE UNCHANGED uartVars
  BY <1>1, UartSame
<1>2. CASE Shift
  BY <1>2, UartShifts
<1>3. CASE \E t \in Writer : PrintCalled(t) \/ WaitForThre(t) \/ WriteTx(t) \/ WaitForThreNl(t)
                             \/ WriteCr(t) \/ WaitForXmitr(t)
  BY <1>3, UartPrint, UartWaits, UartTx, UartDone
<1> QED
  BY <1>1, <1>2, <1>3 DEF UartNext

(* What has been printed when uart_print_... returns.                      *)
LEMMA UartSafe == UartInv => PrintsArrive
<1> SUFFICES ASSUME UartInv, NEW t \in Writer, step[t] = "out"
             PROVE  /\ \A i \in 1 .. Len(fifo \o shift) : (fifo \o shift)[i].by # t
                    /\ printing[t] # <<>> /\ rest[t] = <<>> => Right(printing[t][1], seen[t])
  BY DEF PrintsArrive
<1>1. Writes(printing[t], rest[t], "out", seen[t], On(shift, t), On(fifo, t)) /\ UartTypes
  BY DEF UartInv, WriterInv
<1>2. On(shift, t) = <<>> /\ On(fifo, t) = <<>>
  <2>1. CASE printing[t] = <<>>
    BY <1>1, <2>1 DEF Writes, Calm
  <2>2. CASE printing[t] # <<>>
    BY <1>1, <2>2 DEF Writes, Underway, Stage
  <2> QED
    BY <2>1, <2>2
<1>3. \A i \in 1 .. Len(fifo \o shift) : (fifo \o shift)[i].by # t
  <2>1. fifo \in Seq(Entry) /\ shift \in Seq(Entry)
    <3>1. <<>> \in Seq(Entry) /\ \A e \in Entry : <<e>> \in Seq(Entry)
      BY EmptySeq
    <3> QED
      BY <1>1, <3>1 DEF UartTypes
  <2>2. PICK n \in Nat, m \in Nat : n = Len(fifo) /\ m = Len(shift)
    BY <2>1, LenProperties
  <2>3. Len(fifo \o shift) = n + m
        /\ \A i \in 1 .. n + m : (fifo \o shift)[i] = IF i <= n THEN fifo[i] ELSE shift[i - n]
    BY <2>1, <2>2, ConcatProperties
  <2>4. (\A i \in 1 .. n : fifo[i].by # t) /\ \A i \in 1 .. m : shift[i].by # t
    BY <1>2, <2>2, OnNone
  <2>5. \A i \in 1 .. n + m : i \in 1 .. n \/ (~(i <= n) /\ i - n \in 1 .. m)
    OBVIOUS
  <2> QED
    BY <2>3, <2>4, <2>5
<1>4. ASSUME printing[t] # <<>>, rest[t] = <<>> PROVE Right(printing[t][1], seen[t])
  <2>1. PICK p \in Prints : printing[t] = <<p>> /\ Underway(p, rest[t], "out", seen[t], On(shift, t), On(fifo, t))
    BY <1>1, <1>4 DEF Writes
  <2>2. PICK T \in Seq(Chr) : T = Text(p)
    BY TextArrives
  <2>3. PICK k \in Nat : Unsent(T, k, rest[t])
                         /\ Stage(T, k, "out", (seen[t] \o On(shift, t)) \o On(fifo, t), On(shift, t), On(fifo, t))
    BY <2>1, <2>2 DEF Underway
  <2>4. k = Len(T)
    <3>1. ~(k < Len(T)) /\ k \in 0 .. Len(T) /\ Len(T) \in Nat
      <4>1. rest[t] \in Seq(Chr)
        BY <1>1 DEF Writes
      <4>2. ~(k < Len(T))
        BY <1>4, <2>3, <4>1, UnsentNext
      <4> QED
        BY <2>3, <4>2, LenProperties DEF Unsent
    <3> QED
      BY <3>1
  <2>5. (seen[t] \o <<>>) \o <<>> = Wired(T)[k]
    BY <1>2, <2>3 DEF Stage
  <2>6. seen[t] = Wire(T)
    <3>1. seen[t] \in Seq(Chr)
      BY <1>1 DEF Writes
    <3>2. seen[t] \o <<>> = seen[t]
      BY <3>1, Plain
    <3> QED
      BY <2>4, <2>5, <3>2 DEF Wire
  <2>7. Right(p, Wire(T))
    BY <2>2, TextArrives
  <2> QED
    BY <2>1, <2>6, <2>7
<1> QED
  BY <1>3, <1>4

(* However the tasks are preempted, what is printed arrives.               *)
THEOREM PrintsDoArrive == UartSpec => []PrintsArrive
BY UartInvInit, UartInvNext, UartSafe, PTL DEF UartSpec

-----------------------------------------------------------------------------

(* What the library and the serial line have to show, whichever part runs. *)
TextInv == LibcRight /\ UartInv

(* Nothing was called and nothing printed in the beginning.                *)
LEMMA TextInvInit == PartsInit => TextInv
<1> SUFFICES ASSUME PartsInit PROVE TextInv
  OBVIOUS
<1>1. LibcInit /\ UartInit
  BY DEF PartsInit
<1> QED
  BY <1>1, LibcRightInit, UartInvInit DEF TextInv

(* A step of another part leaves both alone.                               *)
LEMMA TextInvSame == TextInv /\ UNCHANGED libcVars /\ UNCHANGED uartVars => TextInv'
<1> SUFFICES ASSUME TextInv, UNCHANGED libcVars, UNCHANGED uartVars PROVE TextInv'
  OBVIOUS
<1>1. LibcRight'
  BY LibcRightNext DEF TextInv
<1>2. UartInv'
  BY UartInvNext DEF TextInv
<1> QED
  BY <1>1, <1>2 DEF TextInv

(* Whichever part of the kernel runs, results stay right and texts on      *)
(* their way.                                                              *)
LEMMA TextInvNext == TextInv /\ [PartsNext]_partsVars => TextInv'
<1> SUFFICES ASSUME TextInv, [PartsNext]_partsVars PROVE TextInv'
  OBVIOUS
<1>1. \/ LibcNext /\ UNCHANGED uartVars
      \/ UartNext /\ UNCHANGED libcVars
      \/ UNCHANGED libcVars /\ UNCHANGED uartVars
  BY Zenon DEF PartsNext, partsVars
<1>2. CASE LibcNext /\ UNCHANGED uartVars
  <2>1. LibcRight'
    BY <1>2, LibcRightNext DEF TextInv
  <2>2. UartInv'
    BY <1>2, UartInvNext DEF TextInv
  <2> QED
    BY <2>1, <2>2 DEF TextInv
<1>3. CASE UartNext /\ UNCHANGED libcVars
  <2>1. LibcRight'
    BY <1>3, LibcRightNext DEF TextInv
  <2>2. UartInv'
    BY <1>3, UartInvNext DEF TextInv
  <2> QED
    BY <2>1, <2>2 DEF TextInv
<1>4. CASE UNCHANGED libcVars /\ UNCHANGED uartVars
  BY <1>4, TextInvSame
<1> QED
  BY <1>1, <1>2, <1>3, <1>4

(* itoa, print, fos_strcmp, fos_memcpy, fos_strlen, fos_memchr and         *)
(* uiplib_ipaddrconv compute what their callers take them to, for every    *)
(* argument, and what uart_print_str, uart_print_short and uart_print_long *)
(* are asked to send is what the line sees, whoever preempts whom.         *)
THEOREM TextArrivesRight == FairParts => []TextIsRight
<1>1. TextInv => TextIsRight
  <2> SUFFICES ASSUME TextInv PROVE TextIsRight
    OBVIOUS
  <2>1. LibcIsRight /\ MemoryIsRight
    BY DEF TextInv, LibcRight
  <2>2. PrintsArrive
    BY UartSafe DEF TextInv
  <2> QED
    BY <2>1, <2>2 DEF TextIsRight
<1> QED
  BY <1>1, TextInvInit, TextInvNext, PTL DEF FairParts
=============================================================================
