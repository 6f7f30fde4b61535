---------------------------- MODULE UipAppsProofs ----------------------------
(***************************************************************************)
(* The applications of uIP for any sizes of their buffers, any inputs and  *)
(* any answers of their peers.                                             *)
(***************************************************************************)
EXTENDS MCUipApps, SequenceTheorems, FiniteSetTheorems, WellFoundedInduction, TLAPS

(***************************************************************************)
(* The mail client                                                         *)
(***************************************************************************)

(* Sequences written out or joined                                        *)
LEMMA Joined == ASSUME NEW S, NEW a \in Seq(S), NEW b \in Seq(S)
  PROVE (a \o b) \in Seq(S) /\ Len(a \o b) = Len(a) + Len(b)
BY ConcatProperties

(* Elements of a sequence are in its set.                                  *)
LEMMA ElementIn == ASSUME NEW S, NEW s \in Seq(S), NEW i \in 1 .. Len(s) PROVE s[i] \in S
BY ElementOfSeq

(* Sequences that are written out, and their lengths.                      *)
LEMMA LiteralSeq == ASSUME NEW S, NEW s1 \in S, NEW s2 \in S, NEW s3 \in S, NEW s4 \in S
  PROVE <<s1,s2,s3,s4>> \in Seq(S) /\ Len(<<s1,s2,s3,s4>>) = 4 /\ <<s1>> \in Seq(S) /\ Len(<<s1>>) = 1
    /\ <<s1,s2>> \in Seq(S) /\ Len(<<s1,s2>>) = 2
OBVIOUS
(* The dialogue has six or seven steps; no error number of theirs is that  *)
(* of success or of a lost connection.                                     *)
LEMMA MailSteps ==
    ASSUME NEW c \in BOOLEAN
    PROVE  /\ Len(Mail(c)) = IF c THEN 7 ELSE 6
           /\ \A i \in 1 .. Len(Mail(c)) : Mail(c)[i].error \in 2 .. 8
<1> DEFINE last == Step(IF c THEN 14 ELSE 11, {"220", "250"}, 8)
           R == {Step(0, {"220"}, 2), Step(3, {"220", "250"}, 3), Step(3, {"220", "250"}, 4),
                 Step(3, {"220", "250"}, 5), Step(3, {"220", "250"}, 6), Step(1, {"354"}, 7), last}
           head == <<Step(0, {"220"}, 2), Step(3, {"220", "250"}, 3), Step(3, {"220", "250"}, 4),
                       Step(3, {"220", "250"}, 5)>>
           mid == IF c THEN <<Step(3, {"220", "250"}, 6)>> ELSE <<>>
           tail == <<Step(1, {"354"}, 7), last>>
<1>1. \A n, w, e : Step(n, w, e).error = e
  BY DEF Step
<1> HIDE DEF last
<1>2. /\ Step(0, {"220"}, 2) \in R /\ Step(3, {"220", "250"}, 3) \in R /\ Step(3, {"220", "250"}, 4) \in R
      /\ Step(3, {"220", "250"}, 5) \in R /\ Step(3, {"220", "250"}, 6) \in R /\ Step(1, {"354"}, 7) \in R
      /\ last \in R
  BY Zenon
<1>3. \A r \in R : r.error \in 2 .. 8
  <2>1. last.error = 8
    BY <1>1 DEF last
  <2>2. \A r \in R : r.error \in {2, 3, 4, 5, 6, 7, 8}
    BY <1>1, <2>1
  <2> QED
    BY <2>2
<1> HIDE DEF R
<1>4. head \in Seq(R) /\ Len(head) = 4
  BY <1>2, LiteralSeq, Zenon
<1>5. mid \in Seq(R) /\ Len(mid) = IF c THEN 1 ELSE 0
  <2>1. <<>> \in Seq(R) /\ Len(<<>>) = 0 OBVIOUS
  <2>2. <<Step(3, {"220", "250"}, 6)>> \in Seq(R) /\ Len(<<Step(3, {"220", "250"}, 6)>>) = 1
    BY <1>2, LiteralSeq, Zenon
  <2>3. c => mid = <<Step(3, {"220", "250"}, 6)>>
    BY Zenon DEF mid
  <2>4. ~c => mid = <<>>
    BY Zenon DEF mid
  <2> HIDE DEF mid
  <2>5. c => mid \in Seq(R) /\ Len(mid) = 1
    BY <2>2, <2>3, Zenon
  <2>6. ~c => mid \in Seq(R) /\ Len(mid) = 0
    BY <2>1, <2>4, Zenon
  <2> QED BY <2>5, <2>6
<1>6. tail \in Seq(R) /\ Len(tail) = 2
  BY <1>2, LiteralSeq, Zenon
<1> HIDE DEF head, mid, tail
<1>7. (head \o mid) \in Seq(R) /\ Len(head \o mid) = Len(head) + Len(mid)
  BY <1>4, <1>5, Joined, Zenon
<1>8. ((head \o mid) \o tail) \in Seq(R) /\ Len((head \o mid) \o tail) = Len(head \o mid) + Len(tail)
  BY <1>6, <1>7, Joined, Zenon
<1>9. Mail(c) = (head \o mid) \o tail
  BY Zenon DEF Mail, head, mid, tail, last
<1>10. Mail(c) \in Seq(R) /\ Len(Mail(c)) = IF c THEN 7 ELSE 6
  <2>1. Len((head \o mid) \o tail) = IF c THEN 7 ELSE 6
    BY <1>4, <1>5, <1>6, <1>7, <1>8
  <2> QED BY <2>1, <1>8, <1>9, Zenon
<1>11. \A i \in 1 .. Len(Mail(c)) : Mail(c)[i] \in R
  BY <1>10, ElementIn, Zenon
<1> QED
  BY <1>10, <1>11, <1>3, Zenon

(* As long as nothing is reported, every reply so far let the dialogue go  *)
(* on, one for each step that is behind the thread.                        *)
Took == \A i \in 1 .. Len(said) : said[i] \in Dialogue[i].wants
SmtpInv ==
    /\ cc \in BOOLEAN
    /\ stage \in 1 .. Len(Dialogue) + 1
    /\ said \in Seq(Replies)
    /\ reports \in Seq(Nat)
    /\ reports = <<>> /\ smtpconn = "up" => Len(said) = stage - 1 /\ Took
    /\ FirstReportIsTrue

(* smtp_done is called with what is reported; the first call stays first. *)
LEMMA ReportKeeps ==
    ASSUME reports \in Seq(Nat), NEW e \in Nat, Report(e)
    PROVE  /\ reports' \in Seq(Nat) /\ reports' # <<>>
           /\ reports # <<>> => reports'[1] = reports[1]
           /\ reports = <<>> => reports'[1] = e
<1>1. MaxReports \in Nat /\ 0 < MaxReports
  BY SmtpAssumption DEF SmtpAssumption
<1>2. CASE reports = <<>>
  <2>1. Len(reports) = 0 /\ reports' = Append(reports, e)
    BY <1>1, <1>2 DEF Report
  <2> QED
    BY <1>2, <2>1
<1>3. CASE reports # <<>>
  <2>1. CASE reports' = reports
    BY <1>3, <2>1
  <2>2. CASE reports' = Append(reports, e)
    BY <1>3, <2>2
  <2> QED
    BY <2>1, <2>2 DEF Report
<1> QED
  BY <1>2, <1>3

(* What FirstReportIsTrue asks of reports is asked of the first alone. *)
LEMMA FirstKept ==
    ASSUME FirstReportIsTrue, cc' = cc, said' = said, reports # <<>>,
           reports' # <<>> => reports'[1] = reports[1]
    PROVE  FirstReportIsTrue'
BY DEF FirstReportIsTrue, Dialogue

(* The dialogue of smtp.c has steps, and each names the report for a wrong *)
(* reply.                                                                  *)
LEMMA DialogueSteps ==
    ASSUME cc \in BOOLEAN
    PROVE  /\ Len(Dialogue) \in Nat \ {0}
           /\ \A i \in 1 .. Len(Dialogue) : Dialogue[i].error \in Nat \ {0, 1}
<1>1. Len(Dialogue) \in {6, 7}
  BY MailSteps DEF Dialogue
<1>2. \A i \in 1 .. Len(Dialogue) : Dialogue[i].error \in 2 .. 8
  BY MailSteps DEF Dialogue
<1>3. \A e \in 2 .. 8 : e \in Nat \ {0, 1}
  OBVIOUS
<1>4. \A n \in {6, 7} : n \in Nat \ {0}
  OBVIOUS
<1> QED
  BY <1>1, <1>2, <1>3, <1>4, Zenon

(* FirstReportIsTrue: the first thing smtp_done tells is true.             *)
THEOREM MailReported == SmtpSpec => []FirstReportIsTrue
<1>1. SmtpInit => SmtpInv
  <2> SUFFICES ASSUME SmtpInit PROVE SmtpInv
    OBVIOUS
  <2>1. Len(Dialogue) \in Nat \ {0}
    BY DialogueSteps DEF SmtpInit
  <2> QED
    BY <2>1 DEF SmtpInit, SmtpInv, FirstReportIsTrue
<1>2. SmtpInv /\ [SmtpNext]_smtpVars => SmtpInv'
  <2> SUFFICES ASSUME SmtpInv, [SmtpNext]_smtpVars PROVE SmtpInv'
    OBVIOUS
  <2> USE DEF SmtpInv
  <2>0. Len(Dialogue) \in Nat \ {0} /\ \A i \in 1 .. Len(Dialogue) : Dialogue[i].error \in Nat \ {0, 1}
    BY DialogueSteps
  <2>s. cc' = cc => Dialogue' = Dialogue
    BY DEF Dialogue
  <2>1. CASE UNCHANGED smtpVars
    BY <2>1, <2>s DEF smtpVars, FirstReportIsTrue, Took
  <2>2. CASE SmtpSend
    <3>1. CASE UNCHANGED smtpVars
      BY <3>1, <2>1
    <3>2. CASE ~UNCHANGED smtpVars
      <4>1. cc' \in BOOLEAN /\ stage' = 1 /\ said' = <<>> /\ reports' = <<>>
        BY <2>2, <3>2 DEF SmtpSend
      <4>2. Len(Dialogue') \in Nat \ {0}
        <5>1. Len(Mail(cc')) = IF cc' THEN 7 ELSE 6
          BY <4>1, MailSteps
        <5>2. Len(Dialogue') \in {6, 7}
          BY <5>1 DEF Dialogue
        <5>3. \A n \in {6, 7} : n \in Nat \ {0}
          OBVIOUS
        <5> QED
          BY <5>2, <5>3, Zenon
      <4> QED
        BY <4>1, <4>2 DEF FirstReportIsTrue, Took
    <3> QED
      BY <3>1, <3>2
  <2>3. CASE SmtpAcked
    <3>1. cc' = cc /\ said' = said /\ smtpconn' = smtpconn /\ smtpconn = "up"
      BY <2>3 DEF SmtpAcked
    <3>2. CASE Quitting
      <4>1. Report(0) /\ stage' = 1
        BY <2>3, <3>2 DEF SmtpAcked, Restarted
      <4>2. /\ reports' \in Seq(Nat) /\ reports' # <<>>
            /\ reports # <<>> => reports'[1] = reports[1]
            /\ reports = <<>> => reports'[1] = 0
        BY <4>1, ReportKeeps
      <4>3. CASE reports # <<>>
        BY <2>0, <2>s, <3>1, <4>1, <4>2, <4>3, FirstKept
      <4>4. CASE reports = <<>>
        <5>1. Took /\ Len(said) = Len(Dialogue)
          BY <2>0, <3>1, <3>2, <4>4 DEF Quitting
        <5>2. FirstReportIsTrue'
          BY <2>s, <3>1, <4>2, <4>4, <5>1 DEF FirstReportIsTrue, Took
        <5> QED
          BY <2>0, <2>s, <3>1, <4>1, <4>2, <5>2
      <4> QED
        BY <4>3, <4>4
    <3>3. CASE ~Quitting
      <4>1. stage' = stage /\ reports' = reports
        BY <2>3, <3>3 DEF SmtpAcked
      <4> QED
        BY <2>s, <3>1, <4>1 DEF FirstReportIsTrue, Took
    <3> QED
      BY <3>2, <3>3
  <2>4. CASE \E r \in Replies : SmtpReply(r)
    <3>0. PICK r \in Replies : SmtpReply(r)
      BY <2>4
    <3>1. cc' = cc /\ smtpconn = "up" /\ stage \in 1 .. Len(Dialogue)
      BY <2>0, <3>0 DEF SmtpReply, Quitting
    <3>2. said' = IF reports = <<>> THEN Append(said, r) ELSE said
      BY <3>0 DEF SmtpReply
    <3>3. said' \in Seq(Replies)
      BY <3>2
    <3>4. CASE r \in Dialogue[stage].wants
      <4>1. stage' = stage + 1 /\ reports' = reports
        BY <3>0, <3>4 DEF SmtpReply
      <4>2. CASE reports # <<>>
        BY <2>0, <2>s, <3>1, <3>2, <3>3, <4>1, <4>2, FirstKept
      <4>3. CASE reports = <<>>
        <5>1. /\ Len(said') = Len(said) + 1 /\ said'[Len(said) + 1] = r
              /\ \A i \in 1 .. Len(said) : said'[i] = said[i]
          BY <3>2, <4>3
        <5>2. Len(said) = stage - 1 /\ Took
          BY <3>1, <4>3
        <5>3. Took' /\ Len(said') = stage' - 1
          BY <2>s, <3>1, <3>4, <4>1, <5>1, <5>2 DEF Took
        <5> QED
          BY <2>0, <2>s, <3>1, <3>3, <4>1, <4>3, <5>3 DEF FirstReportIsTrue
      <4> QED
        BY <4>2, <4>3
    <3>5. CASE r \notin Dialogue[stage].wants
      <4> DEFINE e == Dialogue[stage].error
      <4>1. smtpconn' = "closing" /\ Report(e) /\ stage' = 1
        BY <3>0, <3>5 DEF SmtpReply, Restarted
      <4>2. e \in Nat \ {0, 1}
        BY <2>0, <3>1
      <4>3. /\ reports' \in Seq(Nat) /\ reports' # <<>>
            /\ reports # <<>> => reports'[1] = reports[1]
            /\ reports = <<>> => reports'[1] = e
        <5> HIDE DEF e
        <5> QED
          BY <4>1, <4>2, ReportKeeps
      <4>4. CASE reports # <<>>
        BY <2>0, <2>s, <3>1, <3>2, <3>3, <4>1, <4>3, <4>4, FirstKept
      <4>5. CASE reports = <<>>
        <5>1. Len(said') = stage /\ said'[stage] = r /\ said' # <<>>
          BY <3>1, <3>2, <4>5
        <5>2. FirstReportIsTrue'
          BY <2>s, <3>1, <3>5, <4>2, <4>3, <4>5, <5>1 DEF FirstReportIsTrue
        <5> QED
          BY <2>0, <2>s, <3>1, <3>3, <4>1, <4>3, <5>2
      <4> QED
        BY <4>4, <4>5
    <3> QED
      BY <3>4, <3>5
  <2>5. CASE SmtpClosed
    BY <2>5, <2>s DEF SmtpClosed, FirstReportIsTrue, Took
  <2>6. CASE SmtpGone
    <3>1. Report(1) /\ cc' = cc /\ said' = said /\ stage' = stage /\ smtpconn' = "none"
      BY <2>6 DEF SmtpGone
    <3>2. /\ reports' \in Seq(Nat) /\ reports' # <<>>
          /\ reports # <<>> => reports'[1] = reports[1]
          /\ reports = <<>> => reports'[1] = 1
      BY <3>1, ReportKeeps
    <3>3. FirstReportIsTrue'
      <4>1. CASE reports # <<>>
        BY <3>1, <3>2, <4>1, FirstKept
      <4>2. CASE reports = <<>>
        BY <3>2, <4>2 DEF FirstReportIsTrue
      <4> QED
        BY <4>1, <4>2
    <3> QED
      BY <2>s, <3>1, <3>2, <3>3
  <2> QED
    BY <2>1, <2>2, <2>3, <2>4, <2>5, <2>6 DEF SmtpNext
<1>3. SmtpInv => FirstReportIsTrue
  BY DEF SmtpInv
<1> QED
  BY <1>1, <1>2, <1>3, PTL DEF SmtpSpec

(***************************************************************************)
(* Protothreads                                                            *)
(***************************************************************************)

(* The statements of the parent that run the child.                        *)
RunsChild(i) == i \in 1 .. Len(fn.parent) /\ fn.parent[i] \in {"spawn", "run"}
HasRun == Contains(fn.parent, "run")
(* What a thread left at lc has passed.                                    *)
Behind(l) == IF l = 0 THEN 0 ELSE l - 1
Codes == {"none", "WAITING", "ENDED", "EXITED"}
FrameSet(t) == [thread : {t}, at : Nat, jumped : BOOLEAN, yieldFlag : {0, 1}, got : Codes]

PtTyped ==
    /\ fn \in Bodies
    /\ lc \in [parent : Nat, child : Nat] /\ passed \in [parent : Nat, child : Nat]
    /\ lc.parent <= Len(fn.parent) /\ lc.child <= Len(fn.child)
    /\ fromStart \in BOOLEAN

(* No call runs.                                                           *)
Outside ==
    /\ frames = <<>>
    /\ passed.parent = Behind(lc.parent) /\ passed.child = Behind(lc.child)
    /\ RunsChild(lc.parent) => fromStart
    /\ HasRun /\ lc.child # 0 => RunsChild(lc.parent)

(* The call p of the parent runs.                                          *)
InParent(p) ==
    /\ frames = <<p>> /\ p \in FrameSet("parent") /\ p.at \in 1 .. Len(fn.parent) + 1
    /\ passed.parent = p.at - 1 /\ passed.child = Behind(lc.child)
    /\ (p.jumped \/ p.got # "none") /\ RunsChild(p.at) => fromStart
    /\ HasRun /\ lc.child # 0 => RunsChild(p.at) /\ (p.jumped \/ p.got # "none")
    /\ p.got # "none" => RunsChild(p.at) /\ lc.parent = p.at
    /\ p.got \in {"ENDED", "EXITED"} => lc.child = 0

(* The call c of the child runs in the call p of the parent.               *)
InChild(c, p) ==
    /\ frames = <<c, p>> /\ c \in FrameSet("child") /\ p \in FrameSet("parent")
    /\ c.at \in 1 .. Len(fn.child) + 1 /\ c.got = "none"
    /\ RunsChild(p.at) /\ lc.parent = p.at
    /\ passed.parent = p.at - 1 /\ passed.child = c.at - 1
    /\ fromStart

PtInv == PtTyped /\ (Outside \/ (\E p : InParent(p)) \/ (\E c, p : InChild(c, p)))

(* Stacks of one and of two protothreads.                                  *)
LEMMA Frames12 ==
    ASSUME NEW x, NEW y, NEW z
    PROVE  /\ Head(<<x>>) = x /\ Head(<<x, y>>) = x
           /\ <<x>> # <<>> /\ <<x, y>> # <<>>
           /\ Len(<<x>>) = 1 /\ Len(<<x, y>>) = 2 /\ <<x, y>>[2] = y
<1>1. Head(<<x>>) = x /\ Head(<<x, y>>) = x
  OBVIOUS
<1>2. <<x>> # <<>> /\ <<x, y>> # <<>>
  OBVIOUS
<1>3. Len(<<x>>) = 1 /\ Len(<<x, y>>) = 2
  OBVIOUS
<1>4. <<x, y>>[2] = y
  OBVIOUS
<1> QED
  BY <1>1, <1>2, <1>3, <1>4, Zenon

(* A call whose frame changes, and a call inside another                   *)
LEMMA FramesJoined ==
    ASSUME NEW x, NEW y, NEW z
    PROVE  /\ <<z>> \o Tail(<<x>>) = <<z>>
           /\ <<z>> \o Tail(<<x, y>>) = <<z, y>>
           /\ <<z>> \o <<x>> = <<z, x>>
<1>1. Tail(<<x>>) = <<>> /\ Tail(<<x, y>>) = <<y>>
  OBVIOUS
<1>2. <<z>> \o <<>> = <<z>>
  OBVIOUS
<1>3. ASSUME NEW w PROVE <<z>> \o <<w>> = <<z, w>>
  <2> DEFINE S == {z, w}
  <2>1. <<z>> \in Seq(S) /\ <<w>> \in Seq(S) /\ <<z, w>> \in Seq(S)
    OBVIOUS
  <2>2. Len(<<z>>) = 1 /\ Len(<<w>>) = 1 /\ Len(<<z, w>>) = 2 /\ <<z>>[1] = z /\ <<w>>[1] = w
    OBVIOUS
  <2>3. <<z, w>>[1] = z /\ <<z, w>>[2] = w
    OBVIOUS
  <2> DEFINE t == <<z>> \o <<w>>
  <2>4. /\ t \in Seq(S) /\ Len(t) = 2
        /\ \A i \in 1 .. 2 : t[i] = IF i <= 1 THEN <<z>>[i] ELSE <<w>>[i - 1]
    BY <2>1, <2>2, ConcatProperties
  <2>5. t[1] = z /\ t[2] = w
    BY <2>2, <2>4
  <2> HIDE DEF t, S
  <2>6. \A i \in 1 .. 2 : t[i] = <<z, w>>[i]
    <3>1. \A i \in 1 .. 2 : i = 1 \/ i = 2
      OBVIOUS
    <3> QED
      BY <2>3, <2>5, <3>1, Zenon
  <2>7. t = <<z, w>>
    BY <2>1, <2>2, <2>4, <2>6, SeqEqual
  <2> QED
    BY <2>7 DEF t
<1> QED
  BY <1>1, <1>2, <1>3, Zenon

(* A call that begins, one that goes on behind its statement, and one that *)
(* gets an answer of the child.                                            *)
GoneOn(t, at, y) == [Frame(t, at, FALSE) EXCEPT !.yieldFlag = y]
Returned(p, code) == [p EXCEPT !.got = code]

(* The fields of a frame.                                                  *)
LEMMA FrameFields ==
    ASSUME NEW t, NEW at \in Nat, NEW jumped \in BOOLEAN
    PROVE  /\ Frame(t, at, jumped) \in FrameSet(t)
           /\ Frame(t, at, jumped).at = at /\ Frame(t, at, jumped).got = "none"
           /\ Frame(t, at, jumped).jumped = jumped
BY DEF Frame, FrameSet, Codes

(* PT_BEGIN: a thread starts at its first statement or jumps to where it   *)
(* waits.                                                                  *)
LEMMA BeginFields ==
    ASSUME NEW t, NEW l \in Nat
    PROVE  /\ Begin(t, l) \in FrameSet(t) /\ Begin(t, l).got = "none"
           /\ Begin(t, l).at = IF l = 0 THEN 1 ELSE l
           /\ Begin(t, l).jumped = (l # 0)
BY DEF Begin, Frame, FrameSet, Codes

(* A frame that goes on to another statement has run past its label.       *)
LEMMA FrameGoneOn ==
    ASSUME NEW t, NEW at \in Nat, NEW y \in {0, 1}
    PROVE  /\ GoneOn(t, at, y) \in FrameSet(t) /\ GoneOn(t, at, y).at = at
           /\ GoneOn(t, at, y).jumped = FALSE /\ GoneOn(t, at, y).got = "none"
BY DEF Frame, FrameSet, Codes, GoneOn

(* A frame whose child has returned keeps its place.                       *)
LEMMA FrameReturned ==
    ASSUME NEW t, NEW p \in FrameSet(t), NEW code \in Codes
    PROVE  /\ Returned(p, code) \in FrameSet(t) /\ Returned(p, code).at = p.at
           /\ Returned(p, code).jumped = p.jumped /\ Returned(p, code).got = code
BY DEF FrameSet, Returned

(* lc and passed of one thread change, those of the other do not.          *)
LEMMA PairChanged ==
    ASSUME NEW f \in [parent : Nat, child : Nat], NEW v \in Nat
    PROVE  /\ [f EXCEPT !["parent"] = v] \in [parent : Nat, child : Nat]
           /\ [f EXCEPT !["parent"] = v].parent = v /\ [f EXCEPT !["parent"] = v].child = f.child
           /\ [f EXCEPT !["child"] = v] \in [parent : Nat, child : Nat]
           /\ [f EXCEPT !["child"] = v].child = v /\ [f EXCEPT !["child"] = v].parent = f.parent
OBVIOUS

(* The statements of the two threads are statements.                       *)
LEMMA BodiesTyped ==
    ASSUME fn \in Bodies
    PROVE  fn.parent \in Seq(Statements) /\ Len(fn.parent) \in Nat
           /\ fn.child \in Seq({"plain", "wait", "restart", "exit"}) /\ Len(fn.child) \in Nat
<1>1. fn.parent \in Seq(Statements) /\ fn.child \in Seq({"plain", "wait", "restart", "exit"})
  BY BodiesAssumption, Zenon DEF BodiesAssumption
<1> QED
  BY <1>1, LenProperties

(* When the parent runs it is the only frame.                              *)
LEMMA ParentTop ==
    ASSUME NEW p, InParent(p)
    PROVE  /\ Top = p /\ Me = "parent" /\ Len(frames) = 1 /\ frames # <<>>
           /\ p.at \in Nat /\ p.jumped \in BOOLEAN /\ p.yieldFlag \in {0, 1} /\ p.got \in Codes
           /\ \A z : <<z>> \o Tail(frames) = <<z>> /\ <<z>> \o frames = <<z, p>>
<1>1. p.thread = "parent" /\ p.at \in Nat /\ p.jumped \in BOOLEAN /\ p.yieldFlag \in {0, 1} /\ p.got \in Codes
  BY DEF InParent, FrameSet
<1>2. frames = <<p>>
  BY DEF InParent
<1> QED
  BY <1>1, <1>2, Frames12, FramesJoined, Zenon DEF Top, Me

(* When the child runs its parent is below.                                *)
LEMMA ChildTop ==
    ASSUME NEW c, NEW p, InChild(c, p)
    PROVE  /\ Top = c /\ Me = "child" /\ Len(frames) = 2 /\ frames # <<>> /\ frames[2] = p
           /\ c.at \in Nat /\ c.jumped \in BOOLEAN /\ c.yieldFlag \in {0, 1}
           /\ \A z : <<z>> \o Tail(frames) = <<z, p>>
<1>1. c.thread = "child" /\ c.at \in Nat /\ c.jumped \in BOOLEAN /\ c.yieldFlag \in {0, 1}
  BY DEF InChild, FrameSet
<1>2. frames = <<c, p>>
  BY DEF InChild
<1>3. Head(frames) = c /\ Len(frames) = 2 /\ frames # <<>>
  BY <1>2, Frames12, Zenon
<1>4. frames[2] = p
  BY <1>2
<1>5. ASSUME NEW z PROVE <<z>> \o Tail(frames) = <<z, p>>
  <2>1. Tail(frames) = <<p>>
    BY <1>2
  <2>2. <<z>> \o <<p>> = <<z, p>>
    BY FramesJoined, Zenon
  <2> QED
    BY <2>1, <2>2, Zenon
<1> QED
  BY <1>1, <1>3, <1>4, <1>5, Zenon DEF Top, Me

(* The parent goes on behind its statement.                                *)
LEMMA ParentPasses ==
    ASSUME PtTyped, NEW p, InParent(p), p.at <= Len(fn.parent), Pass, fn' = fn,
           lc' = lc \/ lc' = [lc EXCEPT !["parent"] = p.at],
           RunsChild(p.at) => p.got \in {"ENDED", "EXITED"}
    PROVE  PtTyped' /\ \E q : InParent(q)'
<1> DEFINE q == GoneOn("parent", p.at + 1, p.yieldFlag)
<1>0. /\ Len(fn.parent) \in Nat /\ Len(fn.child) \in Nat
      /\ Top = p /\ Me = "parent" /\ p.at \in Nat /\ p.yieldFlag \in {0, 1}
      /\ \A z : <<z>> \o Tail(frames) = <<z>>
  BY BodiesTyped, ParentTop DEF PtTyped
<1>1. q \in FrameSet("parent") /\ q.at = p.at + 1 /\ q.jumped = FALSE /\ q.got = "none"
  <2>1. p.at + 1 \in Nat /\ p.yieldFlag \in {0, 1}
    BY <1>0
  <2> QED
    BY <2>1, FrameGoneOn, ZenonT(40)
<1>2. frames' = <<q>> /\ fromStart' = fromStart /\ passed' = [passed EXCEPT !["parent"] = p.at]
  BY <1>0, Zenon DEF Pass, GoneOn
<1> HIDE DEF q
<1>3. /\ passed' \in [parent : Nat, child : Nat]
      /\ passed'.parent = p.at /\ passed'.child = passed.child
  BY <1>0, <1>2, PairChanged DEF PtTyped
<1>4. /\ lc' \in [parent : Nat, child : Nat] /\ lc'.child = lc.child
      /\ lc'.parent <= Len(fn.parent)
  BY <1>0, PairChanged DEF PtTyped
<1>5. PtTyped'
  BY <1>2, <1>3, <1>4 DEF PtTyped
<1>6. HasRun => lc.child = 0
  BY DEF InParent
<1>7. InParent(q)'
  BY <1>0, <1>1, <1>2, <1>3, <1>4, <1>6 DEF InParent, HasRun, Behind
<1> QED
  BY <1>5, <1>7

(* The parent leaves at its statement.                                     *)
LEMMA ParentBlocks ==
    ASSUME PtTyped, NEW p, InParent(p), p.at <= Len(fn.parent), NEW code, Block(code), fn' = fn,
           lc' = [lc EXCEPT !["parent"] = p.at] \/ (lc' = lc /\ p.got # "none"),
           RunsChild(p.at) => p.got # "none"
    PROVE  PtTyped' /\ Outside'
<1>0. /\ Len(fn.parent) \in Nat /\ Len(fn.child) \in Nat
      /\ Len(frames) = 1 /\ p.at \in Nat \ {0}
  BY BodiesTyped, ParentTop DEF PtTyped, InParent
<1>1. frames' = <<>> /\ fromStart' = fromStart /\ passed' = passed
  BY <1>0 DEF Block, LeaveWith
<1>2. lc' \in [parent : Nat, child : Nat] /\ lc'.child = lc.child /\ lc'.parent = p.at
  BY <1>0, PairChanged DEF PtTyped, InParent
<1>3. PtTyped'
  BY <1>1, <1>2 DEF PtTyped
<1>4. Outside'
  BY <1>0, <1>1, <1>2 DEF Outside, InParent, HasRun, Behind, RunsChild
<1> QED
  BY <1>3, <1>4

(* The parent ends.                                                        *)
LEMMA ParentLeaves ==
    ASSUME PtTyped, NEW p, InParent(p), NEW code, Leave(code), fn' = fn, ~RunsChild(p.at)
    PROVE  PtTyped' /\ Outside'
<1>0. /\ Len(fn.parent) \in Nat /\ Len(fn.child) \in Nat
      /\ Len(frames) = 1 /\ Me = "parent"
  BY BodiesTyped, ParentTop DEF PtTyped
<1>1. /\ frames' = <<>> /\ fromStart' = fromStart
      /\ passed' = [passed EXCEPT !["parent"] = 0] /\ lc' = [lc EXCEPT !["parent"] = 0]
  BY <1>0 DEF Leave, LeaveWith
<1>2. /\ lc' \in [parent : Nat, child : Nat] /\ lc'.child = lc.child /\ lc'.parent = 0
      /\ passed' \in [parent : Nat, child : Nat] /\ passed'.child = passed.child /\ passed'.parent = 0
  BY <1>1, PairChanged DEF PtTyped
<1>3. PtTyped'
  BY <1>0, <1>1, <1>2 DEF PtTyped
<1>4. Outside'
  BY <1>0, <1>1, <1>2 DEF Outside, InParent, HasRun, Behind, RunsChild
<1> QED
  BY <1>3, <1>4

(* The child goes on behind its statement.                                 *)
LEMMA ChildPasses ==
    ASSUME PtTyped, NEW c, NEW p, InChild(c, p), c.at <= Len(fn.child), Pass, fn' = fn,
           lc' = lc \/ lc' = [lc EXCEPT !["child"] = c.at]
    PROVE  PtTyped' /\ \E q : InChild(q, p)'
<1> DEFINE q == GoneOn("child", c.at + 1, c.yieldFlag)
<1>0. /\ Len(fn.parent) \in Nat /\ Len(fn.child) \in Nat
      /\ Top = c /\ Me = "child" /\ c.at \in Nat /\ c.yieldFlag \in {0, 1}
      /\ \A z : <<z>> \o Tail(frames) = <<z, p>>
  BY BodiesTyped, ChildTop DEF PtTyped
<1>1. q \in FrameSet("child") /\ q.at = c.at + 1 /\ q.jumped = FALSE /\ q.got = "none"
  <2>1. c.at + 1 \in Nat /\ c.yieldFlag \in {0, 1}
    BY <1>0
  <2> QED
    BY <2>1, FrameGoneOn, Zenon
<1>2. frames' = <<q, p>> /\ fromStart' = fromStart /\ passed' = [passed EXCEPT !["child"] = c.at]
  BY <1>0, Zenon DEF Pass, GoneOn
<1> HIDE DEF q
<1>3. /\ passed' \in [parent : Nat, child : Nat]
      /\ passed'.child = c.at /\ passed'.parent = passed.parent
  BY <1>0, <1>2, PairChanged DEF PtTyped
<1>4. /\ lc' \in [parent : Nat, child : Nat] /\ lc'.parent = lc.parent
      /\ lc'.child <= Len(fn.child)
  BY <1>0, PairChanged DEF PtTyped
<1>5. PtTyped'
  BY <1>2, <1>3, <1>4 DEF PtTyped
<1>7. InChild(q, p)'
  BY <1>0, <1>1, <1>2, <1>3, <1>4, SMTT(40) DEF InChild, RunsChild
<1> QED
  BY <1>5, <1>7

(* The child waits, and returns that to the parent.                        *)
LEMMA ChildBlocks ==
    ASSUME PtTyped, NEW c, NEW p, InChild(c, p), c.at <= Len(fn.child), Block("WAITING"), fn' = fn,
           lc' = [lc EXCEPT !["child"] = c.at]
    PROVE  PtTyped' /\ \E q : InParent(q)'
<1> DEFINE q == Returned(p, "WAITING")
<1>0. /\ Len(fn.parent) \in Nat /\ Len(fn.child) \in Nat
      /\ Len(frames) = 2 /\ frames[2] = p /\ c.at \in Nat \ {0} /\ p \in FrameSet("parent")
  BY BodiesTyped, ChildTop DEF PtTyped, InChild
<1>1. q \in FrameSet("parent") /\ q.at = p.at /\ q.jumped = p.jumped /\ q.got = "WAITING"
  <2>1. "WAITING" \in Codes
    BY DEF Codes
  <2> QED
    BY <1>0, <2>1, FrameReturned, Zenon
<1>2. frames' = <<q>> /\ fromStart' = fromStart /\ passed' = passed
  BY <1>0 DEF Block, LeaveWith, Returned
<1> HIDE DEF q
<1>3. lc' \in [parent : Nat, child : Nat] /\ lc'.child = c.at /\ lc'.parent = lc.parent
  BY <1>0, PairChanged DEF PtTyped
<1>4. PtTyped'
  BY <1>0, <1>2, <1>3 DEF PtTyped
<1>5. InParent(q)'
  BY <1>0, <1>1, <1>2, <1>3 DEF InParent, InChild, HasRun, Behind, RunsChild
<1> QED
  BY <1>4, <1>5

(* The child restarts, exits or ends, and returns that to the parent.      *)
LEMMA ChildLeaves ==
    ASSUME PtTyped, NEW c, NEW p, InChild(c, p), NEW code \in Codes \ {"none"}, Leave(code), fn' = fn
    PROVE  PtTyped' /\ \E q : InParent(q)'
<1> DEFINE q == Returned(p, code)
<1>0. /\ Len(fn.parent) \in Nat /\ Len(fn.child) \in Nat
      /\ Len(frames) = 2 /\ frames[2] = p /\ Me = "child" /\ p \in FrameSet("parent")
  BY BodiesTyped, ChildTop DEF PtTyped, InChild
<1>1. q \in FrameSet("parent") /\ q.at = p.at /\ q.jumped = p.jumped /\ q.got = code
  <2>1. code \in Codes
    OBVIOUS
  <2> QED
    BY <1>0, <2>1, FrameReturned, Zenon
<1>2. /\ frames' = <<q>> /\ fromStart' = fromStart
      /\ passed' = [passed EXCEPT !["child"] = 0] /\ lc' = [lc EXCEPT !["child"] = 0]
  BY <1>0 DEF Leave, LeaveWith, Returned
<1> HIDE DEF q
<1>3. /\ lc' \in [parent : Nat, child : Nat] /\ lc'.child = 0 /\ lc'.parent = lc.parent
      /\ passed' \in [parent : Nat, child : Nat] /\ passed'.child = 0 /\ passed'.parent = passed.parent
  BY <1>2, PairChanged DEF PtTyped
<1>4. PtTyped'
  BY <1>0, <1>2, <1>3 DEF PtTyped
<1>5. InParent(q)'
  BY <1>0, <1>1, <1>2, <1>3 DEF InParent, InChild, HasRun, Behind, RunsChild
<1> QED
  BY <1>4, <1>5

(* The parent calls the child: from its beginning, or where it waits for   *)
(* this statement.                                                         *)
LEMMA ChildCalled ==
    ASSUME PtTyped, NEW p, InParent(p), NEW s \in {"spawn", "run"}, CallChild(s)
    PROVE  PtTyped' /\ \E c : InChild(c, p)'
<1> DEFINE child == IF s = "spawn" /\ ~p.jumped THEN 0 ELSE lc.child
           c == Begin("child", child)
<1>0. /\ Len(fn.parent) \in Nat /\ Len(fn.child) \in Nat
      /\ Top = p /\ Me = "parent" /\ p.at \in Nat /\ p.jumped \in BOOLEAN
      /\ \A z : <<z>> \o frames = <<z, p>>
  BY BodiesTyped, ParentTop DEF PtTyped
<1>1. p.at <= Len(fn.parent) /\ fn.parent[p.at] = s /\ fn' = fn /\ p.got = "none"
  BY <1>0 DEF CallChild, Here
<1>2. RunsChild(p.at) /\ (s = "run" => HasRun)
  BY <1>0, <1>1 DEF RunsChild, HasRun, Contains, InParent
<1>3. child \in Nat /\ child <= Len(fn.child) /\ (child = 0 \/ (child = lc.child /\ p.jumped /\ fromStart))
  BY <1>0, <1>1, <1>2 DEF InParent, PtTyped
<1>4. /\ lc' = [parent |-> p.at, child |-> child] /\ frames' = <<c, p>>
      /\ fromStart' = ((p.jumped /\ fromStart) \/ child = 0)
      /\ passed' = IF child = 0 THEN [passed EXCEPT !["child"] = 0] ELSE passed
  BY <1>0, Zenon DEF CallChild
<1>5. c \in FrameSet("child") /\ c.got = "none" /\ c.at = IF child = 0 THEN 1 ELSE child
  <2> HIDE DEF child
  <2> QED
    BY <1>3, BeginFields
<1> HIDE DEF child, c
<1>6. fromStart' = TRUE
  BY <1>3, <1>4
<1>7. lc' \in [parent : Nat, child : Nat] /\ lc'.child = child /\ lc'.parent = p.at
  BY <1>0, <1>3, <1>4
<1>8. /\ passed' \in [parent : Nat, child : Nat] /\ passed'.parent = passed.parent
      /\ passed'.child = Behind(child)
  <2>1. CASE child = 0
    BY <1>4, <2>1, PairChanged DEF PtTyped, Behind
  <2>2. CASE child # 0
    BY <1>3, <1>4, <2>2 DEF PtTyped, InParent
  <2> QED
    BY <2>1, <2>2
<1>9. PtTyped'
  BY <1>0, <1>1, <1>3, <1>6, <1>7, <1>8 DEF PtTyped
<1>10. PICK k : k = c
  OBVIOUS
<1>11. InChild(k, p)'
  <2>1. c.at \in 1 .. Len(fn.child) + 1 /\ passed'.child = c.at - 1
    BY <1>0, <1>3, <1>5, <1>8 DEF Behind
  <2>2. RunsChild(p.at)' /\ p \in FrameSet("parent") /\ passed.parent = p.at - 1
    BY <1>1, <1>2 DEF InParent, RunsChild
  <2>3. /\ frames' = <<c, p>> /\ c \in FrameSet("child") /\ c.got = "none" /\ lc'.parent = p.at
        /\ passed'.parent = p.at - 1 /\ fromStart' /\ c.at \in 1 .. Len(fn'.child) + 1
        /\ passed'.child = c.at - 1
    BY <1>1, <1>4, <1>5, <1>6, <1>7, <1>8, <2>1, <2>2
  <2> QED
    BY <1>10, <2>2, <2>3 DEF InChild
<1> QED
  BY <1>9, <1>11

(* No statement of a child runs another or yields.                         *)
LEMMA ChildStatement ==
    ASSUME PtTyped, NEW c, NEW p, InChild(c, p), NEW s, Here(s)
    PROVE  s \in {"plain", "wait", "restart", "exit"} /\ c.at <= Len(fn.child) /\ fn' = fn
<1>1. Top = c /\ Me = "child" /\ c.at \in 1 .. Len(fn.child) + 1
  BY ChildTop DEF InChild
<1>2. fn.child \in Seq({"plain", "wait", "restart", "exit"}) /\ Len(fn.child) \in Nat
  BY BodiesTyped DEF PtTyped
<1>3. c.at <= Len(fn.child) /\ fn.child[c.at] = s /\ fn' = fn
  BY <1>1 DEF Here
<1>4. fn.child[c.at] \in {"plain", "wait", "restart", "exit"}
  BY <1>1, <1>2, <1>3, ElementOfSeq
<1> QED
  BY <1>3, <1>4

(* A statement of the parent, and whether it runs the child.               *)
LEMMA ParentStatement ==
    ASSUME PtTyped, NEW p, InParent(p), NEW s, Here(s)
    PROVE  /\ Me = "parent" /\ Top = p /\ p.at <= Len(fn.parent) /\ fn' = fn
           /\ RunsChild(p.at) <=> s \in {"spawn", "run"}
<1>1. Top = p /\ Me = "parent" /\ p.at \in 1 .. Len(fn.parent) + 1
  BY ParentTop DEF InParent
<1>2. Len(fn.parent) \in Nat
  BY BodiesTyped DEF PtTyped
<1> QED
  BY <1>1, <1>2 DEF Here, RunsChild

(* A step of a call of the parent                                          *)
LEMMA ParentStep ==
    ASSUME PtTyped, NEW p, InParent(p), PtNext
    PROVE  PtInv'
<1> SUFFICES PtTyped' /\ (Outside' \/ (\E q : InParent(q)') \/ (\E c : InChild(c, p)'))
  BY DEF PtInv
<1>0. frames # <<>> /\ Top = p /\ Me = "parent" /\ Len(fn.parent) \in Nat
  BY ParentTop, BodiesTyped DEF PtTyped
<1>1. CASE Call \/ Reinit
  BY <1>0, <1>1 DEF Call, Reinit
<1>2. CASE Plain
  BY <1>2, ParentStatement, ParentPasses DEF Plain
<1>3. CASE WaitUntil
  <2>1. Here("wait") /\ lc' = [lc EXCEPT !["parent"] = p.at] /\ (Pass \/ Block("WAITING"))
    BY <1>0, <1>3, Zenon DEF WaitUntil, LcSet
  <2>2. p.at <= Len(fn.parent) /\ fn' = fn /\ ~RunsChild(p.at)
    BY <2>1, ParentStatement
  <2> QED
    BY <2>1, <2>2, ParentPasses, ParentBlocks
<1>4. CASE Yield
  <2>1. Here("yield") /\ lc' = [lc EXCEPT !["parent"] = p.at] /\ (Pass \/ Block("YIELDED"))
    BY <1>0, <1>4, Zenon DEF Yield, LcSet
  <2>2. p.at <= Len(fn.parent) /\ fn' = fn /\ ~RunsChild(p.at)
    BY <2>1, ParentStatement
  <2> QED
    BY <2>1, <2>2, ParentPasses, ParentBlocks
<1>5. CASE YieldUntil
  <2>1. Here("yield_until") /\ lc' = [lc EXCEPT !["parent"] = p.at] /\ (Pass \/ Block("YIELDED"))
    BY <1>0, <1>5, Zenon DEF YieldUntil, LcSet
  <2>2. p.at <= Len(fn.parent) /\ fn' = fn /\ ~RunsChild(p.at)
    BY <2>1, ParentStatement
  <2> QED
    BY <2>1, <2>2, ParentPasses, ParentBlocks
<1>6. CASE Restart
  BY <1>6, ParentStatement, ParentLeaves DEF Restart
<1>7. CASE Exit
  BY <1>7, ParentStatement, ParentLeaves DEF Exit
<1>8. CASE End
  <2>1. p.at = Len(fn.parent) + 1 /\ Leave("ENDED") /\ fn' = fn
    BY <1>0, <1>8 DEF End
  <2>2. ~RunsChild(p.at)
    BY <1>0, <2>1 DEF RunsChild
  <2> QED
    BY <2>1, <2>2, ParentLeaves
<1>9. CASE Spawn \/ WaitThread
  <2>1. PICK s \in {"spawn", "run"} : CallChild(s)
    BY <1>9 DEF Spawn, WaitThread
  <2> QED
    BY <2>1, ChildCalled
<1>10. CASE ChildReturned
  <2>1. PICK s \in {"spawn", "run"} : Here(s)
    BY <1>10 DEF ChildReturned
  <2>2. p.at <= Len(fn.parent) /\ fn' = fn /\ RunsChild(p.at)
    BY <2>1, ParentStatement
  <2>3. p.got # "none" /\ lc' = lc /\ p.got \in Codes
    BY <1>0, <1>10 DEF ChildReturned, InParent, FrameSet
  <2>4. CASE p.got = "WAITING"
    <3>1. Block("WAITING")
      BY <1>0, <1>10, <2>4 DEF ChildReturned
    <3> QED
      BY <2>2, <2>3, <3>1, ParentBlocks
  <2>5. CASE p.got # "WAITING"
    <3>1. Pass /\ p.got \in {"ENDED", "EXITED"}
      BY <1>0, <1>10, <2>3, <2>5 DEF ChildReturned, Codes
    <3> QED
      BY <2>2, <2>3, <3>1, ParentPasses
  <2> QED
    BY <2>4, <2>5
<1> QED
  BY <1>1, <1>2, <1>3, <1>4, <1>5, <1>6, <1>7, <1>8, <1>9, <1>10 DEF PtNext

(* A step of a call of the child                                           *)
LEMMA ChildStep ==
    ASSUME PtTyped, NEW c, NEW p, InChild(c, p), PtNext
    PROVE  PtInv'
<1> SUFFICES PtTyped' /\ ((\E q : InParent(q)') \/ (\E q : InChild(q, p)'))
  BY DEF PtInv
<1>0. frames # <<>> /\ Top = c /\ Me = "child"
  BY ChildTop
<1>1. CASE Call \/ Reinit
  BY <1>0, <1>1 DEF Call, Reinit
<1>2. CASE Plain
  BY <1>2, ChildStatement, ChildPasses DEF Plain
<1>3. CASE WaitUntil
  <2>1. Here("wait") /\ lc' = [lc EXCEPT !["child"] = c.at] /\ (Pass \/ Block("WAITING"))
    BY <1>0, <1>3, Zenon DEF WaitUntil, LcSet
  <2>2. c.at <= Len(fn.child) /\ fn' = fn
    BY <2>1, ChildStatement
  <2> QED
    BY <2>1, <2>2, ChildPasses, ChildBlocks
<1>4. CASE Restart \/ Exit
  <2>1. fn' = fn
    BY <1>4, ChildStatement DEF Restart, Exit
  <2> QED
    BY <1>4, <2>1, ChildLeaves DEF Restart, Exit, Codes
<1>5. CASE End
  BY <1>5, ChildLeaves DEF End, Codes
<1>6. CASE Yield \/ YieldUntil \/ Spawn \/ WaitThread \/ ChildReturned
  <2>1. \E s \in {"yield", "yield_until", "spawn", "run"} : Here(s)
    BY <1>6 DEF Yield, YieldUntil, Spawn, WaitThread, ChildReturned, CallChild
  <2> QED
    BY <2>1, ChildStatement
<1> QED
  BY <1>1, <1>2, <1>3, <1>4, <1>5, <1>6 DEF PtNext

(* A call from outside, and a new connection                               *)
LEMMA OutsideStep ==
    ASSUME PtTyped, Outside, PtNext
    PROVE  PtInv'
<1>0. Len(fn.parent) \in Nat /\ Len(fn.child) \in Nat /\ frames = <<>> /\ lc.parent \in Nat
  BY BodiesTyped DEF PtTyped, Outside
<1>1. CASE Call
  <2>1. PICK q : q = Begin("parent", lc.parent)
    OBVIOUS
  <2>2. frames' = <<q>> /\ fn' = fn /\ lc' = lc /\ passed' = passed /\ fromStart' = fromStart
    BY <1>1, <2>1 DEF Call
  <2>3. /\ q \in FrameSet("parent") /\ q.got = "none" /\ q.at = IF lc.parent = 0 THEN 1 ELSE lc.parent
        /\ q.jumped = (lc.parent # 0)
    BY <1>0, <2>1, BeginFields
  <2>4. InParent(q)'
    BY <1>0, <2>2, <2>3 DEF InParent, Outside, Behind, HasRun, RunsChild, PtTyped
  <2> QED
    BY <2>2, <2>4 DEF PtInv, PtTyped
<1>2. CASE Reinit
  <2>1. fn' = fn /\ frames' = frames /\ fromStart' = fromStart
    BY <1>2 DEF Reinit
  <2>2. CASE HasRun
    <3>1. lc' = [parent |-> 0, child |-> 0] /\ passed' = [parent |-> 0, child |-> 0]
      BY <1>2, <2>2 DEF Reinit, HasRun
    <3> QED
      BY <1>0, <2>1, <3>1 DEF PtInv, PtTyped, Outside, Behind, RunsChild
  <2>3. CASE ~HasRun
    <3>1. lc' = [parent |-> 0, child |-> lc.child] /\ passed' = [parent |-> 0, child |-> passed.child]
      BY <1>2, <2>3 DEF Reinit, HasRun
    <3> QED
      BY <1>0, <2>1, <2>3, <3>1 DEF PtInv, PtTyped, Outside, Behind, RunsChild, HasRun
  <2> QED
    BY <2>2, <2>3
<1>3. CASE ~(Call \/ Reinit)
  BY <1>0, <1>3 DEF PtNext, Plain, WaitUntil, Yield, YieldUntil, Restart, Exit, End, Spawn, WaitThread,
                    ChildReturned, CallChild, Here
<1> QED
  BY <1>1, <1>2, <1>3

(* ProtothreadSafe: statements are passed in the order of the body, and    *)
(* the parent goes on only when the child has run to its end.              *)
THEOREM ThreadsInOrder == PtSpec => []ProtothreadSafe
<1>1. PtInit => PtInv
  <2> SUFFICES ASSUME PtInit PROVE PtInv
    OBVIOUS
  <2>1. Len(fn.parent) \in Nat /\ Len(fn.child) \in Nat
    BY BodiesTyped DEF PtInit
  <2> QED
    <3>1. lc = [parent |-> 0, child |-> 0] /\ passed = [parent |-> 0, child |-> 0] /\ fromStart = FALSE
      BY DEF PtInit
    <3>2. PtTyped
      <4>1. [parent |-> 0, child |-> 0] \in [parent : Nat, child : Nat]
        OBVIOUS
      <4>2. fromStart \in BOOLEAN /\ fn \in Bodies
        BY <3>1, Zenon DEF PtInit
      <4>3. lc.parent <= Len(fn.parent) /\ lc.child <= Len(fn.child)
        BY <2>1, <3>1
      <4> QED
        BY <3>1, <4>1, <4>2, <4>3, Zenon DEF PtTyped
    <3>3. Outside
      BY <2>1, <3>1 DEF PtInit, Outside, Behind, RunsChild
    <3> QED
      BY <3>2, <3>3 DEF PtInv
<1>2. PtInv /\ [PtNext]_ptVars => PtInv'
  <2> SUFFICES ASSUME PtInv, [PtNext]_ptVars PROVE PtInv'
    OBVIOUS
  <2>1. CASE PtNext
    BY <2>1, OutsideStep, ParentStep, ChildStep DEF PtInv
  <2>2. CASE UNCHANGED ptVars
    <3>1. PtTyped'
      BY <2>2 DEF PtInv, PtTyped, ptVars
    <3>2. Outside => Outside'
      BY <2>2 DEF Outside, ptVars, HasRun, RunsChild
    <3>3. ASSUME NEW p, InParent(p) PROVE InParent(p)'
      BY <2>2, <3>3 DEF InParent, ptVars, HasRun, RunsChild
    <3>4. ASSUME NEW c, NEW p, InChild(c, p) PROVE InChild(c, p)'
      BY <2>2, <3>4 DEF InChild, ptVars, RunsChild
    <3> QED
      BY <3>1, <3>2, <3>3, <3>4, Zenon DEF PtInv
  <2> QED
    BY <2>1, <2>2
<1>3. PtInv => ProtothreadSafe
  <2> SUFFICES ASSUME PtInv PROVE ProtothreadSafe
    OBVIOUS
  <2>1. CASE Outside
    BY <2>1 DEF Outside, ProtothreadSafe, InOrder, ChildRanWhole
  <2>2. ASSUME NEW p, InParent(p) PROVE ProtothreadSafe
    <3>1. Top = p /\ Me = "parent"
      BY <2>2, ParentTop
    <3>2. p.got \in Codes /\ passed.parent = p.at - 1
      BY <2>2 DEF InParent, FrameSet
    <3> QED
      BY <2>2, <3>1, <3>2 DEF InParent, ProtothreadSafe, InOrder, ChildRanWhole, Codes, Behind
  <2>3. ASSUME NEW c, NEW p, InChild(c, p) PROVE ProtothreadSafe
    <3>1. Top = c /\ Me = "child"
      BY <2>3, ChildTop
    <3> QED
      BY <2>3, <3>1 DEF InChild, ProtothreadSafe, InOrder, ChildRanWhole
  <2> QED
    BY <2>1, <2>2, <2>3 DEF PtInv
<1> QED
  BY <1>1, <1>2, <1>3, PTL DEF PtSpec

(* A set of natural numbers has a smallest one.                            *)
LEMMA LeastIn ==
    ASSUME NEW S \in SUBSET Nat, S # {}
    PROVE  \E x \in S : \A y \in S : x <= y
<1> DEFINE R == OpToRel(<, Nat)
<1>1. IsWellFoundedOn(R, Nat)
  BY NatLessThanWellFounded, Zenon
<1>2. \A x, y \in Nat : y < x => <<y, x>> \in R
  BY DEF OpToRel
<1> HIDE DEF R
<1>3. PICK x \in S : \A y \in S : ~(<<y, x>> \in R)
  BY <1>1, WFMin
<1>4. \A y \in S : ~(y < x)
  BY <1>2, <1>3
<1> QED
  BY <1>3, <1>4

(* What holds of 0 and, with i - 1, of i, holds up to n.                   *)
LEMMA StepByStep ==
    ASSUME NEW n \in Nat, NEW P, 0 \in P, \A i \in 1 .. n : i - 1 \in P => i \in P
    PROVE  \A i \in 0 .. n : i \in P
<1> DEFINE D == (0 .. n) \ P
<1>1. ASSUME D # {} PROVE FALSE
  <2>1. PICK i \in D : \A j \in D : i <= j
    <3>1. D \in SUBSET Nat
      OBVIOUS
    <3> HIDE DEF D
    <3> QED
      BY <1>1, <3>1, LeastIn
  <2>2. i \in 1 .. n
    BY <2>1
  <2>3. i - 1 \in P
    BY <2>1, <2>2
  <2> QED
    BY <2>1, <2>2, <2>3
<1> QED
  BY <1>1

(* A loop that makes each state of the one before has its sequence of states. *)
IsLoop(f, n, S, a, g) == f \in [0 .. n -> S] /\ f[0] = a /\ \A i \in 1 .. n : f[i] = g[i][f[i - 1]]
LEMMA LoopRuns ==
    ASSUME NEW n \in Nat, NEW S, NEW a \in S, NEW g \in [1 .. n -> [S -> S]]
    PROVE  \E f : IsLoop(f, n, S, a, g)
<1> DEFINE Runs(m, f) == f \in [0 .. m -> S] /\ f[0] = a /\ \A i \in 1 .. m : f[i] = g[i][f[i - 1]]
           P == {m \in 0 .. n : \E f : Runs(m, f)}
<1>1. 0 \in P
  <2>1. Runs(0, [i \in 0 .. 0 |-> a])
    OBVIOUS
  <2> HIDE DEF Runs
  <2> QED
    BY <2>1
<1>2. ASSUME NEW m \in 1 .. n, m - 1 \in P PROVE m \in P
  <2>1. PICK f : Runs(m - 1, f)
    BY <1>2
  <2> DEFINE h == [i \in 0 .. m |-> IF i = m THEN g[m][f[m - 1]] ELSE f[i]]
  <2>2. f[m - 1] \in S
    BY <2>1
  <2>3. g[m][f[m - 1]] \in S
    BY <2>2
  <2>4. h \in [0 .. m -> S] /\ h[0] = a
    BY <2>1, <2>3
  <2>5. \A i \in 1 .. m : h[i] = g[i][h[i - 1]]
    <3>1. ASSUME NEW i \in 1 .. m - 1 PROVE h[i] = g[i][h[i - 1]]
      <4>1. h[i] = f[i] /\ h[i - 1] = f[i - 1]
        OBVIOUS
      <4> QED
        BY <2>1, <4>1
    <3>2. h[m] = g[m][h[m - 1]]
      OBVIOUS
    <3>3. \A i \in 1 .. m : i \in 1 .. m - 1 \/ i = m
      OBVIOUS
    <3> HIDE DEF h
    <3> QED
      BY <3>1, <3>2, <3>3, Zenon
  <2>6. Runs(m, h)
    BY <2>4, <2>5
  <2> HIDE DEF Runs, h
  <2> QED
    BY <2>6
<1>3. n \in P
  <2>1. n \in 0 .. n
    OBVIOUS
  <2> HIDE DEF P
  <2>2. \A i \in 0 .. n : i \in P
    BY <1>1, <1>2, StepByStep
  <2> QED
    BY <2>1, <2>2
<1>4. PICK f : Runs(n, f)
  BY <1>3
<1> QED
  BY <1>4 DEF IsLoop

(* A loop does not leave a set that its steps do not leave.                *)
LEMMA LoopStays ==
    ASSUME NEW n \in Nat, NEW S, NEW a \in S, NEW g \in [1 .. n -> [S -> S]], NEW f,
           f[0] = a, \A i \in 1 .. n : f[i - 1] \in S => f[i] = g[i][f[i - 1]]
    PROVE  f[n] \in S
<1> DEFINE P == {i \in 0 .. n : f[i] \in S}
<1>1. 0 \in P
  OBVIOUS
<1>2. ASSUME NEW i \in 1 .. n, i - 1 \in P PROVE i \in P
  <2>1. f[i - 1] \in S
    BY <1>2
  <2>2. f[i] = g[i][f[i - 1]]
    BY <2>1
  <2> QED
    BY <2>1, <2>2
<1>3. n \in 0 .. n
  OBVIOUS
<1> HIDE DEF P
<1>4. n \in P
  BY <1>1, <1>2, <1>3, StepByStep
<1> QED
  BY <1>4 DEF P

(***************************************************************************)
(* The web client                                                          *)
(***************************************************************************)

ParserStates == {"STATUSLINE", "HEADERS", "DATA"}
WebStates == [state : ParserStates, flag : {"NONE", "OK", "MOVED"}, left : Nat, ptr : Nat,
              lineptr : 0 .. LineSize, timer : Nat]
Results == [s : WebStates, data : Seq(WebUnits), quit : BOOLEAN]
SameRequest(q, r) == q.s.left = r.s.left /\ q.s.ptr = r.s.ptr

(* The parser of the web client behind the status line.                    *)
LEMMA HeadersBeginIs ==
    ASSUME NEW r \in Results, NEW flag \in {"NONE", "OK", "MOVED"}, LineSize \in Nat,
           NEW q, q = HeadersBegin(r, flag)
    PROVE  /\ q \in Results /\ q.s.state = "HEADERS" /\ q.s.flag = flag /\ q.s.lineptr = 0
           /\ q.data = r.data /\ q.quit = r.quit /\ SameRequest(q, r)
<1> DEFINE x == [r EXCEPT !.s.flag = flag]
           y == [x EXCEPT !.s.state = "HEADERS"]
           z == [y EXCEPT !.s.lineptr = 0]
<1>1. /\ x \in Results /\ x.s.flag = flag
      /\ x.data = r.data /\ x.quit = r.quit /\ SameRequest(x, r)
  BY DEF Results, WebStates, ParserStates, SameRequest
<1>2. q = z
  BY DEF HeadersBegin
<1> HIDE DEF x
<1>3. /\ y \in Results /\ y.s.flag = flag /\ y.s.state = "HEADERS"
      /\ y.data = r.data /\ y.quit = r.quit /\ SameRequest(y, r)
  BY <1>1 DEF Results, WebStates, ParserStates, SameRequest
<1> HIDE DEF y
<1>4. /\ z \in Results /\ z.s.flag = flag /\ z.s.state = "HEADERS" /\ z.s.lineptr = 0
      /\ z.data = r.data /\ z.quit = r.quit /\ SameRequest(z, r)
  BY <1>3 DEF Results, WebStates, ParserStates, SameRequest
<1> HIDE DEF z
<1> QED
  BY <1>2, <1>4

(* The parser takes one more character of a line.                          *)
LEMMA LineGoesOn ==
    ASSUME NEW r \in Results, r.s.lineptr # LineSize, LineSize \in Nat,
           NEW q, q = [r EXCEPT !.s.lineptr = @ + 1]
    PROVE  /\ q \in Results /\ q.s.state = r.s.state /\ q.s.flag = r.s.flag
           /\ q.data = r.data /\ q.quit = r.quit /\ SameRequest(q, r)
BY DEF Results, WebStates, ParserStates, SameRequest

(* The parser at the end of a line.                                        *)
LEMMA LineEnds ==
    ASSUME NEW r \in Results, LineSize \in Nat, NEW q, q = [r EXCEPT !.s.lineptr = 0]
    PROVE  /\ q \in Results /\ q.s.state = r.s.state /\ q.s.flag = r.s.flag
           /\ q.data = r.data /\ q.quit = r.quit /\ SameRequest(q, r)
BY DEF Results, WebStates, ParserStates, SameRequest

(* The parser at the blank line.                                           *)
LEMMA HeadersEnd ==
    ASSUME NEW r \in Results, LineSize \in Nat, NEW q, q = [r EXCEPT !.s.state = "DATA"]
    PROVE  /\ q \in Results /\ q.s.state = "DATA" /\ q.s.flag = r.s.flag
           /\ q.data = r.data /\ q.quit = r.quit /\ SameRequest(q, r)
BY DEF Results, WebStates, ParserStates, SameRequest

(* A status line that is none makes the client close.                      *)
LEMMA NoHttp ==
    ASSUME NEW r \in Results, NEW q, q = [r EXCEPT !.quit = TRUE]
    PROVE  q \in Results /\ q.quit /\ SameRequest(q, r)
BY DEF Results, SameRequest

(* A piece of the body is handed to the application.                       *)
LEMMA BodyTaken ==
    ASSUME NEW r \in Results, NEW u \in WebUnits, NEW q, q = [r EXCEPT !.data = Append(@, u)]
    PROVE  q \in Results /\ q.s = r.s /\ q.data = Append(r.data, u) /\ q.quit = r.quit /\ SameRequest(q, r)
BY SMTT(40) DEF Results, SameRequest

(* The parser has come to where the n-th unit of the answer is, and the    *)
(* handler has h.                                                          *)
Redirects(a) == a[1].says = "301"
Parsing(a, s, n, h, status, blank) ==
    /\ s.state = "STATUSLINE" => h = <<>> /\ (s.lineptr # LineSize => n < status)
    /\ s.state # "STATUSLINE" => status <= n /\ (s.flag = "MOVED" <=> Redirects(a))
    /\ s.state = "HEADERS" => h = <<>> /\ (s.lineptr # LineSize => n < blank)
    /\ s.state = "DATA" => /\ blank <= n
                           /\ Redirects(a) => h = <<>>
                           /\ ~Redirects(a) => /\ Len(h) = n - blank
                                            /\ \A j \in 1 .. n - blank : h[j] = a[blank + j]

(* A piece added to the end of two parts is added to the second.           *)
LEMMA AppendedLater ==
    ASSUME NEW S, NEW g \in Seq(S), NEW d \in Seq(S), NEW u \in S
    PROVE  g \o Append(d, u) = Append(g \o d, u)
OBVIOUS

(* One unit of the answer, whatever it says, takes the parser from one     *)
(* place of the layout to the next.                                        *)
LEMMA UnitParsed ==
    ASSUME LineSize \in Nat, answer \in Seq(WebUnits),
           NEW status \in Nat \ {0}, NEW blank \in Nat, Layout(answer, status, blank),
           NEW n \in Nat, n < Len(answer), NEW r \in Results, NEW given \in Seq(WebUnits),
           r.quit \/ Parsing(answer, r.s, n, given \o r.data, status, blank),
           NEW q, q = ParseUnit(r, answer[n + 1])
    PROVE  /\ q \in Results /\ SameRequest(q, r)
           /\ q.quit \/ Parsing(answer, q.s, n + 1, given \o q.data, status, blank)
<1> DEFINE u == answer[n + 1]
<1>0. Len(answer) \in Nat /\ n + 1 \in 1 .. Len(answer)
  OBVIOUS
<1>1. u \in WebUnits
  BY <1>0, ElementOfSeq
<1>2. /\ r.s.state \in ParserStates /\ r.quit \in BOOLEAN /\ r.data \in Seq(WebUnits)
      /\ u.says \in Says /\ u.ends \in BOOLEAN
  BY <1>1 DEF Results, WebStates, WebUnits
<1>3. /\ n + 1 <= status => u.says = answer[1].says /\ u.says \notin {"other", "blank", "body"}
                            /\ (u.ends <=> n + 1 = status)
      /\ status < n + 1 /\ n + 1 < blank => u.says = "other"
      /\ n + 1 = blank => u.says = "blank" /\ u.ends
      /\ blank < n + 1 => u.says = "body"
      /\ status < blank
  <2>1. n + 1 = blank => u = Unit("blank", TRUE)
    BY <1>0 DEF Layout
  <2>2. n + 1 = blank => u.says = "blank" /\ u.ends = TRUE
    BY <2>1 DEF Unit
  <2> QED
    BY <1>0, <2>2 DEF Layout
<1>4. q = ParseUnit(r, u)
  OBVIOUS
<1> HIDE DEF u
<1>5. CASE r.quit
  <2>1. q = r
    BY <1>4, <1>5 DEF ParseUnit
  <2> QED
    BY <1>5, <2>1 DEF SameRequest
<1>6. CASE ~r.quit /\ r.s.state = "STATUSLINE"
  <2>1. q = StatusUnit(r, u)
    BY <1>4, <1>6 DEF ParseUnit
  <2>2. CASE r.s.lineptr = LineSize
    <3>1. q = r
      BY <2>1, <2>2 DEF StatusUnit, InLine
    <3> QED
      BY <1>6, <2>2, <3>1 DEF SameRequest, Parsing
  <2>3. CASE r.s.lineptr # LineSize /\ ~u.ends
    <3>1. q = [r EXCEPT !.s.lineptr = @ + 1]
      BY <2>1, <2>3 DEF StatusUnit, InLine
    <3>2. /\ q \in Results /\ q.s.state = r.s.state /\ q.data = r.data /\ SameRequest(q, r)
      BY <2>3, <3>1, LineGoesOn
    <3>3. n + 1 < status
      BY <1>3, <1>6, <2>3 DEF Parsing
    <3> QED
      BY <1>6, <3>2, <3>3 DEF Parsing
  <2>4. CASE r.s.lineptr # LineSize /\ u.ends
    <3>1. n + 1 = status /\ u.says = answer[1].says
      BY <1>3, <1>6, <2>4 DEF Parsing
    <3>2. CASE u.says \in {"200", "301", "404"}
      <4> DEFINE flag == IF u.says = "200" THEN "OK" ELSE IF u.says = "301" THEN "MOVED" ELSE "NONE"
      <4>1. q = HeadersBegin(r, flag)
        BY <2>1, <2>4, <3>2 DEF StatusUnit, InLine
      <4>2. flag \in {"NONE", "OK", "MOVED"} /\ (flag = "MOVED" <=> Redirects(answer))
        BY <3>1, <3>2 DEF Redirects
      <4> HIDE DEF flag
      <4>3. /\ q \in Results /\ q.s.state = "HEADERS" /\ q.s.flag = flag /\ q.s.lineptr = 0
            /\ q.data = r.data /\ q.quit = r.quit /\ SameRequest(q, r)
        BY <4>1, <4>2, HeadersBeginIs
      <4>4. n + 1 < blank
        BY <1>3, <3>1
      <4> QED
        BY <1>6, <3>1, <4>2, <4>3, <4>4 DEF Parsing
    <3>3. CASE u.says \notin {"200", "301", "404"}
      <4>1. q = [r EXCEPT !.quit = TRUE]
        BY <2>1, <2>4, <3>3 DEF StatusUnit, InLine
      <4> QED
        BY <4>1, NoHttp
    <3> QED
      BY <3>2, <3>3
  <2> QED
    BY <2>2, <2>3, <2>4
<1>7. CASE ~r.quit /\ r.s.state = "HEADERS"
  <2>1. q = HeaderUnit(r, u)
    BY <1>4, <1>7 DEF ParseUnit
  <2>2. CASE r.s.lineptr = LineSize
    <3>1. q = r
      BY <2>1, <2>2 DEF HeaderUnit, InLine
    <3> QED
      BY <1>7, <2>2, <3>1 DEF SameRequest, Parsing
  <2>3. CASE r.s.lineptr # LineSize
    <3>1. status <= n /\ n < blank /\ (r.s.flag = "MOVED" <=> Redirects(answer)) /\ given \o r.data = <<>>
      BY <1>7, <2>3 DEF Parsing
    <3>2. CASE ~u.ends
      <4>1. q = [r EXCEPT !.s.lineptr = @ + 1]
        BY <2>1, <2>3, <3>2 DEF HeaderUnit, InLine
      <4>2. q \in Results /\ q.s.state = r.s.state /\ q.s.flag = r.s.flag /\ q.data = r.data /\ SameRequest(q, r)
        BY <2>3, <4>1, LineGoesOn
      <4>3. n + 1 < blank
        BY <1>3, <3>1, <3>2
      <4> QED
        BY <1>7, <3>1, <4>2, <4>3 DEF Parsing
    <3>3. CASE u.ends /\ u.says # "blank"
      <4>1. q = [r EXCEPT !.s.lineptr = 0]
        BY <2>1, <2>3, <3>3 DEF HeaderUnit, InLine
      <4>2. q \in Results /\ q.s.state = r.s.state /\ q.s.flag = r.s.flag /\ q.data = r.data /\ SameRequest(q, r)
        BY <4>1, LineEnds
      <4>3. n + 1 < blank
        BY <1>3, <3>1, <3>3
      <4> QED
        BY <1>7, <3>1, <4>2, <4>3 DEF Parsing
    <3>4. CASE u.ends /\ u.says = "blank"
      <4>1. q = [r EXCEPT !.s.state = "DATA"]
        BY <2>1, <2>3, <3>4 DEF HeaderUnit, InLine
      <4>2. q \in Results /\ q.s.state = "DATA" /\ q.s.flag = r.s.flag /\ q.data = r.data /\ SameRequest(q, r)
        BY <4>1, HeadersEnd
      <4>3. n + 1 = blank
        BY <1>3, <3>1, <3>4
      <4> QED
        BY <3>1, <4>2, <4>3 DEF Parsing
    <3> QED
      BY <3>2, <3>3, <3>4
  <2> QED
    BY <2>2, <2>3
<1>8. CASE ~r.quit /\ r.s.state = "DATA"
  <2>1. q = BodyUnit(r, u)
    BY <1>4, <1>8 DEF ParseUnit
  <2>2. blank <= n /\ status <= n /\ (r.s.flag = "MOVED" <=> Redirects(answer))
    BY <1>8 DEF Parsing
  <2>3. CASE Redirects(answer)
    <3>1. q = r
      BY <2>1, <2>2, <2>3 DEF BodyUnit
    <3> QED
      BY <1>8, <2>2, <2>3, <3>1 DEF SameRequest, Parsing
  <2>4. CASE ~Redirects(answer)
    <3>1. q = [r EXCEPT !.data = Append(@, u)]
      BY <2>1, <2>2, <2>4 DEF BodyUnit
    <3>2. q \in Results /\ q.s = r.s /\ q.data = Append(r.data, u) /\ SameRequest(q, r)
      BY <1>1, <3>1, BodyTaken, SMTT(40)
    <3> DEFINE h == given \o r.data
               k == given \o q.data
    <3>3. /\ h \in Seq(WebUnits) /\ Len(h) = n - blank
          /\ \A j \in 1 .. n - blank : h[j] = answer[blank + j]
      <4>1. h \in Seq(WebUnits)
        BY <1>2, ConcatProperties
      <4>2. Parsing(answer, r.s, n, h, status, blank)
        BY <1>8
      <4> HIDE DEF h
      <4> QED
        BY <1>8, <2>4, <4>1, <4>2 DEF Parsing
    <3>4. k = Append(h, u)
      <4>1. r.data \in Seq(WebUnits)
        BY <1>2
      <4>2. given \o Append(r.data, u) = Append(given \o r.data, u)
        BY <1>1, <4>1, AppendedLater, SMTT(40)
      <4> QED
        BY <3>2, <4>2, Zenon
    <3>5. n + 1 - blank = Len(h) + 1 /\ Len(h) \in Nat
      BY <2>2, <3>3
    <3> HIDE DEF h
    <3>6. Len(k) = n + 1 - blank /\ k[n + 1 - blank] = u
      <4>1. Len(k) = Len(h) + 1 /\ k[Len(h) + 1] = u
        BY <1>1, <3>3, <3>4
      <4> QED
        BY <3>5, <4>1
    <3>7. \A j \in 1 .. n - blank : k[j] = answer[blank + j]
      BY <1>1, <2>2, <3>3, <3>4
    <3> HIDE DEF k
    <3>8. \A j \in 1 .. n + 1 - blank : k[j] = answer[blank + j]
      <4>1. \A j \in 1 .. n + 1 - blank : j \in 1 .. n - blank \/ j = n + 1 - blank
        BY <2>2
      <4>2. blank + (n + 1 - blank) = n + 1
        OBVIOUS
      <4>3. k[n + 1 - blank] = answer[blank + (n + 1 - blank)]
        BY <3>6, <4>2 DEF u
      <4> QED
        BY <3>7, <4>1, <4>3, Zenon
    <3> QED
      <4>1. Parsing(answer, q.s, n + 1, k, status, blank)
        BY <1>8, <2>2, <2>4, <3>2, <3>6, <3>8 DEF Parsing
      <4> QED
        BY <3>2, <4>1, Zenon DEF k
  <2> QED
    BY <2>3, <2>4
<1> QED
  BY <1>2, <1>5, <1>6, <1>7, <1>8 DEF ParserStates

SameLeft(q, s) == q.left = s.left /\ q.ptr = s.ptr

(* The units of a segment, up to the n-th of m, parsed one after the other *)
LEMMA SegmentParsed ==
    ASSUME LineSize \in Nat, answer \in Seq(WebUnits),
           NEW status \in Nat \ {0}, NEW blank \in Nat, Layout(answer, status, blank),
           NEW n \in Nat, NEW m \in Nat, n + m <= Len(answer),
           NEW s \in WebStates, NEW given \in Seq(WebUnits), Parsing(answer, s, n, given, status, blank),
           NEW r, r = Parsed(s, SubSeq(answer, n + 1, n + m))
    PROVE  /\ r \in Results /\ SameLeft(r.s, s)
           /\ r.quit \/ Parsing(answer, r.s, n + m, given \o r.data, status, blank)
<1> DEFINE data == SubSeq(answer, n + 1, n + m)
           first == [s |-> s, data |-> <<>>, quit |-> FALSE]
           Fits(i, x) == /\ x \in Results /\ x.s.left = s.left /\ x.s.ptr = s.ptr
                         /\ x.quit \/ Parsing(answer, x.s, n + i, given \o x.data, status, blank)
           Run(f) == f = [i \in 0 .. m |-> IF i = 0 THEN first ELSE ParseUnit(f[i - 1], data[i])]
<1>0. Len(answer) \in Nat /\ \A i \in 1 .. Len(answer) : answer[i] \in WebUnits
  BY ElementOfSeq
<1>1. /\ data \in Seq(WebUnits) /\ Len(data) = m
      /\ \A i \in 1 .. m : data[i] = answer[n + i]
  <2>1. \A i \in n + 1 .. n + m : answer[i] \in WebUnits
    BY <1>0
  <2>2. n + 1 \in Int /\ n + m \in Int /\ (n + m) - (n + 1) + 1 = m /\ (n + 1 <= n + m <=> 1 <= m)
    OBVIOUS
  <2>3. data \in Seq(WebUnits) /\ Len(data) = m
    BY <2>1, <2>2, SubSeqProperties
  <2>4. \A i \in 1 .. m : data[i] = answer[(n + 1) + i - 1]
    BY <2>1, <2>2, SubSeqProperties
  <2> HIDE DEF data
  <2> QED
    BY <2>3, <2>4
<1> HIDE DEF data
<1>2. Fits(0, first)
  <2>1. first \in Results
    BY DEF Results
  <2>2. first.s = s /\ first.data = <<>> /\ first.quit = FALSE
    OBVIOUS
  <2>3. given \o <<>> = given /\ n + 0 = n
    BY ConcatEmptySeq
  <2> HIDE DEF first
  <2> QED
    BY <2>1, <2>2, <2>3
<1>3. ASSUME NEW i \in 1 .. m, NEW x, Fits(i - 1, x) PROVE Fits(i, ParseUnit(x, data[i]))
  <2>1. n + (i - 1) \in Nat /\ n + (i - 1) < Len(answer) /\ (n + (i - 1)) + 1 = n + i
    BY <1>0
  <2>2. data[i] = answer[(n + (i - 1)) + 1]
    BY <1>1, <2>1
  <2>3. PICK k \in Nat : k = n + (i - 1)
    BY <2>1
  <2>4. PICK q : q = ParseUnit(x, answer[k + 1])
    OBVIOUS
  <2>5. /\ q \in Results /\ SameRequest(q, x)
        /\ q.quit \/ Parsing(answer, q.s, k + 1, given \o q.data, status, blank)
    <3>1. x.quit \/ Parsing(answer, x.s, k, given \o x.data, status, blank)
      BY <1>3, <2>3
    <3>2. k < Len(answer) /\ x \in Results
      BY <1>3, <2>1, <2>3
    <3> QED
      BY <2>4, <3>1, <3>2, UnitParsed
  <2>6. q = ParseUnit(x, data[i]) /\ k + 1 = n + i
    BY <2>1, <2>2, <2>3, <2>4
  <2> QED
    BY <1>3, <2>5, <2>6 DEF SameRequest
<1> HIDE DEF first
<1>4. \E f : Run(f)
  <2> DEFINE g == [i \in 1 .. m |-> [x \in Results |->
                     IF Fits(i - 1, x) THEN ParseUnit(x, data[i]) ELSE x]]
  <2>1. g \in [1 .. m -> [Results -> Results]]
    <3>1. ASSUME NEW i \in 1 .. m, NEW x \in Results
          PROVE  (IF Fits(i - 1, x) THEN ParseUnit(x, data[i]) ELSE x) \in Results
      <4>1. CASE Fits(i - 1, x)
        BY <1>3, <4>1
      <4> QED
        BY <4>1
    <3> HIDE DEF Fits
    <3> QED
      BY <3>1
  <2>2. first \in Results
    BY <1>2
  <2>3. PICK f \in [0 .. m -> Results] : f[0] = first /\ \A i \in 1 .. m : f[i] = g[i][f[i - 1]]
    <3> HIDE DEF g
    <3>1. PICK f : IsLoop(f, m, Results, first, g)
      BY <2>1, <2>2, LoopRuns
    <3> QED
      BY <3>1 DEF IsLoop
  <2> DEFINE P == {i \in 0 .. m : Fits(i, f[i])}
  <2>4. \A i \in 1 .. m : Fits(i - 1, f[i - 1]) => f[i] = ParseUnit(f[i - 1], data[i])
    <3> HIDE DEF Fits
    <3>1. \A i \in 1 .. m : f[i - 1] \in Results
      BY <2>3
    <3> QED
      BY <2>3, <3>1
  <2>5. \A i \in 0 .. m : i \in P
    <3>1. 0 \in P
      <4> HIDE DEF Fits
      <4> QED
        BY <1>2, <2>3
    <3>2. ASSUME NEW i \in 1 .. m, i - 1 \in P PROVE i \in P
      <4>1. Fits(i - 1, f[i - 1])
        BY <3>2
      <4> HIDE DEF Fits
      <4>2. f[i] = ParseUnit(f[i - 1], data[i])
        BY <2>4, <4>1
      <4>3. Fits(i, f[i])
        BY <1>3, <4>1, <4>2, Zenon
      <4> QED
        BY <4>3
    <3> HIDE DEF P
    <3> QED
      BY <3>1, <3>2, StepByStep
  <2>6. \A i \in 1 .. m : f[i] = ParseUnit(f[i - 1], data[i])
    <3> HIDE DEF Fits
    <3>1. \A i \in 1 .. m : i - 1 \in 0 .. m
      OBVIOUS
    <3> QED
      BY <2>4, <2>5, <3>1
  <2>7. Run(f)
    BY <2>3, <2>6
  <2> HIDE DEF Run
  <2> QED
    BY <2>7
<1>5. ASSUME NEW f, Run(f) PROVE Fits(m, f[m])
  <2> DEFINE P == {i \in 0 .. m : Fits(i, f[i])}
  <2>1. f[0] = first /\ \A i \in 1 .. m : f[i] = ParseUnit(f[i - 1], data[i])
    BY <1>5
  <2> HIDE DEF Fits
  <2>2. 0 \in P
    BY <1>2, <2>1
  <2>3. ASSUME NEW i \in 1 .. m, i - 1 \in P PROVE i \in P
    <3>1. Fits(i, f[i])
      BY <1>3, <2>1, <2>3
    <3> QED
      BY <3>1
  <2>4. m \in 0 .. m
    OBVIOUS
  <2> HIDE DEF P
  <2>5. m \in P
    BY <2>2, <2>3, <2>4, StepByStep
  <2> QED
    BY <2>5 DEF P
<1>6. PICK f : Run(f) /\ r = f[m]
  <2>1. r = (CHOOSE f : Run(f))[m]
    BY <1>1 DEF Parsed, data, first
  <2> HIDE DEF Run
  <2> QED
    BY <1>4, <2>1
<1>7. Fits(m, r)
  <2> HIDE DEF Run, Fits
  <2> QED
    BY <1>5, <1>6
<1> QED
  BY <1>7 DEF SameLeft

WebRecords == [state : ParserStates \cup {"CLOSE"}, flag : {"NONE", "OK", "MOVED"}, left : Nat, ptr : Nat,
               lineptr : 0 .. LineSize, timer : Nat]
Pieces == [from : Nat, to : 0 .. RequestLen]

(* The answer comes when the whole request is there, and stays.            *)
RequestInv ==
    /\ web \in WebRecords /\ webconn \in {"none", "syn sent", "up", "two"}
    /\ webconn # "none" => web.left + web.ptr = RequestLen
    /\ inflight \in Pieces /\ served \in Nat
    /\ answer # <<>> => served = RequestLen
    /\ answer = <<>> \/ answer \in Responses
    /\ pos \in 0 .. Len(answer)

(* The parser stands where the client has read to.                         *)
AnswerInv ==
    /\ handed \in Seq(WebUnits)
    /\ webconn = "syn sent" => answer = <<>> /\ handed = <<>> /\ web.lineptr = 0
    /\ webconn = "up" /\ web.state # "CLOSE" =>
          \A status \in Nat \ {0}, blank \in Nat :
              Layout(answer, status, blank) => Parsing(answer, web, pos, handed, status, blank)
    /\ IsPrefix(handed, Body(answer))
WebInv == RequestInv /\ AnswerInv

(* The sizes of the web client are numbers.                                *)
LEMMA WebSizes ==
    WebMss \in Nat \ {0} /\ RequestLen \in Nat \ {0} /\ LineSize \in Nat \ {0}
    /\ WEBCLIENT_TIMEOUT \in Nat \ {0, 1}
BY WebAssumption DEF WebAssumption

(* An answer has a layout, also one that is cut off or not there at all.   *)
LEMMA AnswerLayout ==
    ASSUME NEW r, r = <<>> \/ r \in Responses
    PROVE  /\ r \in Seq(WebUnits) /\ Len(r) \in Nat
           /\ \E status \in Nat \ {0}, blank \in Nat : Layout(r, status, blank)
<1>1. CASE r = <<>>
  <2>1. r \in Seq(WebUnits) /\ Len(r) = 0
    BY <1>1
  <2>2. Layout(r, 1, 2)
    BY <2>1 DEF Layout
  <2>3. 1 \in Nat \ {0} /\ 2 \in Nat
    OBVIOUS
  <2> QED
    BY <2>1, <2>2, <2>3
<1>2. CASE r \in Responses
  <2>1. IsResponse(r)
    BY <1>2, WebAssumption, Zenon DEF WebAssumption
  <2>2. r \in Seq(WebUnits)
    BY <2>1 DEF IsResponse
  <2>3. Len(r) \in Nat
    BY <2>2, LenProperties
  <2>4. PICK status \in 1 .. Len(r) + 2, blank \in 1 .. Len(r) + 2 : Layout(r, status, blank)
    BY <2>1 DEF IsResponse
  <2>5. status \in Nat \ {0} /\ blank \in Nat
    BY <2>3, <2>4
  <2> QED
    BY <2>2, <2>3, <2>4, <2>5
<1> QED
  BY <1>1, <1>2

(* What is left of a sequence behind a place.                              *)
LEMMA Suffix ==
    ASSUME NEW S, NEW s \in Seq(S), NEW m \in Nat, NEW n \in Nat, m <= n, n <= Len(s),
           NEW q, q = SubSeq(s, m + 1, n)
    PROVE  q \in Seq(S) /\ Len(q) = n - m /\ \A j \in 1 .. n - m : q[j] = s[m + j]
<1>0. \A i \in 1 .. Len(s) : s[i] \in S
  BY ElementOfSeq
<1>1. PICK k \in Int : k = m + 1
  OBVIOUS
<1>2. n \in Int /\ \A i \in k .. n : s[i] \in S
  BY <1>0, <1>1
<1>3. /\ SubSeq(s, k, n) \in Seq(S)
      /\ Len(SubSeq(s, k, n)) = IF k <= n THEN n - k + 1 ELSE 0
      /\ \A i \in 1 .. n - k + 1 : SubSeq(s, k, n)[i] = s[k + i - 1]
  BY <1>2, SubSeqProperties
<1>4. (IF k <= n THEN n - k + 1 ELSE 0) = n - m /\ n - k + 1 = n - m /\ \A j \in 1 .. n - m : k + j - 1 = m + j
  BY <1>1
<1>5. q = SubSeq(s, k, n)
  BY <1>1
<1> QED
  BY <1>3, <1>4, <1>5

(* The body of an answer begins behind its blank line.                     *)
LEMMA BodyIs ==
    ASSUME NEW r \in Seq(WebUnits), NEW status \in Nat \ {0}, NEW blank \in Nat, Layout(r, status, blank)
    PROVE  /\ Body(r) \in Seq(WebUnits)
           /\ blank <= Len(r) /\ r[1].says # "301" =>
                 /\ Len(Body(r)) = Len(r) - blank
                 /\ \A j \in 1 .. Len(r) - blank : Body(r)[j] = r[blank + j]
<1>0. Len(r) \in Nat /\ \A i \in 1 .. Len(r) : r[i] \in WebUnits
  BY ElementOfSeq, LenProperties
<1>1. status < blank /\ \A i \in 1 .. Len(r) : r[i].says = "blank" => i = blank
  <2>1. status < blank
    BY DEF Layout
  <2>2. ASSUME NEW i \in 1 .. Len(r), i # blank PROVE r[i].says # "blank"
    <3>1. i <= status \/ (status < i /\ i < blank) \/ blank < i
      BY <2>2
    <3>2. CASE i <= status
      BY <3>2 DEF Layout
    <3>3. CASE status < i /\ i < blank
      BY <3>3 DEF Layout
    <3>4. CASE blank < i
      BY <3>4 DEF Layout
    <3> QED
      BY <3>1, <3>2, <3>3, <3>4
  <2> QED
    BY <2>1, <2>2
<1>2. Blanks(r) \subseteq {blank}
  BY <1>1 DEF Blanks
<1>3. blank <= Len(r) => blank \in Blanks(r)
  <2> SUFFICES ASSUME blank <= Len(r) PROVE blank \in Blanks(r)
    OBVIOUS
  <2>1. blank \in 1 .. Len(r)
    BY <1>0, <1>1
  <2>2. r[blank] = Unit("blank", TRUE)
    BY <2>1 DEF Layout
  <2> QED
    BY <2>1, <2>2 DEF Blanks, Unit
<1>4. CASE Blanks(r) = {} \/ r[1].says = "301"
  BY <1>3, <1>4 DEF Body
<1>5. CASE ~(Blanks(r) = {} \/ r[1].says = "301")
  <2>1. Blanks(r) = {blank} /\ blank <= Len(r)
    BY <1>0, <1>2, <1>5 DEF Blanks
  <2>2. (CHOOSE i \in Blanks(r) : \A j \in Blanks(r) : i <= j) = blank
    BY <2>1
  <2>3. Body(r) = SubSeq(r, blank + 1, Len(r))
    BY <1>5, <2>2 DEF Body
  <2>4. PICK n \in Nat : n = Len(r)
    BY <1>0
  <2>5. /\ SubSeq(r, blank + 1, n) \in Seq(WebUnits) /\ Len(SubSeq(r, blank + 1, n)) = n - blank
        /\ \A j \in 1 .. n - blank : SubSeq(r, blank + 1, n)[j] = r[blank + j]
    <3>1. blank <= n /\ n <= Len(r)
      BY <2>1, <2>4
    <3> QED
      BY <3>1, Suffix
  <2> QED
    BY <2>3, <2>4, <2>5
<1> QED
  BY <1>4, <1>5

(* A sequence that agrees with the beginning of a longer one is a prefix   *)
(* of it.                                                                  *)
LEMMA PrefixByElements ==
    ASSUME NEW S, NEW s \in Seq(S), NEW t \in Seq(S), Len(s) <= Len(t),
           \A j \in 1 .. Len(s) : s[j] = t[j]
    PROVE  IsPrefix(s, t)
<1>0. Len(s) \in Nat /\ Len(t) \in Nat
  BY LenProperties
<1>1. (\A j \in 1 .. Len(s) : s[j] \in S) /\ (\A j \in 1 .. Len(s) : t[j] \in S)
  BY <1>0, ElementOfSeq
<1> DEFINE n == Len(s)
           a == SubSeq(s, 1, n)
           b == SubSeq(t, 1, n)
<1>2. n - 1 + 1 = n /\ 1 \in Int /\ n \in Int /\ (~(1 <= n) => n = 0) /\ \A j \in 1 .. n : 1 + j - 1 = j
  BY <1>0
<1>3. a \in Seq(S) /\ Len(a) = n /\ \A j \in 1 .. n - 1 + 1 : a[j] = s[1 + j - 1]
  BY <1>1, <1>2, SubSeqProperties
<1>4. b \in Seq(S) /\ Len(b) = n /\ \A j \in 1 .. n - 1 + 1 : b[j] = t[1 + j - 1]
  BY <1>1, <1>2, SubSeqProperties
<1> HIDE DEF n, a, b
<1>5. \A j \in 1 .. n : a[j] = s[j] /\ b[j] = t[j]
  BY <1>2, <1>3, <1>4
<1>6. a = b
  <2>1. \A j \in 1 .. n : a[j] = b[j]
    BY <1>5 DEF n
  <2> QED
    BY <1>3, <1>4, <2>1, SeqEqual
<1> QED
  BY <1>6 DEF IsPrefix, a, b, n

(* What the handler has of an answer is a beginning of its body.           *)
LEMMA ParsedIsPrefix ==
    ASSUME NEW r \in Seq(WebUnits), answer = r, NEW status \in Nat \ {0}, NEW blank \in Nat,
           Layout(r, status, blank), NEW s \in WebStates, NEW n \in 0 .. Len(r), NEW h \in Seq(WebUnits),
           Parsing(answer, s, n, h, status, blank)
    PROVE  IsPrefix(h, Body(r))
<1>0. Len(r) \in Nat /\ Len(h) \in Nat /\ s.state \in ParserStates
  BY LenProperties DEF WebStates
<1>1. /\ Body(r) \in Seq(WebUnits)
      /\ blank <= Len(r) /\ r[1].says # "301" =>
            /\ Len(Body(r)) = Len(r) - blank
            /\ \A j \in 1 .. Len(r) - blank : Body(r)[j] = r[blank + j]
  BY BodyIs
<1>2. CASE h = <<>>
  <2>1. Len(h) = 0 /\ Len(Body(r)) \in Nat
    BY <1>1, <1>2, LenProperties
  <2>2. Len(h) <= Len(Body(r)) /\ \A j \in 1 .. Len(h) : h[j] = Body(r)[j]
    BY <2>1
  <2> QED
    BY <1>1, <2>2, PrefixByElements
<1>3. CASE h # <<>>
  <2>1. s.state = "DATA" /\ ~Redirects(answer) /\ blank <= n
    BY <1>0, <1>3 DEF Parsing, ParserStates
  <2>2. Len(h) = n - blank /\ \A j \in 1 .. n - blank : h[j] = r[blank + j]
    BY <2>1 DEF Parsing
  <2>3. /\ Len(Body(r)) = Len(r) - blank
        /\ \A j \in 1 .. Len(r) - blank : Body(r)[j] = r[blank + j]
    BY <1>0, <1>1, <2>1 DEF Redirects
  <2>4. Len(h) <= Len(Body(r)) /\ \A j \in 1 .. Len(h) : h[j] = Body(r)[j]
    <3>1. \A j \in 1 .. n - blank : j \in 1 .. Len(r) - blank
      BY <1>0
    <3> QED
      BY <1>0, <2>2, <2>3, <3>1
  <2> QED
    BY <1>1, <2>4, PrefixByElements
<1> QED
  BY <1>2, <1>3

SameParser(q, s) == q.state = s.state /\ q.flag = s.flag /\ q.lineptr = s.lineptr

(* What is known of the parser depends on its own fields only.             *)
LEMMA ParsingSame ==
    ASSUME NEW s, NEW q, SameParser(q, s), NEW n, NEW h, NEW status, NEW blank,
           Parsing(answer, s, n, h, status, blank)
    PROVE  Parsing(answer, q, n, h, status, blank)
BY DEF SameParser, Parsing

(* Setting the timer leaves parser and request alone.                      *)
LEMMA TimerSet ==
    ASSUME NEW s \in WebRecords, NEW v \in Nat, NEW q, q = [s EXCEPT !.timer = v]
    PROVE  q \in WebRecords /\ SameParser(q, s) /\ q.left = s.left /\ q.ptr = s.ptr
BY DEF WebRecords, SameParser

(* Setting the state leaves the rest alone.                                *)
LEMMA StateSet ==
    ASSUME NEW s \in WebRecords, NEW st \in ParserStates \cup {"CLOSE"}, NEW q, q = [s EXCEPT !.state = st]
    PROVE  /\ q \in WebRecords /\ q.state = st /\ q.lineptr = s.lineptr
           /\ q.left = s.left /\ q.ptr = s.ptr
BY DEF WebRecords

(* acked moves on in the request.                                          *)
LEMMA PieceAcked ==
    ASSUME NEW s \in WebRecords, s.left + s.ptr = RequestLen, WebMss \in Nat, NEW q, q = AckedPiece(s)
    PROVE  q \in WebRecords /\ SameParser(q, s) /\ q.left + q.ptr = RequestLen
<1>1. PICK n : n = Least(s.left, WebMss)
  OBVIOUS
<1>2. s.left \in Nat /\ s.ptr \in Nat
  BY DEF WebRecords
<1>3. n \in Nat /\ s.left - n \in Nat
  BY <1>1, <1>2 DEF Least
<1>4. q = [s EXCEPT !.left = @ - n, !.ptr = @ + n]
  BY <1>1 DEF AckedPiece
<1> DEFINE x == [s EXCEPT !.left = @ - n]
           y == [x EXCEPT !.ptr = @ + n]
<1>5. x \in WebRecords /\ SameParser(x, s) /\ x.left = s.left - n /\ x.ptr = s.ptr
  BY <1>3 DEF WebRecords, SameParser
<1>6. q = y
  BY <1>4
<1> HIDE DEF x
<1>7. y \in WebRecords /\ SameParser(y, x) /\ y.left = x.left /\ y.ptr = x.ptr + n
  BY <1>3, <1>5 DEF WebRecords, SameParser
<1> HIDE DEF y
<1> QED
  BY <1>2, <1>3, <1>5, <1>6, <1>7 DEF SameParser

(* senddata sends no more than is left and fits in a segment.              *)
LEMMA PieceSent ==
    ASSUME NEW s \in WebRecords, s.left + s.ptr = RequestLen, WebMss \in Nat, RequestLen \in Nat
    PROVE  SendPiece(s) \in Pieces
BY DEF WebRecords, SendPiece, Pieces, NoPiece, Least

(* At connected the request is to be sent and the parser is at its start.  *)
LEMMA Connected ==
    ASSUME NEW s \in WebRecords, RequestLen \in Nat, LineSize \in Nat, NEW q, q = Connecting(s)
    PROVE  q \in WebRecords /\ q.left + q.ptr = RequestLen /\ q.lineptr = 0
<1> DEFINE a == [s EXCEPT !.state = "STATUSLINE"]
           b == [a EXCEPT !.left = RequestLen]
           c == [b EXCEPT !.ptr = 0]
           d == [c EXCEPT !.lineptr = 0]
<1>1. q = d
  BY DEF Connecting
<1>2. a \in WebRecords
  BY DEF WebRecords, ParserStates
<1> HIDE DEF a
<1>3. b \in WebRecords /\ b.left = RequestLen
  BY <1>2 DEF WebRecords
<1> HIDE DEF b
<1>4. c \in WebRecords /\ c.left = RequestLen /\ c.ptr = 0
  BY <1>3 DEF WebRecords
<1> HIDE DEF c
<1>5. d \in WebRecords /\ d.left = RequestLen /\ d.ptr = 0 /\ d.lineptr = 0
  BY <1>4 DEF WebRecords
<1> HIDE DEF d
<1> QED
  BY <1>1, <1>5

(* Having handed over nothing is right with any answer.                    *)
LEMMA NothingHanded ==
    ASSUME NEW r, r = <<>> \/ r \in Responses
    PROVE  IsPrefix(<<>>, Body(r))
<1>1. PICK status \in Nat \ {0}, blank \in Nat : Layout(r, status, blank)
  BY AnswerLayout
<1>2. r \in Seq(WebUnits)
  BY AnswerLayout
<1>3. Body(r) \in Seq(WebUnits)
  BY <1>1, <1>2, BodyIs
<1>4. <<>> \in Seq(WebUnits) /\ Len(<<>>) = 0 /\ Len(Body(r)) \in Nat
  BY <1>3, LenProperties
<1>5. Len(<<>>) <= Len(Body(r)) /\ \A j \in 1 .. Len(<<>>) : <<>>[j] = Body(r)[j]
  BY <1>4
<1> QED
  BY <1>3, <1>4, <1>5, PrefixByElements

(* Without an answer nothing was handed over.                              *)
LEMMA NoAnswerNoData ==
    ASSUME NEW h \in Seq(WebUnits), IsPrefix(h, Body(<<>>))
    PROVE  h = <<>>
<1>1. Body(<<>>) = <<>>
  BY DEF Body, Blanks
<1>2. Len(h) = 0
  BY <1>1, LenProperties DEF IsPrefix
<1> QED
  BY <1>2, EmptySeq

(* The connection is gone, or the program begins again.                    *)
LEMMA ConnectsKeeps ==
    ASSUME WebInv, NEW s \in WebRecords, Connects(s)
    PROVE  WebInv'
<1>1. /\ web' \in WebRecords /\ web'.left + web'.ptr = RequestLen /\ web'.lineptr = 0
  BY WebSizes, Connected DEF Connects
<1>2. /\ webconn' = "syn sent" /\ inflight' = NoPiece /\ served' = 0 /\ answer' = <<>> /\ pos' = 0
      /\ handed' = <<>>
  BY DEF Connects
<1>3. RequestInv'
  <2>1. NoPiece \in Pieces /\ Len(<<>>) = 0
    BY WebSizes DEF NoPiece, Pieces
  <2>2. Len(answer') = 0
    BY <1>2
  <2>3. pos' \in 0 .. Len(answer') /\ served' \in Nat /\ inflight' \in Pieces
    <3>1. pos' = 0 /\ served' = 0 /\ inflight' = NoPiece
      BY <1>2
    <3> QED
      BY <2>1, <2>2, <3>1
  <2>4. webconn' \in {"none", "syn sent", "up", "two"} /\ answer' = <<>>
    BY <1>2
  <2> QED
    BY <1>1, <2>3, <2>4, Zenon DEF RequestInv
<1>4. AnswerInv'
  <2>1. IsPrefix(<<>>, Body(<<>>)) /\ <<>> \in Seq(WebUnits)
    BY NothingHanded
  <2> QED
    BY <1>1, <1>2, <2>1 DEF AnswerInv
<1> QED
  BY <1>3, <1>4 DEF WebInv

(* The end of a connection, however it comes, keeps the invariant.         *)
LEMMA ConnectionGone ==
    ASSUME WebInv, NEW fin, Gone(fin), web' \in WebRecords,
           handed' \in Seq(WebUnits), IsPrefix(handed', Body(answer))
    PROVE  WebInv'
<1>1. /\ webconn' = "none" /\ UNCHANGED <<inflight, served, answer, pos>>
  BY DEF Gone
<1>2. RequestInv'
  BY <1>1 DEF WebInv, RequestInv
<1>3. AnswerInv'
  BY <1>1 DEF AnswerInv
<1> QED
  BY <1>2, <1>3 DEF WebInv

(* Steps in which the client reads nothing and the connection stays        *)
LEMMA ParserStays ==
    ASSUME WebInv, NEW s, web' = s, s \in WebRecords, SameParser(s, web),
           s.left + s.ptr = web.left + web.ptr, inflight' \in Pieces,
           UNCHANGED <<webconn, served, answer, pos, handed>>
    PROVE  WebInv'
<1>1. RequestInv'
  BY DEF WebInv, RequestInv
<1>2. AnswerInv'
  <2>1. webconn' = "up" /\ web'.state # "CLOSE" =>
          \A status \in Nat \ {0}, blank \in Nat :
             Layout(answer', status, blank) => Parsing(answer', web', pos', handed', status, blank)
    <3>1. ASSUME webconn = "up", s.state # "CLOSE", NEW status \in Nat \ {0}, NEW blank \in Nat,
                 Layout(answer, status, blank)
          PROVE  Parsing(answer, s, pos, handed, status, blank)
      <4>1. Parsing(answer, web, pos, handed, status, blank)
        BY <3>1 DEF WebInv, AnswerInv, SameParser
      <4> QED
        BY <4>1, ParsingSame
    <3> QED
      BY <3>1
  <2>2. webconn' = "syn sent" => answer' = <<>> /\ handed' = <<>> /\ web'.lineptr = 0
    BY DEF WebInv, AnswerInv, SameParser
  <2>3. handed' \in Seq(WebUnits) /\ IsPrefix(handed', Body(answer'))
    BY DEF WebInv, AnswerInv
  <2> QED
    BY <2>1, <2>2, <2>3 DEF AnswerInv
<1> QED
  BY <1>1, <1>2 DEF WebInv

(* uip_acked and uip_newdata                                               *)
LEMMA EventKeeps ==
    ASSUME WebInv, NEW ack \in BOOLEAN, NEW n \in Nat, pos + n <= Len(answer), NEW fin \in BOOLEAN,
           AppEvent(ack, n, fin)
    PROVE  WebInv'
<1> DEFINE s0 == IF ack THEN AckedPiece(web) ELSE web
           s1 == [s0 EXCEPT !.timer = IF ack \/ n > 0 THEN 0 ELSE @]
           res  == Parsed(s1, SubSeq(answer, pos + 1, pos + n))
<1>1. webconn = "up" /\ web.state # "CLOSE"
  BY DEF AppEvent, Calls
<1>2. /\ fin /\ res.s.flag = "MOVED" => Restarts(res.s)
      /\ ~(fin /\ res.s.flag = "MOVED") =>
           /\ web' = res.s /\ handed' = (IF res.quit THEN handed ELSE handed \o res.data)
           /\ fin \/ res.quit => Gone(fin)
           /\ ~(fin \/ res.quit) =>
                /\ inflight' = (IF ack \/ inflight = NoPiece THEN SendPiece(res.s) ELSE inflight)
                /\ pos' = pos + n /\ UNCHANGED <<webconn, served, answer>>
  <2>2. IF fin /\ res.s.flag = "MOVED" THEN Restarts(res.s)
        ELSE /\ web' = res.s /\ handed' = (IF res.quit THEN handed ELSE handed \o res.data)
             /\ IF fin THEN Gone(TRUE)
                ELSE IF res.quit THEN Gone(FALSE)
                ELSE /\ inflight' = (IF ack \/ inflight = NoPiece THEN SendPiece(res.s) ELSE inflight)
                     /\ pos' = pos + n /\ UNCHANGED <<webconn, late, served, answer>>
    BY DEF AppEvent
  <2> HIDE DEF res
  <2>3. CASE fin
    BY <2>2, <2>3
  <2>4. CASE ~fin
    BY <2>2, <2>4
  <2> QED
    BY <2>3, <2>4
<1>3. /\ web \in WebRecords /\ web.left + web.ptr = RequestLen /\ pos \in Nat
      /\ handed \in Seq(WebUnits) /\ (answer = <<>> \/ answer \in Responses)
      /\ IsPrefix(handed, Body(answer))
  BY <1>1 DEF WebInv, RequestInv, AnswerInv
<1>4. s1 \in WebStates /\ SameParser(s1, web) /\ s1.left + s1.ptr = RequestLen
  <2>1. s0 \in WebRecords /\ SameParser(s0, web) /\ s0.left + s0.ptr = RequestLen
    BY <1>3, WebSizes, PieceAcked DEF SameParser
  <2> HIDE DEF s0
  <2>2. PICK v \in Nat : v = (IF ack \/ n > 0 THEN 0 ELSE s0.timer)
    BY <2>1 DEF WebRecords
  <2>3. s1 = [s0 EXCEPT !.timer = v]
    BY <2>2
  <2> HIDE DEF s1
  <2>4. s1 \in WebRecords /\ SameParser(s1, s0) /\ s1.left = s0.left /\ s1.ptr = s0.ptr
    BY <2>1, <2>3, TimerSet
  <2>5. s1.state \in ParserStates
    BY <1>1, <2>1, <2>4 DEF SameParser, WebRecords
  <2> QED
    BY <2>1, <2>4, <2>5 DEF SameParser, WebRecords, WebStates
<1> HIDE DEF s0, s1
<1>5. /\ answer \in Seq(WebUnits) /\ Len(answer) \in Nat
  BY <1>3, AnswerLayout
<1>6. \A status \in Nat \ {0}, blank \in Nat : Layout(answer, status, blank) =>
        /\ res \in Results /\ res.s.left = s1.left /\ res.s.ptr = s1.ptr
        /\ res.quit \/ Parsing(answer, res.s, pos + n, handed \o res.data, status, blank)
  <2> SUFFICES ASSUME NEW status \in Nat \ {0}, NEW blank \in Nat, Layout(answer, status, blank)
               PROVE  /\ res \in Results /\ res.s.left = s1.left /\ res.s.ptr = s1.ptr
                      /\ res.quit \/ Parsing(answer, res.s, pos + n, handed \o res.data, status, blank)
    OBVIOUS
  <2>1. Parsing(answer, web, pos, handed, status, blank)
    BY <1>1 DEF WebInv, AnswerInv
  <2>2. Parsing(answer, s1, pos, handed, status, blank)
    BY <1>4, <2>1, ParsingSame
  <2>3. LineSize \in Nat
    BY WebSizes
  <2>4. PICK p \in Nat, h \in Seq(WebUnits) : p = pos /\ h = handed
    BY <1>3
  <2>5. PICK t \in WebStates : t = s1
    BY <1>4
  <2>6. PICK x : x = Parsed(t, SubSeq(answer, p + 1, p + n))
    OBVIOUS
  <2>7. /\ x \in Results /\ x.s.left = t.left /\ x.s.ptr = t.ptr
        /\ x.quit \/ Parsing(answer, x.s, p + n, h \o x.data, status, blank)
    <3>1. p + n <= Len(answer) /\ Parsing(answer, t, p, h, status, blank)
      BY <2>2, <2>4, <2>5
    <3> QED
      <4>1. x \in Results /\ SameLeft(x.s, t)
        BY <1>5, <2>3, <2>6, <3>1, SegmentParsed
      <4>2. x.quit \/ Parsing(answer, x.s, p + n, h \o x.data, status, blank)
        BY <1>5, <2>3, <2>6, <3>1, SegmentParsed
      <4> QED
        BY <4>1, <4>2 DEF SameLeft
  <2> QED
    BY <2>4, <2>5, <2>6, <2>7
<1> HIDE DEF res
<1>7. PICK status \in Nat \ {0}, blank \in Nat : Layout(answer, status, blank)
  BY <1>3, AnswerLayout
<1>8. /\ res \in Results /\ res.s \in WebStates /\ res.s \in WebRecords /\ res.data \in Seq(WebUnits)
      /\ res.s.left + res.s.ptr = RequestLen /\ res.quit \in BOOLEAN
  <2>1. res \in Results /\ res.s.left = s1.left /\ res.s.ptr = s1.ptr
    BY <1>6, <1>7
  <2> QED
    BY <1>4, <2>1 DEF Results, WebStates, WebRecords
<1>9. handed \o res.data \in Seq(WebUnits)
  BY <1>3, <1>8, ConcatProperties
<1>10. ~res.quit => IsPrefix(handed \o res.data, Body(answer))
  <2> SUFFICES ASSUME ~res.quit PROVE IsPrefix(handed \o res.data, Body(answer))
    OBVIOUS
  <2>1. PICK m \in 0 .. Len(answer) : m = pos + n
    BY <1>3, <1>5
  <2>2. Parsing(answer, res.s, m, handed \o res.data, status, blank)
    BY <1>6, <1>7, <2>1
  <2>3. PICK h \in Seq(WebUnits) : h = handed \o res.data
    BY <1>9
  <2>4. PICK t \in WebStates : t = res.s
    BY <1>8
  <2>5. PICK a \in Seq(WebUnits) : a = answer
    BY <1>5
  <2>6. Layout(a, status, blank) /\ Parsing(answer, t, m, h, status, blank) /\ m \in 0 .. Len(a)
    BY <1>7, <2>2, <2>3, <2>4, <2>5
  <2>7. IsPrefix(h, Body(a))
    BY <2>5, <2>6, ParsedIsPrefix
  <2> QED
    BY <2>3, <2>5, <2>7
<1>11. CASE fin /\ res.s.flag = "MOVED"
  <2>1. Restarts(res.s)
    BY <1>2, <1>11
  <2>2. CASE Connects(res.s)
    BY <1>8, <2>2, ConnectsKeeps
  <2>3. CASE ~Connects(res.s)
    <3>1. web' = res.s /\ webconn' = "none" /\ UNCHANGED <<inflight, served, answer, pos, handed>>
      BY <2>1, <2>3 DEF Restarts, transfer
    <3> QED
      BY <1>8, <3>1 DEF WebInv, RequestInv, AnswerInv
  <2> QED
    BY <2>2, <2>3
<1>12. ASSUME ~(fin /\ res.s.flag = "MOVED"), fin \/ res.quit
       PROVE  WebInv'
  <2>1. Gone(fin)
    BY <1>2, <1>12
  <2>2. web' = res.s /\ handed' = (IF res.quit THEN handed ELSE handed \o res.data)
    BY <1>2, <1>12
  <2>3. handed' \in Seq(WebUnits) /\ IsPrefix(handed', Body(answer))
    BY <1>3, <1>8, <1>9, <1>10, <2>2
  <2> QED
    BY <1>8, <2>1, <2>2, <2>3, ConnectionGone
<1>14. CASE ~res.quit /\ ~fin
  <2>1. /\ web' = res.s /\ handed' = handed \o res.data
        /\ inflight' = (IF ack \/ inflight = NoPiece THEN SendPiece(res.s) ELSE inflight)
        /\ pos' = pos + n /\ UNCHANGED <<webconn, served, answer>>
    BY <1>2, <1>14
  <2>2. RequestInv'
    <3>1. SendPiece(res.s) \in Pieces /\ inflight \in Pieces
      BY <1>8, WebSizes, PieceSent DEF WebInv, RequestInv
    <3>2. inflight' \in Pieces
      BY <2>1, <3>1
    <3>3. pos' \in 0 .. Len(answer)
      BY <1>3, <1>5, <2>1
    <3> QED
      BY <1>8, <2>1, <3>2, <3>3 DEF WebInv, RequestInv
  <2>3. AnswerInv'
    <3>1. \A st \in Nat \ {0}, bl \in Nat :
            Layout(answer', st, bl) => Parsing(answer', web', pos', handed', st, bl)
      BY <1>6, <1>14, <2>1
    <3>2. handed' \in Seq(WebUnits) /\ IsPrefix(handed', Body(answer')) /\ webconn' = "up"
      BY <1>1, <1>9, <1>10, <1>14, <2>1
    <3> QED
      BY <3>1, <3>2 DEF AnswerInv
  <2> QED
    BY <2>1, <2>2, <2>3 DEF WebInv
<1> QED
  BY <1>8, <1>11, <1>12, <1>14

(* The invariant of the web client in its initial states.                  *)
LEMMA WebInitially ==
    ASSUME WebInit
    PROVE  WebInv
<1>1. RequestInv
  <2>1. web \in WebRecords
    BY WebSizes DEF WebInit, WebRecords, ParserStates
  <2>2. inflight \in Pieces
    BY WebSizes DEF WebInit, Pieces, NoPiece
  <2>3. pos = 0 /\ answer = <<>> /\ served = 0 /\ webconn = "none"
    BY DEF WebInit
  <2>4. pos \in 0 .. Len(answer)
    BY <2>3
  <2> QED
    BY <2>1, <2>2, <2>3, <2>4 DEF RequestInv
<1>2. AnswerInv
  <2>1. IsPrefix(<<>>, Body(<<>>)) /\ <<>> \in Seq(WebUnits)
    BY NothingHanded
  <2>2. webconn = "none" /\ answer = <<>> /\ handed = <<>>
    BY DEF WebInit
  <2> QED
    BY <2>1, <2>2 DEF AnswerInv
<1> QED
  BY <1>1, <1>2 DEF WebInv

(* webclient_appcall when the connection is established.                   *)
LEMMA ConnectedKeeps ==
    ASSUME WebInv, AppConnected
    PROVE  WebInv'
<1>1. /\ webconn = "syn sent" /\ webconn' = "up"
      /\ web' = [web EXCEPT !.timer = 0, !.state = "STATUSLINE"]
      /\ inflight' = SendPiece(web) /\ UNCHANGED <<served, answer, pos, handed>>
  BY DEF AppConnected
<1>2. /\ web \in WebRecords /\ web.left + web.ptr = RequestLen /\ answer = <<>> /\ handed = <<>>
      /\ web.lineptr = 0 /\ pos \in 0 .. Len(answer)
  BY <1>1 DEF WebInv, RequestInv, AnswerInv
<1>3. /\ web' \in WebRecords /\ web'.state = "STATUSLINE" /\ web'.lineptr = 0
      /\ web'.left + web'.ptr = RequestLen
  <2> DEFINE x == [web EXCEPT !.timer = 0]
             y == [x EXCEPT !.state = "STATUSLINE"]
  <2>1. web' = y
    BY <1>1
  <2>2. x \in WebRecords /\ SameParser(x, web) /\ x.left = web.left /\ x.ptr = web.ptr
    BY <1>2, TimerSet
  <2>3. "STATUSLINE" \in ParserStates \cup {"CLOSE"}
    BY DEF ParserStates
  <2> HIDE DEF x
  <2>4. y \in WebRecords /\ y.state = "STATUSLINE" /\ y.lineptr = x.lineptr /\ y.left = x.left /\ y.ptr = x.ptr
    BY <2>2, <2>3, StateSet
  <2> HIDE DEF y
  <2> QED
    BY <1>2, <2>1, <2>2, <2>4 DEF SameParser
<1>4. inflight' \in Pieces
  BY <1>1, <1>2, WebSizes, PieceSent
<1>5. pos = 0
  <2>1. Len(answer) = 0
    BY <1>2
  <2> QED
    BY <1>2, <2>1
<1>6. RequestInv'
  BY <1>1, <1>3, <1>4 DEF WebInv, RequestInv
<1>7. \A status \in Nat \ {0}, blank \in Nat : Parsing(answer', web', pos', handed', status, blank)
  <2>1. /\ answer' = <<>> /\ pos' = 0 /\ handed' = <<>> /\ web'.state = "STATUSLINE"
    BY <1>1, <1>2, <1>3, <1>5
  <2>2. \A status \in Nat \ {0}, blank \in Nat : Parsing(<<>>, web', 0, <<>>, status, blank)
    <3>1. \A status \in Nat \ {0} : 0 < status
      OBVIOUS
    <3> QED
      BY <2>1, <3>1 DEF Parsing
  <2> QED
    BY <2>1, <2>2, Zenon
<1>8. AnswerInv'
  BY <1>1, <1>7 DEF WebInv, AnswerInv
<1> QED
  BY <1>1, <1>6, <1>8 DEF WebInv

(* The server answers when it has the whole request, and not before.       *)
LEMMA ServerKeeps ==
    ASSUME WebInv, ServerGets
    PROVE  WebInv'
<1>1. /\ webconn = "up" /\ inflight # NoPiece /\ ~(served >= inflight.to) /\ served' = inflight.to
      /\ answer' \in (IF inflight.to = RequestLen THEN Responses ELSE {<<>>})
      /\ UNCHANGED <<web, webconn, inflight, pos, handed>>
  BY DEF ServerGets, Got
<1>2. /\ inflight \in Pieces /\ served \in Nat /\ answer = <<>> /\ pos = 0
      /\ handed \in Seq(WebUnits) /\ IsPrefix(handed, Body(answer))
  <2>1. inflight.to \in 0 .. RequestLen /\ served \in Nat /\ (answer # <<>> => served = RequestLen)
    BY DEF WebInv, RequestInv, Pieces
  <2>2. answer = <<>>
    BY <1>1, <2>1, WebSizes
  <2>3. Len(answer) = 0 /\ pos \in 0 .. Len(answer)
    BY <2>2 DEF WebInv, RequestInv
  <2>4. pos = 0
    BY <2>3
  <2> QED
    BY <2>2, <2>4 DEF WebInv, RequestInv, AnswerInv
<1>3. handed = <<>>
  BY <1>2, NoAnswerNoData
<1>4. inflight.to \in Nat
  BY <1>2, WebSizes DEF Pieces
<1>5. /\ answer' # <<>> => served' = RequestLen
      /\ answer' = <<>> \/ answer' \in Responses
  BY <1>1
<1>6. Len(answer') \in Nat
  BY <1>5, AnswerLayout
<1>7. RequestInv'
  <2>1. pos' \in 0 .. Len(answer')
    BY <1>1, <1>2, <1>6
  <2> QED
    BY <1>1, <1>4, <1>5, <2>1 DEF WebInv, RequestInv
<1>8. AnswerInv'
  <2>1. web.state # "CLOSE" => web.state = "STATUSLINE"
    <3> SUFFICES ASSUME web.state # "CLOSE" PROVE web.state = "STATUSLINE"
      OBVIOUS
    <3>1. PICK status \in Nat \ {0}, blank \in Nat : Layout(answer, status, blank)
      BY <1>2, AnswerLayout
    <3>2. Parsing(answer, web, pos, handed, status, blank)
      BY <1>1, <3>1 DEF WebInv, AnswerInv
    <3> QED
      BY <1>2, <3>2 DEF Parsing
  <2>2. web.state # "CLOSE" => \A status \in Nat \ {0}, blank \in Nat :
          Parsing(answer', web', pos', handed', status, blank)
    BY <1>1, <1>2, <1>3, <2>1 DEF Parsing
  <2>3. handed' \in Seq(WebUnits) /\ IsPrefix(handed', Body(answer'))
    BY <1>1, <1>2, <1>3, <1>5, NothingHanded
  <2> QED
    BY <1>1, <2>2, <2>3 DEF AnswerInv
<1> QED
  BY <1>1, <1>7, <1>8 DEF WebInv

(* The calls for earlier connections                                       *)
LEMMA LateKeeps ==
    ASSUME WebInv, LateGone \/ LateClosed
    PROVE  WebInv'
<1>0. web \in WebRecords
  BY DEF WebInv, RequestInv
<1>1. CASE UNCHANGED <<web, webconn, transfer>>
  BY <1>1 DEF transfer, WebInv, RequestInv, AnswerInv
<1>2. CASE Connects(web)
  BY <1>0, <1>2, ConnectsKeeps
<1>3. CASE webconn' = "two" /\ web' = Connecting(web) /\ UNCHANGED transfer
  <2>1. web' \in WebRecords /\ web'.left + web'.ptr = RequestLen
    BY <1>0, <1>3, WebSizes, Connected
  <2>2. UNCHANGED <<inflight, served, answer, pos, handed>>
    BY <1>3 DEF transfer
  <2>3. RequestInv'
    BY <1>3, <2>1, <2>2 DEF WebInv, RequestInv
  <2>4. AnswerInv'
    BY <1>3, <2>2 DEF WebInv, AnswerInv
  <2> QED
    BY <2>3, <2>4 DEF WebInv
<1> QED
  BY <1>1, <1>2, <1>3 DEF LateGone, LateClosed

(* Every call of webclient_appcall keeps the invariant.                    *)
LEMMA WebStep ==
    ASSUME WebInv, [WebNext]_webVars
    PROVE  WebInv'
<1>0. /\ web \in WebRecords /\ webconn \in {"none", "syn sent", "up", "two"} /\ pos \in 0 .. Len(answer)
      /\ inflight \in Pieces /\ (webconn # "none" => web.left + web.ptr = RequestLen)
      /\ (answer = <<>> \/ answer \in Responses)
      /\ handed \in Seq(WebUnits) /\ IsPrefix(handed, Body(answer))
  BY DEF WebInv, RequestInv, AnswerInv
<1>1. pos \in Nat /\ pos <= Len(answer) /\ Len(answer) \in Nat
  <2>1. PICK n \in Nat : n = Len(answer)
    BY <1>0, AnswerLayout
  <2>2. pos \in 0 .. n
    BY <1>0, <2>1, Zenon
  <2>3. pos \in Nat /\ pos <= n
    BY <2>2
  <2> QED
    BY <2>1, <2>3, Zenon
<1>2. CASE WebGet
  BY <1>0, <1>2, ConnectsKeeps DEF WebGet
<1>3. CASE WebClose
  <2>1. /\ webconn # "none" /\ web' = [web EXCEPT !.state = "CLOSE"]
        /\ UNCHANGED <<webconn, inflight, served, answer, pos, handed>>
    BY <1>3 DEF WebClose, transfer
  <2>2. "CLOSE" \in ParserStates \cup {"CLOSE"}
    OBVIOUS
  <2>3. /\ web' \in WebRecords /\ web'.state = "CLOSE" /\ web'.lineptr = web.lineptr
        /\ web'.left = web.left /\ web'.ptr = web.ptr
    BY <1>0, <2>1, <2>2, StateSet, ZenonT(40)
  <2>4. RequestInv'
    BY <2>1, <2>3 DEF WebInv, RequestInv
  <2>5. AnswerInv'
    BY <2>1, <2>3 DEF WebInv, AnswerInv
  <2> QED
    BY <2>1, <2>4, <2>5 DEF WebInv
<1>4. CASE AppConnected
  BY <1>4, ConnectedKeeps
<1>5. CASE AppClosing \/ AppGone
  <2>1. web' = web /\ handed' = handed /\ \E fin : Gone(fin)
    BY <1>5 DEF AppClosing, AppGone
  <2> QED
    BY <1>0, <2>1, ConnectionGone
<1>6. CASE WebAck
  <2>1. AppEvent(TRUE, 0, FALSE)
    BY <1>6 DEF WebAck
  <2>2. TRUE \in BOOLEAN /\ FALSE \in BOOLEAN
    OBVIOUS
  <2>3. 0 \in Nat /\ pos + 0 <= Len(answer)
    BY <1>1
  <2> QED
    BY <2>1, <2>2, <2>3, EventKeeps
<1>7. CASE WebData
  <2>1. PICK n \in 1 .. Len(answer) - pos :
           \E fin \in {FALSE} \cup {pos + n = Len(answer)} : AppEvent(Got, n, fin)
    BY <1>7 DEF WebData
  <2>2. PICK fin \in {FALSE} \cup {pos + n = Len(answer)} : AppEvent(Got, n, fin)
    BY <2>1
  <2>3. n \in Nat /\ pos + n <= Len(answer)
    BY <1>1
  <2>4. fin \in BOOLEAN /\ Got \in BOOLEAN
    BY <2>2 DEF Got
  <2> QED
    BY <2>3, <2>4, <2>2, EventKeeps
<1>8. CASE WebFin
  <2>1. AppEvent(Got, 0, TRUE)
    BY <1>8 DEF WebFin
  <2>2. TRUE \in BOOLEAN /\ Got \in BOOLEAN
    BY DEF Got
  <2>3. 0 \in Nat /\ pos + 0 <= Len(answer)
    BY <1>1
  <2> QED
    BY <2>1, <2>2, <2>3, EventKeeps
<1>9. CASE WebRexmit
  <2>1. /\ webconn = "up" /\ inflight' = SendPiece(web) /\ web' = web
        /\ UNCHANGED <<webconn, served, answer, pos, handed>>
    BY <1>9 DEF WebRexmit, Calls
  <2>2. inflight' \in Pieces
    BY <1>0, <2>1, WebSizes, PieceSent
  <2> QED
    BY <1>0, <2>1, <2>2, ParserStays DEF SameParser
<1>10. CASE WebPoll
  <2>0. web.timer \in Nat
    BY <1>0 DEF WebRecords
  <2>1. PICK v \in Nat : v = web.timer + 1
    BY <2>0
  <2>2. /\ webconn = "up" /\ web' = [web EXCEPT !.timer = v]
        /\ \/ Gone(FALSE) /\ UNCHANGED handed
           \/ UNCHANGED <<webconn, inflight, served, answer, pos, handed>>
    BY <1>10, <2>1 DEF WebPoll, Calls, transfer
  <2>3. PICK q : q = web'
    OBVIOUS
  <2>4. q \in WebRecords /\ SameParser(q, web) /\ q.left = web.left /\ q.ptr = web.ptr
    BY <1>0, <2>2, <2>3, TimerSet
  <2>5. CASE Gone(FALSE) /\ UNCHANGED handed
    BY <1>0, <2>2, <2>3, <2>4, <2>5, ConnectionGone
  <2>6. CASE UNCHANGED <<webconn, inflight, served, answer, pos, handed>>
    BY <1>0, <2>3, <2>4, <2>6, ParserStays
  <2> QED
    BY <2>2, <2>5, <2>6
<1>11. CASE ServerGets
  BY <1>11, ServerKeeps
<1>12. CASE LateGone \/ LateClosed
  BY <1>12, LateKeeps
<1>13. CASE UNCHANGED webVars
  BY <1>13 DEF webVars, transfer, WebInv, RequestInv, AnswerInv
<1> QED
  BY <1>2, <1>3, <1>4, <1>5, <1>6, <1>7, <1>8, <1>9, <1>10, <1>11, <1>12, <1>13 DEF WebNext

\* What webclient_datahandler gets is a beginning of the body of the answer, whatever the
\* answers are and wherever the segments cut them, nothing of a redirection, whatever calls
\* come for earlier connections: webclient_appcall, newdata and the parsers.
THEOREM DataHanded == WebSpec => []DataIsBody
<1>1. WebInit => WebInv
  BY WebInitially
<1>2. WebInv /\ [WebNext]_webVars => WebInv'
  BY WebStep
<1>3. WebInv => DataIsBody
  BY DEF WebInv, AnswerInv, DataIsBody
<1> QED
  BY <1>1, <1>2, <1>3, PTL DEF WebSpec

(***************************************************************************)
(* The telnet server                                                       *)
(***************************************************************************)

TnStates == {"NORMAL", "IAC", "will", "do", "CLOSE"}
Sessions == [state : TnStates, buf : Seq(Units), lines : [LineNo -> 0 .. NUMLINES],
             numsent : 0 .. NUMLINES]
Blocks == [LineNo -> {0, 1}]
Pairs == [s : Sessions, m : Blocks]

(* The lines of a session are allocated, each once; no other block is.     *)
Sound(r) == /\ \A i \in LineNo : r.s.lines[i] # NoLine => r.m[r.s.lines[i]] = 1
            /\ \A i, j \in LineNo : r.s.lines[i] = r.s.lines[j] /\ i # j => r.s.lines[i] = NoLine
Exact(r) == \A b \in LineNo : r.m[b] = 1 => \E i \in LineNo : r.s.lines[i] = b
Good(sound, exact) == {r \in Pairs : (sound => Sound(r)) /\ (exact => Exact(r))}

(* The sizes of the telnet server are numbers, and what clients type is    *)
(* units.                                                                  *)
LEMMA TnSizes == NUMLINES \in Nat \ {0} /\ PerSegment \in Nat \ {0} /\ TelnetBuf \in Nat \ {0}
                 /\ Inputs \subseteq Seq(Units)
BY TelnetAssumption DEF TelnetAssumption

(* Changes that touch neither lines nor pool keep lines and blocks in      *)
(* agreement.                                                              *)
LEMMA SameLines ==
    ASSUME NEW sound, NEW exact, NEW r \in Good(sound, exact), NEW q \in Pairs,
           q.s.lines = r.s.lines, q.m = r.m
    PROVE  q \in Good(sound, exact)
BY DEF Good, Sound, Exact

(* The fields of a session set one at a time                               *)
LEMMA TnBufSet ==
    ASSUME NEW r \in Pairs, NEW b \in Seq(Units), NEW q, q = [r EXCEPT !.s.buf = b]
    PROVE  q \in Pairs /\ q.s.lines = r.s.lines /\ q.m = r.m
BY DEF Pairs, Sessions

(* A line goes to a free place, in a free block.                           *)
LEMMA OutputLineGood ==
    ASSUME NEW sound, NEW exact, NEW r \in Good(sound, exact), NEW q, q = OutputLine(r)
    PROVE  q \in Good(sound, exact)
<1> DEFINE room == {i \in LineNo : r.s.lines[i] = NoLine}
<1>1. r \in Pairs /\ r.s.lines \in [LineNo -> 0 .. NUMLINES] /\ r.m \in Blocks
  BY DEF Good, Pairs, Sessions
<1>2. CASE FreeBlocks(r.m) = {} \/ room = {}
  <2>1. q = r
    BY <1>2 DEF OutputLine
  <2> QED
    BY <2>1
<1>3. CASE FreeBlocks(r.m) # {} /\ room # {}
  <2>1. FreeBlocks(r.m) \in SUBSET Nat /\ room \in SUBSET Nat
    BY DEF FreeBlocks, LineNo
  <2>2. PICK b \in FreeBlocks(r.m) : b = FirstFree(r.m)
    <3>1. \E b \in FreeBlocks(r.m) : \A x \in FreeBlocks(r.m) : b <= x
      BY <1>3, <2>1, LeastIn
    <3> QED
      BY <3>1 DEF FirstFree
  <2>3. PICK i \in room : i = CHOOSE k \in room : \A j \in room : k <= j
    <3> HIDE DEF room
    <3>1. \E i \in room : \A j \in room : i <= j
      BY <1>3, <2>1, LeastIn
    <3> QED
      BY <3>1
  <2>4. b \in LineNo /\ r.m[b] = 0 /\ i \in LineNo /\ r.s.lines[i] = NoLine
    BY <2>2, <2>3 DEF FreeBlocks
  <2> DEFINE s1 == [r.s EXCEPT !.lines[i] = b]
             m1 == [r.m EXCEPT ![b] = @ + 1]
  <2>5. q = [s |-> s1, m |-> m1]
    BY <1>3, <2>2, <2>3 DEF OutputLine, MembAlloc
  <2>6. m1 \in Blocks /\ m1[b] = 1 /\ \A x \in LineNo \ {b} : m1[x] = r.m[x]
    BY <1>1, <2>4 DEF Blocks
  <2>7. /\ s1 \in Sessions /\ s1.lines[i] = b
        /\ \A j \in LineNo \ {i} : s1.lines[j] = r.s.lines[j]
    <3>1. b \in 0 .. NUMLINES
      BY <2>4, TnSizes DEF LineNo
    <3>2. r.s \in Sessions
      BY <1>1 DEF Pairs
    <3> QED
      BY <1>1, <2>4, <3>1, <3>2 DEF Sessions
  <2> HIDE DEF s1, m1
  <2>8. q \in Pairs /\ q.s = s1 /\ q.m = m1
    BY <2>5, <2>6, <2>7 DEF Pairs
  <2>9. b # NoLine
    BY <2>4 DEF NoLine, LineNo
  <2>10. sound => Sound(q)
    <3> SUFFICES ASSUME sound PROVE Sound(q)
      OBVIOUS
    <3>1. Sound(r)
      BY DEF Good
    <3>2. \A j \in LineNo \ {i} : s1.lines[j] # b
      <4>1. \A j \in LineNo : r.s.lines[j] # NoLine => r.m[r.s.lines[j]] = 1
        BY <3>1 DEF Sound
      <4> QED
        BY <2>4, <2>7, <2>9, <4>1
    <3>3. \A j \in LineNo : s1.lines[j] # NoLine => m1[s1.lines[j]] = 1
      <4> SUFFICES ASSUME NEW j \in LineNo, s1.lines[j] # NoLine PROVE m1[s1.lines[j]] = 1
        OBVIOUS
      <4>0. s1.lines[j] # 0
        BY DEF NoLine
      <4>1. CASE j = i
        BY <2>6, <2>7, <4>1
      <4>2. CASE j # i
        <5>1. s1.lines[j] = r.s.lines[j] /\ r.m[r.s.lines[j]] = 1
          BY <2>7, <3>1, <4>2 DEF Sound
        <5>2. r.s.lines[j] \in LineNo
          <6>1. PICK l \in 0 .. NUMLINES : l = r.s.lines[j]
            BY <1>1
          <6>2. l # 0
            BY <4>0, <5>1, <6>1
          <6>3. l \in LineNo
            BY <6>1, <6>2, TnSizes DEF LineNo
          <6> QED
            BY <6>1, <6>3
        <5> QED
          BY <2>6, <3>2, <4>2, <5>1, <5>2
      <4> QED
        BY <4>1, <4>2
    <3>4. \A j, k \in LineNo : s1.lines[j] = s1.lines[k] /\ j # k => s1.lines[j] = NoLine
      <4>1. \A j, k \in LineNo : r.s.lines[j] = r.s.lines[k] /\ j # k => r.s.lines[j] = NoLine
        BY <3>1 DEF Sound
      <4> QED
        BY <2>7, <3>2, <4>1
    <3> QED
      BY <2>8, <3>3, <3>4 DEF Sound
  <2>11. exact => Exact(q)
    <3> SUFFICES ASSUME exact, NEW x \in LineNo, q.m[x] = 1 PROVE \E j \in LineNo : q.s.lines[j] = x
      BY DEF Exact
    <3>1. CASE x = b
      BY <2>4, <2>7, <2>8, <3>1
    <3>2. CASE x # b
      <4>1. r.m[x] = 1
        BY <2>6, <2>8, <3>2
      <4>2. PICK j \in LineNo : r.s.lines[j] = x
        BY <4>1 DEF Good, Exact
      <4>3. j # i
        BY <2>4, <4>2 DEF NoLine, LineNo
      <4> QED
        BY <2>7, <2>8, <4>2, <4>3
    <3> QED
      BY <3>1, <3>2
  <2> QED
    BY <2>8, <2>10, <2>11 DEF Good
<1> QED
  BY <1>2, <1>3

(* shell_output allocates a block for each line, and drops the line if     *)
(* there is no place.                                                      *)
LEMMA OutputGood ==
    ASSUME NEW sound, NEW exact, NEW r \in Good(sound, exact), NEW n \in Nat, NEW q, q = Output(r, n)
    PROVE  q \in Good(sound, exact)
<1> DEFINE G == Good(sound, exact)
           g == [i \in 1 .. n |-> [x \in G |-> OutputLine(x)]]
           Run(f) == f = [i \in 0 .. n |-> IF i = 0 THEN r ELSE OutputLine(f[i - 1])]
<1>1. \A x \in G : OutputLine(x) \in G
  BY OutputLineGood
<1>2. r \in G
  OBVIOUS
<1> HIDE DEF G
<1>3. g \in [1 .. n -> [G -> G]]
  BY <1>1
<1>4. \E f : Run(f)
  <2> HIDE DEF g
  <2>1. PICK f : IsLoop(f, n, G, r, g)
    BY <1>2, <1>3, LoopRuns
  <2>2. f \in [0 .. n -> G] /\ f[0] = r /\ \A i \in 1 .. n : f[i] = g[i][f[i - 1]]
    BY <2>1 DEF IsLoop
  <2>3. \A i \in 1 .. n : f[i] = OutputLine(f[i - 1])
    <3>1. \A i \in 1 .. n : f[i - 1] \in G
      BY <2>2
    <3> QED
      BY <2>2, <3>1 DEF g
  <2>4. Run(f)
    BY <2>2, <2>3
  <2> QED
    BY <2>4
<1>5. PICK f : Run(f) /\ q = f[n]
  <2>1. q = (CHOOSE f : Run(f))[n]
    BY DEF Output
  <2> HIDE DEF Run
  <2> QED
    BY <1>4, <2>1
<1>6. f[0] = r /\ \A i \in 1 .. n : f[i - 1] \in G => f[i] = g[i][f[i - 1]]
  BY <1>5
<1> HIDE DEF g, Run
<1>7. f[n] \in G
  BY <1>2, <1>3, <1>6, LoopStays
<1> QED
  BY <1>5, <1>7 DEF G

(* Setting the state of the telnet parser touches no line.                 *)
LEMMA TnStateGood ==
    ASSUME NEW sound, NEW exact, NEW r \in Good(sound, exact), NEW st \in TnStates,
           NEW q, q = [r EXCEPT !.s.state = st]
    PROVE  q \in Good(sound, exact)
<1>1. r \in Pairs
  BY DEF Good
<1>2. q \in Pairs /\ q.s.lines = r.s.lines /\ q.m = r.m
  BY <1>1 DEF Pairs, Sessions
<1> QED
  BY <1>2, SameLines

(* Changing the line being typed touches no line of output.                *)
LEMMA TnBufGood ==
    ASSUME NEW sound, NEW exact, NEW r \in Good(sound, exact), NEW b \in Seq(Units),
           NEW q, q = [r EXCEPT !.s.buf = b]
    PROVE  q \in Good(sound, exact)
<1>1. r \in Pairs
  BY DEF Good
<1>2. q \in Pairs /\ q.s.lines = r.s.lines /\ q.m = r.m
  BY <1>1, TnBufSet
<1> QED
  BY <1>2, SameLines

(* A command line that is handed to the shell answers through              *)
(* shell_output.                                                           *)
LEMMA ShellInputGood ==
    ASSUME NEW sound, NEW exact, NEW r \in Good(sound, exact), NEW q, q = ShellInput(r)
    PROVE  q \in Good(sound, exact)
<1> DEFINE first == IF r.s.buf = <<>> THEN "nl" ELSE r.s.buf[1]
           shown == CASE first = "exit" -> [r EXCEPT !.s.state = "CLOSE"]
                      [] first = "?" -> Output(r, 5)
                      [] OTHER -> Output(r, 1)
           next == Output(shown, 1)
<1>1. q = [next EXCEPT !.s.buf = <<>>]
  BY DEF ShellInput
<1> HIDE DEF first
<1>2. "CLOSE" \in TnStates
  BY DEF TnStates
<1>3. [r EXCEPT !.s.state = "CLOSE"] \in Good(sound, exact)
  BY <1>2, TnStateGood
<1>4. 5 \in Nat /\ 1 \in Nat
  OBVIOUS
<1>5. Output(r, 5) \in Good(sound, exact) /\ Output(r, 1) \in Good(sound, exact)
  BY <1>4, OutputGood
<1>6. shown \in Good(sound, exact)
  BY <1>3, <1>5
<1> HIDE DEF shown
<1>7. next \in Good(sound, exact)
  BY <1>4, <1>6, OutputGood
<1>8. <<>> \in Seq(Units)
  OBVIOUS
<1> HIDE DEF next
<1> QED
  BY <1>1, <1>7, <1>8, TnBufGood

(* get_char, also when it ends the line.                                   *)
LEMMA GetCharGood ==
    ASSUME NEW sound, NEW exact, NEW r \in Good(sound, exact), NEW u \in Units, NEW q, q = GetChar(r, u)
    PROVE  q \in Good(sound, exact)
<1>1. CASE u = "cr"
  BY <1>1 DEF GetChar
<1>2. CASE u # "cr" /\ (u = "nl" \/ Len(r.s.buf) = TelnetBuf - 1)
  BY <1>2, ShellInputGood DEF GetChar
<1>3. CASE u # "cr" /\ ~(u = "nl" \/ Len(r.s.buf) = TelnetBuf - 1)
  <2>1. r.s.buf \in Seq(Units)
    BY DEF Good, Pairs, Sessions
  <2>2. Append(r.s.buf, u) \in Seq(Units)
    BY <2>1, AppendProperties
  <2>3. q = [r EXCEPT !.s.buf = Append(r.s.buf, u)]
    BY <1>3 DEF GetChar
  <2> QED
    BY <2>2, <2>3, TnBufGood
<1> QED
  BY <1>1, <1>2, <1>3

(* newdata, for one character or command of the telnet protocol.           *)
LEMMA TelnetUnitGood ==
    ASSUME NEW sound, NEW exact, NEW r \in Good(sound, exact), NEW u \in Units, NEW q, q = TelnetUnit(r, u)
    PROVE  q \in Good(sound, exact)
<1>1. r.s.state \in TnStates
  BY DEF Good, Pairs, Sessions
<1>2. {"NORMAL", "IAC", "will", "do"} \subseteq TnStates
  BY DEF TnStates
<1>3. \A x \in Good(sound, exact), st \in TnStates : [x EXCEPT !.s.state = st] \in Good(sound, exact)
  BY TnStateGood
<1>4. CASE r.s.state = "NORMAL"
  <2>1. q = IF u = "iac" THEN [r EXCEPT !.s.state = "IAC"] ELSE GetChar(r, u)
    BY <1>4 DEF TelnetUnit
  <2>2. GetChar(r, u) \in Good(sound, exact)
    BY GetCharGood
  <2> QED
    BY <1>2, <1>3, <2>1, <2>2
<1>5. CASE r.s.state = "IAC"
  <2>1. q = IF u = "iac" THEN [GetChar(r, u) EXCEPT !.s.state = "NORMAL"]
            ELSE [r EXCEPT !.s.state = IF u \in {"will", "do"} THEN u ELSE "NORMAL"]
    BY <1>5 DEF TelnetUnit
  <2>2. GetChar(r, u) \in Good(sound, exact)
    BY GetCharGood
  <2>3. (IF u \in {"will", "do"} THEN u ELSE "NORMAL") \in TnStates
    BY <1>2
  <2> QED
    BY <1>2, <1>3, <2>1, <2>2, <2>3
<1>6. CASE r.s.state \in {"will", "do"}
  <2>1. q = [OutputLine(r) EXCEPT !.s.state = "NORMAL"]
    BY <1>6 DEF TelnetUnit
  <2>2. OutputLine(r) \in Good(sound, exact)
    BY OutputLineGood
  <2> QED
    BY <1>2, <1>3, <2>1, <2>2
<1>7. CASE r.s.state = "CLOSE"
  BY <1>7 DEF TelnetUnit
<1> QED
  BY <1>1, <1>4, <1>5, <1>6, <1>7 DEF TnStates

(* newdata, for a whole segment.                                           *)
LEMMA NewdataGood ==
    ASSUME NEW sound, NEW exact, NEW r \in Good(sound, exact), NEW data \in Seq(Units),
           NEW q, q = TelnetNewdata(r, data)
    PROVE  q \in Good(sound, exact) /\ (data = <<>> => q = r)
<1> DEFINE G == Good(sound, exact)
           n == Len(data)
           g == [i \in 1 .. n |-> [x \in G |-> TelnetUnit(x, data[i])]]
           Run(f) == f = [i \in 0 .. n |-> IF i = 0 THEN r ELSE TelnetUnit(f[i - 1], data[i])]
<1>0. n \in Nat /\ \A i \in 1 .. n : data[i] \in Units
  BY LenProperties, ElementOfSeq
<1>1. \A x \in G : \A i \in 1 .. n : TelnetUnit(x, data[i]) \in G
  BY <1>0, TelnetUnitGood
<1>2. r \in G
  OBVIOUS
<1> HIDE DEF G, n
<1>3. g \in [1 .. n -> [G -> G]]
  BY <1>1
<1>4. \E f : Run(f)
  <2> HIDE DEF g
  <2>1. PICK f : IsLoop(f, n, G, r, g)
    BY <1>0, <1>2, <1>3, LoopRuns
  <2>2. f \in [0 .. n -> G] /\ f[0] = r /\ \A i \in 1 .. n : f[i] = g[i][f[i - 1]]
    BY <2>1 DEF IsLoop
  <2>3. \A i \in 1 .. n : f[i] = TelnetUnit(f[i - 1], data[i])
    <3>1. \A i \in 1 .. n : f[i - 1] \in G
      BY <1>0, <2>2
    <3> QED
      BY <2>2, <3>1 DEF g
  <2>4. Run(f)
    BY <2>2, <2>3
  <2> QED
    BY <2>4
<1>5. PICK f : Run(f) /\ q = f[n]
  <2>1. q = (CHOOSE f : Run(f))[n]
    BY DEF TelnetNewdata, n
  <2> HIDE DEF Run
  <2> QED
    BY <1>4, <2>1
<1>6. f[0] = r /\ \A i \in 1 .. n : f[i - 1] \in G => f[i] = g[i][f[i - 1]]
  BY <1>0, <1>5
<1>7. data = <<>> => n = 0
  BY DEF n
<1> HIDE DEF g, Run
<1>8. f[n] \in G
  BY <1>0, <1>2, <1>3, <1>6, LoopStays
<1> QED
  BY <1>5, <1>6, <1>7, <1>8 DEF G

(* closed: the blocks of all lines are free.                               *)
LEMMA ClosedGood ==
    ASSUME NEW exact \in BOOLEAN, NEW r \in Pairs, exact => Exact(r), NEW q, q = TelnetClosed(r)
    PROVE  q \in Pairs /\ q.s = r.s /\ (exact => \A b \in LineNo : q.m[b] = 0)
<1> DEFINE B == {r.s.lines[i] : i \in LineNo}
           m1 == MembFree(r.m, B)
<1>1. q = [r EXCEPT !.m = m1]
  BY DEF TelnetClosed
<1>2. r \in Pairs /\ r.m \in Blocks
  BY DEF Pairs
<1>3. exact => \A b \in LineNo : r.m[b] = 1 => b \in B
  BY DEF Exact
<1> HIDE DEF B
<1>4. m1 \in Blocks /\ \A b \in LineNo : b \in B => m1[b] = 0
  BY <1>2 DEF MembFree, Blocks
<1>5. \A b \in LineNo : r.m[b] = 0 => m1[b] = 0
  BY <1>2 DEF MembFree, Blocks
<1>6. \A b \in LineNo : r.m[b] \in {0, 1}
  BY <1>2 DEF Blocks
<1> HIDE DEF m1
<1>7. q \in Pairs /\ q.s = r.s /\ q.m = m1
  BY <1>1, <1>2, <1>4 DEF Pairs
<1> QED
  BY <1>3, <1>4, <1>5, <1>6, <1>7

(* acked: the first numsent lines go with their blocks, the others move up. *)
AcksWell(sound, exact, r, q) ==
    /\ q \in Pairs /\ \A b \in LineNo : r.m[b] = 0 => q.m[b] = 0
    /\ sound => q \in Good(sound, exact)
LEMMA AckedGood ==
    ASSUME NEW sound, NEW exact, NEW r \in Good(sound, exact), NEW q, q = TelnetAcked(r)
    PROVE  AcksWell(sound, exact, r, q)
<1> DEFINE n == r.s.numsent
           l1 == [i \in LineNo |-> IF i + n <= NUMLINES THEN r.s.lines[i + n] ELSE NoLine]
           m1 == MembFree(r.m, {r.s.lines[i] : i \in 1 .. n})
           x == [r.s EXCEPT !.numsent = 0]
           y == [x EXCEPT !.lines = l1]
<1>1. q = [s |-> y, m |-> m1]
  BY DEF TelnetAcked
<1>2. /\ r.s \in Sessions /\ r.m \in Blocks /\ n \in 0 .. NUMLINES /\ n \in Nat
      /\ r.s.lines \in [LineNo -> 0 .. NUMLINES]
  BY TnSizes DEF Good, Pairs, Sessions
<1>3. x \in Sessions
  BY <1>2, TnSizes DEF Sessions
<1>4. l1 \in [LineNo -> 0 .. NUMLINES]
  <2>1. \A i \in LineNo : i + n <= NUMLINES => i + n \in LineNo
    BY <1>2, TnSizes DEF LineNo
  <2>2. NoLine \in 0 .. NUMLINES
    BY TnSizes DEF NoLine
  <2> HIDE DEF n
  <2> QED
    BY <1>2, <2>1, <2>2
<1> HIDE DEF x
<1>5. y \in Sessions /\ y.lines = l1
  <2> HIDE DEF l1
  <2> QED
    BY <1>3, <1>4 DEF Sessions
<1>6. m1 \in Blocks /\ \A b \in LineNo : m1[b] = IF \E i \in 1 .. n : r.s.lines[i] = b THEN 0 ELSE r.m[b]
  BY <1>2 DEF MembFree, Blocks
<1>7. \A i \in LineNo : l1[i] = IF i + n <= NUMLINES THEN r.s.lines[i + n] ELSE NoLine
  OBVIOUS
<1>8. (\A i \in 1 .. n : i \in LineNo) /\ (\A i \in LineNo : i \in Nat \ {0} /\ i <= NUMLINES)
      /\ \A i \in LineNo : i + n <= NUMLINES => i + n \in LineNo /\ i + n \notin 1 .. n
  BY <1>2, TnSizes DEF LineNo
<1>9. \A i \in LineNo : i \notin 1 .. n => i - n \in LineNo /\ (i - n) + n = i
  BY <1>2, TnSizes, SMTT(40) DEF LineNo
<1>10. \A b : b \in 0 .. NUMLINES /\ b # NoLine => b \in LineNo
  BY TnSizes DEF NoLine, LineNo
<1> HIDE DEF y, m1, l1, n
<1>11. q \in Pairs /\ q.s = y /\ q.m = m1
  BY <1>1, <1>5, <1>6 DEF Pairs
<1>12. ASSUME sound PROVE Sound(q)
  <2>1. /\ \A i \in LineNo : r.s.lines[i] # NoLine => r.m[r.s.lines[i]] = 1
        /\ \A i, j \in LineNo : r.s.lines[i] = r.s.lines[j] /\ i # j => r.s.lines[i] = NoLine
    BY <1>12 DEF Good, Sound
  <2>2. \A i \in LineNo : l1[i] # NoLine => m1[l1[i]] = 1
    <3> SUFFICES ASSUME NEW i \in LineNo, l1[i] # NoLine PROVE m1[l1[i]] = 1
      OBVIOUS
    <3>1. i + n <= NUMLINES /\ l1[i] = r.s.lines[i + n]
      BY <1>7
    <3>2. PICK k \in LineNo : k = i + n /\ k \notin 1 .. n
      BY <1>8, <3>1
    <3>3. r.s.lines[k] # NoLine /\ l1[i] = r.s.lines[k] /\ r.m[r.s.lines[k]] = 1
      BY <2>1, <3>1, <3>2
    <3>4. r.s.lines[k] \in LineNo
      BY <1>2, <1>10, <3>3
    <3>5. ~\E j \in 1 .. n : r.s.lines[j] = r.s.lines[k]
      BY <1>8, <2>1, <3>2, <3>3
    <3> QED
      BY <1>6, <3>3, <3>4, <3>5
  <2>3. \A i, j \in LineNo : l1[i] = l1[j] /\ i # j => l1[i] = NoLine
    <3> SUFFICES ASSUME NEW i \in LineNo, NEW j \in LineNo, l1[i] = l1[j], i # j, l1[i] # NoLine PROVE FALSE
      OBVIOUS
    <3>1. i + n <= NUMLINES /\ l1[i] = r.s.lines[i + n] /\ j + n <= NUMLINES /\ l1[j] = r.s.lines[j + n]
      BY <1>7
    <3>2. PICK k \in LineNo : k = i + n
      BY <1>8, <3>1
    <3>3. PICK l \in LineNo : l = j + n
      BY <1>8, <3>1
    <3>4. k # l
      BY <1>2, <1>8, <3>2, <3>3
    <3> QED
      BY <2>1, <3>1, <3>2, <3>3, <3>4
  <2> QED
    BY <1>5, <1>11, <2>2, <2>3 DEF Sound
<1>13. ASSUME exact PROVE Exact(q)
  <2> SUFFICES ASSUME NEW b \in LineNo, m1[b] = 1 PROVE \E i \in LineNo : l1[i] = b
    BY <1>5, <1>11 DEF Exact
  <2>1. r.m[b] = 1 /\ ~\E i \in 1 .. n : r.s.lines[i] = b
    BY <1>6
  <2>2. PICK i \in LineNo : r.s.lines[i] = b
    BY <1>13, <2>1 DEF Good, Exact
  <2>3. i \notin 1 .. n
    BY <2>1, <2>2
  <2>4. PICK k \in LineNo : k = i - n /\ k + n = i
    BY <1>9, <2>3
  <2>5. k + n <= NUMLINES
    BY <1>8, <2>4
  <2> QED
    BY <1>7, <2>2, <2>4, <2>5
<1> QED
  BY <1>6, <1>11, <1>12, <1>13 DEF Good, AcksWell

(* senddata finds how many lines to pack.                                  *)
LEMMA PackedIn ==
    ASSUME NEW s \in Sessions
    PROVE  Packed(s) \in 0 .. NUMLINES
<1> DEFINE Ends(n) == n = PerSegment \/ n = NUMLINES \/ s.lines[n + 1] = NoLine
           S == {n \in 0 .. NUMLINES : Ends(n)}
<1>1. NUMLINES \in S /\ S \in SUBSET Nat
  BY TnSizes
<1> HIDE DEF S
<1>2. PICK n \in S : \A k \in S : n <= k
  BY <1>1, LeastIn
<1>3. n \in 0 .. NUMLINES /\ Ends(n)
  BY <1>2 DEF S
<1>4. n <= PerSegment
  <2>1. PerSegment <= NUMLINES => PerSegment \in S
    BY TnSizes DEF S
  <2> QED
    BY <1>2, <1>3, <2>1, TnSizes
<1>5. \A i \in 1 .. n : s.lines[i] # NoLine
  <2> SUFFICES ASSUME NEW i \in 1 .. n, s.lines[i] = NoLine PROVE FALSE
    OBVIOUS
  <2>1. PICK k \in 0 .. NUMLINES : k = i - 1 /\ k + 1 = i /\ k < n
    BY <1>3, TnSizes
  <2>2. k \in S
    BY <2>1 DEF S
  <2> QED
    BY <1>2, <1>3, <2>1, <2>2
<1> QED
  BY <1>3, <1>4, <1>5 DEF Packed

(* senddata counts the lines that fit in a segment and keeps them all.     *)
LEMMA SendPacks ==
    ASSUME NEW r \in Pairs, NEW q, q = TelnetSenddata(r)
    PROVE  /\ q \in Pairs /\ q.s.numsent = Packed(r.s) /\ Packed(q.s) = Packed(r.s)
           /\ q.s.lines = r.s.lines /\ q.s.state = r.s.state /\ q.m = r.m
<1>1. r.s \in Sessions
  BY DEF Pairs
<1>2. PICK n \in 0 .. NUMLINES : n = Packed(r.s)
  BY <1>1, PackedIn
<1>3. q = [r EXCEPT !.s.numsent = n]
  BY <1>2 DEF TelnetSenddata
<1>4. q \in Pairs /\ q.s.lines = r.s.lines /\ q.s.state = r.s.state /\ q.m = r.m /\ q.s.numsent = n
  BY <1>1, <1>3 DEF Pairs, Sessions
<1>5. Packed(q.s) = Packed(r.s)
  BY <1>4 DEF Packed
<1> QED
  BY <1>2, <1>4, <1>5

(* senddata allocates and frees nothing.                                   *)
LEMMA SendStays ==
    ASSUME NEW sound, NEW exact, NEW r \in Good(sound, exact)
    PROVE  TelnetSenddata(r) \in Good(sound, exact)
<1>1. r \in Pairs
  BY DEF Good
<1>2. PICK q : q = TelnetSenddata(r)
  OBVIOUS
<1>3. q \in Pairs /\ q.s.lines = r.s.lines /\ q.m = r.m
  BY <1>1, <1>2, SendPacks
<1> QED
  BY <1>2, <1>3, SameLines

(* The same, one fact at a time                                            *)
LEMMA NothingNew ==
    ASSUME NEW r \in Pairs
    PROVE  TelnetNewdata(r, <<>>) = r
<1>1. r \in Good(FALSE, FALSE) /\ <<>> \in Seq(Units)
  BY DEF Good
<1>2. PICK q : q = TelnetNewdata(r, <<>>)
  OBVIOUS
<1> QED
  BY <1>1, <1>2, NewdataGood

(* newdata leaves the agreement of lines and blocks as it was.             *)
LEMMA NewdataStays ==
    ASSUME NEW sound, NEW exact, NEW r \in Good(sound, exact), NEW data \in Seq(Units)
    PROVE  TelnetNewdata(r, data) \in Good(sound, exact)
BY NewdataGood

(* acked frees blocks and takes none.                                      *)
LEMMA AckedFrees ==
    ASSUME NEW r \in Pairs, NEW q, q = TelnetAcked(r)
    PROVE  q \in Pairs /\ \A b \in LineNo : r.m[b] = 0 => q.m[b] = 0
<1>1. r \in Good(FALSE, FALSE)
  BY DEF Good
<1>2. AcksWell(FALSE, FALSE, r, q)
  BY <1>1, AckedGood
<1> QED
  BY <1>2 DEF AcksWell

(* When clients come one after the other, at most one connection is not    *)
(* over; their lines are there until it is closed.                         *)
Holds == up \/ old["closing"] > 0
OneByOne == /\ up => NoneEnding
            /\ \A e \in Ending : old[e] <= 1
            /\ \A e, f \in Ending : old[e] > 0 /\ old[f] > 0 => e = f
AllFree == old["over"] = 0 /\ old["closing"] = 0 => \A b \in LineNo : pool[b] = 0
(* Between the calls, and what a patient client has in transit             *)
TnInv ==
    /\ State \in Good(alone /\ Holds, alone /\ polite)
    /\ up \in BOOLEAN /\ old \in [Ending -> Nat] /\ onway \in Nat
    /\ patient \in BOOLEAN /\ polite \in BOOLEAN /\ alone \in BOOLEAN /\ lost \in BOOLEAN
    /\ alone => OneByOne
    /\ alone /\ polite /\ ~up => tn.state # "CLOSE" /\ AllFree
    /\ patient /\ up /\ onway > 0 => onway = tn.numsent /\ tn.numsent = Packed(tn)
    /\ patient => ~lost

(* The state that a handler leaves, seen as session and pool.              *)
LEMMA Became ==
    ASSUME NEW r \in Pairs, Becomes(r)
    PROVE  /\ State' = r /\ tn' = r.s /\ pool' = r.m
           /\ patient' = patient /\ polite' = polite /\ alone' = alone
BY DEF Becomes, Pairs, State

(* The end of the connection that is up, or of the only one there is.      *)
LEMMA ConnectionEnded ==
    ASSUME TnInv, NEW r \in Good(FALSE, alone /\ polite), Becomes(r),
           up' = FALSE, onway' \in Nat, lost' = lost, old' \in [Ending -> Nat], alone => OneByOne',
           alone /\ old'["closing"] > 0 => Sound(r),
           alone /\ polite => r.s.state # "CLOSE",
           alone /\ polite /\ old'["over"] = 0 /\ old'["closing"] = 0 => \A b \in LineNo : r.m[b] = 0
    PROVE  TnInv'
<1>1. r \in Pairs /\ (alone /\ polite => Exact(r))
  BY DEF Good
<1>2. /\ State' = r /\ tn' = r.s /\ pool' = r.m
      /\ patient' = patient /\ polite' = polite /\ alone' = alone
  BY <1>1, Became
<1>3. State' \in Good(alone' /\ Holds', alone' /\ polite')
  <2>1. alone' /\ Holds' => Sound(r)
    BY <1>2 DEF Holds
  <2> QED
    BY <1>1, <1>2, <2>1 DEF Good
<1>4. alone' /\ polite' => tn'.state # "CLOSE" /\ AllFree'
  BY <1>2 DEF AllFree
<1> QED
  BY <1>2, <1>3, <1>4 DEF TnInv

(* A new session starts without lines.                                     *)
LEMMA ConnectGood ==
    ASSUME TnInv, TelnetConnect
    PROVE  TnInv'
<1> DEFINE none == [i \in LineNo |-> NoLine]
           x == [tn EXCEPT !.lines = none]
           y == [x EXCEPT !.buf = <<>>]
           fresh == [y EXCEPT !.state = "NORMAL"]
           p == [s |-> fresh, m |-> pool]
           o == Output(p, 3)
           r == TelnetSenddata(o)
<1>1. /\ Becomes(r) /\ up = FALSE /\ up' = TRUE /\ onway' = r.s.numsent /\ lost' = lost /\ old' = old
      /\ (alone => NoneEnding) /\ up \in BOOLEAN
  BY DEF TelnetConnect, TnInv
<1>2. PICK e \in BOOLEAN : e = (alone /\ polite)
  BY DEF TnInv
<1>3. tn \in Sessions /\ pool \in Blocks
  BY DEF TnInv, Good, Pairs, State
<1>4. fresh \in Sessions /\ fresh.lines = none
  <2>1. none \in [LineNo -> 0 .. NUMLINES]
    BY TnSizes DEF NoLine
  <2> HIDE DEF none
  <2>2. x \in Sessions /\ x.lines = none
    BY <1>3, <2>1 DEF Sessions
  <2> HIDE DEF x
  <2>3. <<>> \in Seq(Units)
    OBVIOUS
  <2>4. y \in Sessions /\ y.lines = none
    BY <2>2, <2>3 DEF Sessions
  <2> HIDE DEF y
  <2> QED
    BY <2>4 DEF Sessions, TnStates
<1>5. \A i \in LineNo : none[i] = NoLine
  OBVIOUS
<1> HIDE DEF fresh, none
<1>6. p \in Pairs /\ p.s = fresh /\ p.m = pool
  BY <1>3, <1>4 DEF Pairs
<1>7. e => \A b \in LineNo : pool[b] = 0
  BY <1>1, <1>2 DEF TnInv, AllFree, NoneEnding, Ending
<1> HIDE DEF p
<1>8. p \in Good(TRUE, e)
  <2>1. Sound(p)
    BY <1>4, <1>5, <1>6 DEF Sound
  <2>2. e => Exact(p)
    BY <1>6, <1>7 DEF Exact
  <2> QED
    BY <1>6, <2>1, <2>2 DEF Good
<1>9. o \in Good(TRUE, e)
  BY <1>8, OutputGood
<1> HIDE DEF o
<1>10. r \in Good(TRUE, e) /\ r.s.numsent = Packed(o.s) /\ Packed(r.s) = Packed(o.s)
  <2>1. o \in Pairs
    BY <1>9 DEF Good
  <2>2. r.s.numsent = Packed(o.s) /\ Packed(r.s) = Packed(o.s)
    BY <2>1, SendPacks
  <2> QED
    BY <1>9, <2>2, SendStays
<1> HIDE DEF r
<1>11. r \in Pairs /\ r.s.numsent \in Nat
  BY <1>10, TnSizes DEF Good, Pairs, Sessions
<1>12. State' = r /\ tn' = r.s /\ patient' = patient /\ polite' = polite /\ alone' = alone
  BY <1>1, <1>11, Became
<1>13. State' \in Good(alone' /\ Holds', alone' /\ polite')
  BY <1>2, <1>10, <1>12 DEF Good
<1>14. alone' => OneByOne'
  BY <1>1, <1>12 DEF TnInv, OneByOne, NoneEnding
<1> QED
  BY <1>1, <1>10, <1>11, <1>12, <1>13, <1>14 DEF TnInv

(* A connection that is no longer up is the only one that ends, if clients *)
(* come one after the other.                                               *)
LEMMA LeftAlone ==
    ASSUME TnInv, up, NEW e \in Ending, Leaves(e)
    PROVE  /\ up' = FALSE /\ onway' = 0 /\ old' \in [Ending -> Nat] /\ old'[e] > 0 /\ (alone => OneByOne')
           /\ alone => \A f \in Ending : f # e => old'[f] = 0
<1>1. up' = FALSE /\ onway' = 0 /\ old' = [old EXCEPT ![e] = old[e] + 1] /\ old \in [Ending -> Nat]
  BY DEF Leaves, TnInv
<1>2. old' \in [Ending -> Nat] /\ old'[e] = old[e] + 1 /\ \A f \in Ending : f # e => old'[f] = old[f]
  BY <1>1
<1>3. alone => \A f \in Ending : old[f] = 0
  BY DEF TnInv, OneByOne, NoneEnding
<1>4. alone => OneByOne'
  BY <1>1, <1>2, <1>3 DEF OneByOne
<1> QED
  BY <1>1, <1>2, <1>3, <1>4

(* A call in the state CLOSE                                               *)
LEMMA CloseGood ==
    ASSUME TnInv, TelnetClose
    PROVE  TnInv'
<1>1. up = TRUE /\ Becomes(Normal(State)) /\ lost' = lost
  BY DEF TelnetClose, TnInv
<1>2. PICK e \in BOOLEAN, a \in BOOLEAN : e = (alone /\ polite) /\ a = alone
  BY DEF TnInv
<1>3. State \in Good(a, e) /\ State.s = tn
  BY <1>1, <1>2 DEF TnInv, Good, Holds, State
<1>4. PICK r : r = Normal(State) /\ r = [State EXCEPT !.s.state = "NORMAL"]
  BY DEF Normal
<1>5. r \in Good(a, e)
  BY <1>3, <1>4, TnStateGood DEF TnStates
<1>6. r \in Pairs /\ r.s = [tn EXCEPT !.state = "NORMAL"] /\ tn \in Sessions
  BY <1>3, <1>4, <1>5 DEF Good, Pairs, State
<1>7. r.s.state = "NORMAL" /\ r.s.numsent = tn.numsent /\ r.s.lines = tn.lines
  BY <1>6 DEF Sessions
<1>8. CASE Leaves("closing")
  <2>1. "closing" \in Ending
    BY DEF Ending
  <2>2. /\ up' = FALSE /\ onway' = 0 /\ old' \in [Ending -> Nat] /\ old'["closing"] > 0
        /\ (alone => OneByOne')
    BY <1>1, <1>8, <2>1, LeftAlone
  <2>3. r \in Good(FALSE, alone /\ polite) /\ (alone => Sound(r))
    BY <1>2, <1>5 DEF Good
  <2>4. 0 \in Nat /\ ~(old'["closing"] = 0)
    BY <2>2
  <2> QED
    BY <1>1, <1>4, <1>7, <2>2, <2>3, <2>4, ConnectionEnded
<1>9. CASE UNCHANGED <<up, old, onway>>
  <2>1. /\ State' = r /\ tn' = r.s /\ patient' = patient /\ polite' = polite /\ alone' = alone
    BY <1>1, <1>4, <1>6, Became
  <2>2. State' \in Good(alone' /\ Holds', alone' /\ polite')
    BY <1>2, <1>5, <2>1 DEF Good
  <2>3. Packed(tn') = Packed(tn) /\ tn'.numsent = tn.numsent
    BY <1>7, <2>1 DEF Packed
  <2>4. alone' => OneByOne'
    BY <1>9, <2>1 DEF TnInv, OneByOne, NoneEnding
  <2> QED
    BY <1>1, <1>9, <2>1, <2>2, <2>3, <2>4 DEF TnInv
<1> QED
  BY <1>8, <1>9 DEF TelnetClose

(* telnetd_appcall with an acknowledgement, with data or with both.        *)
LEMMA CallGood ==
    ASSUME TnInv, NEW ack \in BOOLEAN, NEW data \in Seq(Units), TelnetCall(ack, data),
           ack => onway > 0, patient /\ onway > 0 /\ ~ack => data = <<>>
    PROVE  TnInv'
<1> DEFINE acked == IF ack THEN TelnetAcked(State) ELSE State
           d == TelnetNewdata(acked, data)
           r == TelnetSenddata(d)
<1>1. /\ up = TRUE /\ Becomes(r) /\ onway' = (IF ack \/ onway = 0 THEN r.s.numsent ELSE onway)
      /\ lost' = (lost \/ (ack /\ tn.numsent > onway)) /\ up' = up /\ old' = old
  BY DEF TelnetCall, TnInv
<1>2. PICK a \in BOOLEAN, e \in BOOLEAN : a = alone /\ e = (alone /\ polite)
  BY DEF TnInv
<1>3. State \in Good(a, e) /\ (e => a)
  BY <1>1, <1>2 DEF TnInv, Good, Holds
<1>4. acked \in Good(a, e)
  <2>1. PICK x : x = TelnetAcked(State)
    OBVIOUS
  <2>2. AcksWell(a, e, State, x)
    BY <1>3, <2>1, AckedGood
  <2>3. x \in Good(a, e)
    BY <1>3, <2>2 DEF AcksWell, Good
  <2> QED
    BY <1>3, <2>1, <2>3
<1>5. ~ack => acked = State
  OBVIOUS
<1> HIDE DEF acked
<1>6. d \in Good(a, e) /\ (data = <<>> => d = acked)
  <2>1. acked \in Pairs
    BY <1>4 DEF Good
  <2> QED
    BY <1>4, <2>1, NewdataStays, NothingNew
<1> HIDE DEF d
<1>7. r \in Good(a, e) /\ r.s.numsent = Packed(d.s) /\ Packed(r.s) = Packed(d.s)
  <2>1. d \in Pairs
    BY <1>6 DEF Good
  <2>2. r.s.numsent = Packed(d.s) /\ Packed(r.s) = Packed(d.s)
    BY <2>1, SendPacks
  <2> QED
    BY <1>6, <2>2, SendStays
<1> HIDE DEF r
<1>8. r \in Pairs /\ r.s.numsent \in Nat
  BY <1>7, TnSizes DEF Good, Pairs, Sessions
<1>9. State' = r /\ tn' = r.s /\ patient' = patient /\ polite' = polite /\ alone' = alone
  BY <1>1, <1>8, Became
<1>10. /\ State' \in Good(alone' /\ Holds', alone' /\ polite')
       /\ alone' => OneByOne'
  <2>1. State' \in Good(alone' /\ Holds', alone' /\ polite')
    BY <1>2, <1>7, <1>9 DEF Good
  <2>2. alone' => OneByOne'
    BY <1>1, <1>9 DEF TnInv, OneByOne, NoneEnding
  <2> QED
    BY <2>1, <2>2
<1>11. onway' \in Nat /\ lost' \in BOOLEAN
  BY <1>1, <1>8 DEF TnInv
<1>12. patient => ~lost'
  <2>1. patient /\ ack => onway = tn.numsent
    BY <1>1 DEF TnInv
  <2>2. patient => ~lost
    BY DEF TnInv
  <2>3. onway \in Nat
    BY DEF TnInv
  <2>4. patient /\ ack => ~(tn.numsent > onway)
    BY <2>1, <2>3
  <2> QED
    BY <1>1, <2>2, <2>4, Zenon
<1>13. patient /\ onway' > 0 => onway' = tn'.numsent /\ tn'.numsent = Packed(tn')
  <2>1. CASE ack \/ onway = 0
    BY <1>1, <1>7, <1>9, <2>1
  <2>2. CASE ~(ack \/ onway = 0) /\ patient
    <3>1. onway > 0
      BY <2>2 DEF TnInv
    <3>2. d = State /\ State.s = tn
      BY <1>5, <1>6, <2>2, <3>1 DEF State
    <3>3. onway = tn.numsent /\ tn.numsent = Packed(tn)
      BY <1>1, <2>2, <3>1 DEF TnInv
    <3> QED
      BY <1>1, <1>7, <1>9, <2>2, <3>2, <3>3
  <2> QED
    BY <2>1, <2>2
<1> QED
  BY <1>1, <1>9, <1>10, <1>11, <1>12, <1>13 DEF TnInv

(* What the application does at the end of a connection: nothing but       *)
(* forget, or free all the lines.                                          *)
LEMMA AppEndGood ==
    ASSUME TnInv, NEW r, r = AppEnd(State)
    PROVE  /\ r \in Good(FALSE, alone /\ polite) /\ r.s.state # "CLOSE"
           /\ r.s.lines = tn.lines /\ r.s.numsent = tn.numsent
           /\ alone /\ polite /\ tn.state # "CLOSE" => \A b \in LineNo : r.m[b] = 0
<1>1. PICK e \in BOOLEAN : e = (alone /\ polite)
  BY DEF TnInv
<1>2. State \in Good(FALSE, e) /\ State.s = tn /\ State.m = pool /\ tn \in Sessions
  BY <1>1 DEF TnInv, Good, State, Pairs
<1>3. CASE tn.state = "CLOSE"
  <2>1. r = [State EXCEPT !.s.state = "NORMAL"]
    BY <1>2, <1>3 DEF AppEnd, Normal
  <2>2. r \in Good(FALSE, e)
    BY <1>2, <2>1, TnStateGood DEF TnStates
  <2>3. r.s = [tn EXCEPT !.state = "NORMAL"]
    BY <2>1 DEF State
  <2>4. r.s.state = "NORMAL" /\ r.s.numsent = tn.numsent /\ r.s.lines = tn.lines
    BY <1>2, <2>3 DEF Sessions
  <2> QED
    BY <1>1, <1>3, <2>2, <2>4
<1>4. CASE tn.state # "CLOSE"
  <2>1. r = TelnetClosed(State)
    BY <1>2, <1>4 DEF AppEnd
  <2>2. r \in Pairs /\ r.s = State.s /\ (e => \A b \in LineNo : r.m[b] = 0)
    <3>1. State \in Pairs /\ (e => Exact(State))
      BY <1>2 DEF Good
    <3> QED
      BY <2>1, <3>1, ClosedGood
  <2>3. e => Exact(r)
    BY <2>2 DEF Exact
  <2> QED
    BY <1>1, <1>2, <1>4, <2>2, <2>3 DEF Good
<1> QED
  BY <1>3, <1>4

(* The FIN of the client: closed, with what the same segment acknowledges  *)
(* and brings                                                              *)
LEMMA FinGood ==
    ASSUME TnInv, TelnetFin
    PROVE  TnInv'
<1>1. up = TRUE /\ Leaves("over") /\ lost' = lost /\ "over" \in Ending /\ "closing" \in Ending
  BY DEF TelnetFin, TnInv, Ending
<1>2. /\ up' = FALSE /\ onway' = 0 /\ old' \in [Ending -> Nat] /\ old'["over"] > 0 /\ (alone => OneByOne')
      /\ alone => old'["closing"] = 0
  BY <1>1, LeftAlone
<1>3. onway' \in Nat /\ ~(old'["over"] = 0) /\ (alone => ~(old'["closing"] > 0))
  BY <1>1, <1>2
<1>4. CASE tn.state = "CLOSE" /\ Becomes(Normal(State))
  <2>1. State.s = tn
    BY DEF State
  <2>2. PICK r : r = AppEnd(State) /\ r = Normal(State)
    BY <1>4, <2>1 DEF AppEnd
  <2>3. r \in Good(FALSE, alone /\ polite) /\ r.s.state # "CLOSE" /\ Becomes(r)
    BY <1>4, <2>2, AppEndGood
  <2> QED
    BY <1>1, <1>2, <1>3, <2>3, ConnectionEnded
<1>5. CASE tn.state # "CLOSE" /\ \E data \in {<<>>} \cup Inputs :
             LET freed == TelnetClosed(State)
                 r     == TelnetNewdata(IF onway > 0 THEN TelnetAcked(freed) ELSE freed, data)
             IN  /\ polite => r.s.state # "CLOSE"
                 /\ Becomes(IF onway > 0 \/ data # <<>> THEN TelnetSenddata(r) ELSE r)
  <2>1. PICK data \in {<<>>} \cup Inputs :
             LET freed == TelnetClosed(State)
                 r     == TelnetNewdata(IF onway > 0 THEN TelnetAcked(freed) ELSE freed, data)
             IN  /\ polite => r.s.state # "CLOSE"
                 /\ Becomes(IF onway > 0 \/ data # <<>> THEN TelnetSenddata(r) ELSE r)
    BY <1>5
  <2> DEFINE freed == TelnetClosed(State)
             acked == IF onway > 0 THEN TelnetAcked(freed) ELSE freed
             r     == TelnetNewdata(acked, data)
             q     == IF onway > 0 \/ data # <<>> THEN TelnetSenddata(r) ELSE r
  <2>2. (polite => r.s.state # "CLOSE") /\ Becomes(q)
    BY <2>1
  <2>3. data \in Seq(Units)
    <3>1. <<>> \in Seq(Units)
      OBVIOUS
    <3> QED
      BY <2>1, <3>1, TnSizes
  <2>4. PICK e \in BOOLEAN : e = (alone /\ polite)
    BY DEF TnInv
  <2>5. State \in Good(FALSE, e)
    BY <2>4 DEF TnInv, Good
  <2>6. freed \in Pairs /\ (e => \A b \in LineNo : freed.m[b] = 0)
    <3>1. State \in Pairs /\ (e => Exact(State))
      BY <2>5 DEF Good
    <3>2. PICK x : x = TelnetClosed(State)
      OBVIOUS
    <3>3. x \in Pairs /\ (e => \A b \in LineNo : x.m[b] = 0)
      BY <2>4, <3>1, <3>2, ClosedGood
    <3> QED
      BY <3>2, <3>3
  <2> HIDE DEF freed
  <2>7. acked \in Pairs /\ (e => \A b \in LineNo : acked.m[b] = 0)
    <3>1. /\ TelnetAcked(freed) \in Pairs
          /\ \A b \in LineNo : freed.m[b] = 0 => TelnetAcked(freed).m[b] = 0
      BY <2>6, AckedFrees
    <3> QED
      BY <2>6, <3>1
  <2> HIDE DEF acked
  <2>8. acked \in Good(FALSE, e)
    BY <2>7 DEF Good, Exact
  <2>9. r \in Good(FALSE, e)
    BY <2>3, <2>8, NewdataStays
  <2> HIDE DEF r
  <2>10. q \in Good(FALSE, e) /\ q.s.state = r.s.state
    <3>1. r \in Pairs
      BY <2>9 DEF Good
    <3>2. TelnetSenddata(r) \in Good(FALSE, e) /\ TelnetSenddata(r).s.state = r.s.state
      BY <2>9, <3>1, SendStays, SendPacks
    <3> QED
      BY <2>9, <3>2
  <2> HIDE DEF q
  <2>11. q \in Good(FALSE, alone /\ polite) /\ (polite => q.s.state # "CLOSE")
    BY <2>2, <2>4, <2>10
  <2> QED
    BY <1>1, <1>2, <1>3, <2>2, <2>11, ConnectionEnded
<1> QED
  BY <1>4, <1>5 DEF TelnetFin

(* uip_aborted and uip_timedout                                            *)
LEMMA BreaksGood ==
    ASSUME TnInv, TelnetBreaks
    PROVE  TnInv'
<1>1. /\ up = TRUE /\ (polite => tn.state # "CLOSE") /\ up' = FALSE /\ onway' = 0
      /\ Becomes(AppEnd(State)) /\ old' = old /\ lost' = lost
  BY DEF TelnetBreaks, TnInv
<1>2. PICK r : r = AppEnd(State)
  OBVIOUS
<1>3. /\ r \in Good(FALSE, alone /\ polite) /\ r.s.state # "CLOSE"
      /\ alone /\ polite => \A b \in LineNo : r.m[b] = 0
  BY <1>1, <1>2, AppEndGood
<1>4. old \in [Ending -> Nat] /\ (alone => NoneEnding /\ OneByOne)
  BY <1>1 DEF TnInv, OneByOne
<1>5. alone => OneByOne' /\ ~(old'["closing"] > 0)
  BY <1>1, <1>4 DEF OneByOne, NoneEnding, Ending
<1>6. onway' \in Nat /\ old' \in [Ending -> Nat] /\ Becomes(r)
  BY <1>1, <1>2, <1>4
<1> QED
  BY <1>1, <1>3, <1>5, <1>6, ConnectionEnded

(* What is left of the ending connections after one of them ended          *)
LEMMA OneLess ==
    ASSUME TnInv, NEW e \in Ending, old[e] > 0, up' = up, NEW n \in {0, 1},
           old' = [f \in Ending |-> IF f = "waiting" /\ f # e THEN old[f] + n
                                     ELSE IF f = e THEN old[f] - 1 ELSE old[f]],
           n = 1 => e = "closing"
    PROVE  /\ old' \in [Ending -> Nat]
           /\ alone => up = FALSE /\ OneByOne' /\ old'["over"] = 0 /\ old'["closing"] = 0
<1>1. old \in [Ending -> Nat] /\ up \in BOOLEAN
  BY DEF TnInv
<1>2. \A f \in Ending : old[f] \in Nat
  BY <1>1
<1>3. old' \in [Ending -> Nat]
  BY <1>2
<1>4. ASSUME alone PROVE up = FALSE /\ OneByOne' /\ old'["over"] = 0 /\ old'["closing"] = 0
  <2>1. OneByOne
    BY <1>4 DEF TnInv
  <2>2. old[e] = 1 /\ \A f \in Ending : f # e => old[f] = 0
    BY <1>2, <2>1 DEF OneByOne
  <2>3. up = FALSE
    BY <1>1, <2>1, <2>2 DEF OneByOne, NoneEnding
  <2>4. /\ old'["over"] = 0 /\ old'["closing"] = 0
        /\ old'["waiting"] = n
    BY <2>2 DEF Ending
  <2>5. OneByOne'
    BY <2>3, <2>4 DEF OneByOne, Ending
  <2> QED
    BY <2>3, <2>4, <2>5
<1> QED
  BY <1>3, <1>4

(* The calls for connections that end                                      *)
LEMMA LateGood ==
    ASSUME TnInv, TelnetLate
    PROVE  TnInv'
<1>1. PICK e \in Ending : /\ old[e] > 0
        /\ \/ old' = [old EXCEPT ![e] = @ - 1]
           \/ e = "closing" /\ old' = [old EXCEPT !["closing"] = @ - 1, !["waiting"] = @ + 1]
  BY DEF TelnetLate
<1>2. Becomes(AppEnd(State)) /\ up' = up /\ onway' = onway /\ lost' = lost
  BY DEF TelnetLate
<1>3. PICK n \in {0, 1} : /\ n = 1 => e = "closing"
        /\ old' = [f \in Ending |-> IF f = "waiting" /\ f # e THEN old[f] + n
                                      ELSE IF f = e THEN old[f] - 1 ELSE old[f]]
  <2>1. old \in [Ending -> Nat]
    BY DEF TnInv
  <2>2. CASE old' = [old EXCEPT ![e] = @ - 1]
    <3>1. old' = [f \in Ending |-> IF f = "waiting" /\ f # e THEN old[f] + 0
                                    ELSE IF f = e THEN old[f] - 1 ELSE old[f]]
      <4>1. \A f \in Ending : old[f] + 0 = old[f]
        BY <2>1
      <4> QED
        BY <2>1, <2>2, <4>1
    <3> QED
      BY <3>1
  <2>3. CASE e = "closing" /\ old' = [old EXCEPT !["closing"] = @ - 1, !["waiting"] = @ + 1]
    <3>1. old' = [f \in Ending |-> IF f = "waiting" /\ f # e THEN old[f] + 1
                                    ELSE IF f = e THEN old[f] - 1 ELSE old[f]]
      BY <2>1, <2>3 DEF Ending
    <3> QED
      BY <2>3, <3>1
  <2> QED
    BY <1>1, <2>2, <2>3
<1>4. /\ old' \in [Ending -> Nat]
      /\ alone => up = FALSE /\ OneByOne' /\ old'["over"] = 0 /\ old'["closing"] = 0
  BY <1>1, <1>2, <1>3, OneLess
<1>5. PICK r : r = AppEnd(State)
  OBVIOUS
<1>6. /\ r \in Good(FALSE, alone /\ polite) /\ r.s.state # "CLOSE"
      /\ r.s.lines = tn.lines /\ r.s.numsent = tn.numsent
      /\ alone /\ polite /\ tn.state # "CLOSE" => \A b \in LineNo : r.m[b] = 0
  BY <1>5, AppEndGood
<1>7. onway \in Nat /\ up \in BOOLEAN
  BY DEF TnInv
<1>8. CASE up = FALSE
  <2>1. alone /\ polite => \A b \in LineNo : r.m[b] = 0
    BY <1>6, <1>8 DEF TnInv
  <2>2. alone => ~(old'["closing"] > 0)
    BY <1>4
  <2> QED
    BY <1>2, <1>4, <1>5, <1>6, <1>7, <1>8, <2>1, <2>2, ConnectionEnded
<1>9. CASE up = TRUE
  <2>1. ~alone
    BY <1>4, <1>9
  <2>2. r \in Pairs
    BY <1>6 DEF Good
  <2>3. /\ State' = r /\ tn' = r.s /\ patient' = patient /\ polite' = polite /\ alone' = alone
    BY <1>2, <1>5, <2>2, Became
  <2>4. State' \in Good(alone' /\ Holds', alone' /\ polite')
    BY <2>1, <2>2, <2>3 DEF Good
  <2>5. Packed(tn') = Packed(tn) /\ tn'.numsent = tn.numsent
    BY <1>6, <2>3 DEF Packed
  <2> QED
    BY <1>2, <1>4, <1>9, <2>1, <2>3, <2>4, <2>5 DEF TnInv
<1> QED
  BY <1>7, <1>8, <1>9

(* The connections that end by their timer                                 *)
LEMMA SilentGood ==
    ASSUME TnInv, TelnetSilent
    PROVE  TnInv'
<1>1. PICK e \in Ending : /\ old[e] > 0 /\ old' = [old EXCEPT ![e] = @ - 1]
                          /\ polite => e = "waiting"
  BY DEF TelnetSilent, Ending
<1>2. UNCHANGED <<tn, pool, up, onway, patient, polite, alone, lost>>
  BY DEF TelnetSilent
<1>3. old \in [Ending -> Nat] /\ State' = State
  BY <1>2 DEF TnInv, State
<1>4. old' = [f \in Ending |-> IF f = "waiting" /\ f # e THEN old[f] + 0
                               ELSE IF f = e THEN old[f] - 1 ELSE old[f]]
  <2>1. \A f \in Ending : old[f] + 0 = old[f]
    BY <1>3
  <2> QED
    BY <1>1, <1>3, <2>1
<1>5. /\ old' \in [Ending -> Nat]
      /\ alone => up = FALSE /\ OneByOne' /\ old'["over"] = 0 /\ old'["closing"] = 0
  <2>1. 0 \in {0, 1} /\ 0 # 1
    OBVIOUS
  <2> QED
    BY <1>1, <1>2, <1>4, <2>1, OneLess
<1>6. alone /\ polite => AllFree'
  <2> SUFFICES ASSUME alone, polite PROVE \A b \in LineNo : pool[b] = 0
    BY <1>2 DEF AllFree
  <2>1. e = "waiting" /\ up = FALSE /\ OneByOne
    BY <1>1, <1>5 DEF TnInv
  <2>2. old["over"] = 0 /\ old["closing"] = 0
    <3>1. \A f \in Ending : old[f] \in Nat
      BY <1>3
    <3> QED
      BY <1>1, <2>1, <3>1 DEF OneByOne, Ending
  <2> QED
    BY <2>1, <2>2 DEF TnInv, AllFree
<1>7. State' \in Good(alone' /\ Holds', alone' /\ polite')
  <2>1. alone' => ~Holds'
    BY <1>2, <1>5 DEF Holds
  <2> QED
    BY <1>2, <1>3, <2>1 DEF TnInv, Good
<1> QED
  BY <1>2, <1>5, <1>6, <1>7 DEF TnInv

(* Every call of telnetd_appcall keeps the invariant.                      *)
LEMMA TelnetStep ==
    ASSUME TnInv, [TelnetNext]_tnVars
    PROVE  TnInv'
<1>0. onway \in Nat /\ <<>> \in Seq(Units)
  BY DEF TnInv
<1>1. CASE TelnetConnect
  BY <1>1, ConnectGood
<1>2. CASE TelnetClose
  BY <1>2, CloseGood
<1>3. CASE TelnetData
  <2>1. PICK data \in Inputs, ack \in {onway > 0, FALSE} :
          (patient /\ onway > 0 => ack) /\ TelnetCall(ack, data)
    BY <1>3 DEF TelnetData
  <2>2. data \in Seq(Units)
    BY TnSizes
  <2>3. ack \in BOOLEAN /\ (ack => onway > 0)
    <3>1. (onway > 0) \in BOOLEAN
      BY <1>0
    <3> QED
      BY <2>1, <3>1, Zenon
  <2> QED
    BY <2>1, <2>2, <2>3, CallGood
<1>4. CASE TelnetAck
  <2>1. onway > 0 /\ TelnetCall(TRUE, <<>>) /\ TRUE \in BOOLEAN
    BY <1>4 DEF TelnetAck
  <2> QED
    BY <1>0, <2>1, CallGood
<1>5. CASE TelnetOther
  <2>1. TelnetCall(FALSE, <<>>) /\ FALSE \in BOOLEAN
    BY <1>5 DEF TelnetOther
  <2> QED
    BY <1>0, <2>1, CallGood
<1>6. CASE TelnetFin \/ TelnetBreaks
  BY <1>6, FinGood, BreaksGood
<1>7. CASE TelnetLate \/ TelnetSilent
  BY <1>7, LateGood, SilentGood
<1>8. CASE UNCHANGED tnVars
  <2>1. State' = State
    BY <1>8 DEF tnVars, State
  <2> QED
    BY <1>8, <2>1 DEF tnVars, TnInv, Holds, OneByOne, NoneEnding, AllFree
<1> QED
  BY <1>1, <1>2, <1>3, <1>4, <1>5, <1>6, <1>7, <1>8 DEF TelnetNext

\* Lines and blocks of the telnet server agree, for any sizes of pool and buffer, any input and
\* every way in which connections end, told once, twice or not at all, as long as clients come
\* one after the other; polite ones leave every block free; lines of a client that waits are
\* freed when it has them only (alloc_line, acked, closed, telnetd_appcall, memb.c).
THEOREM LinesKept == TelnetSpec => []LinesAccounted
<1>1. TelnetInit => TnInv
  <2> SUFFICES ASSUME TelnetInit PROVE TnInv
    OBVIOUS
  <2>1. /\ tn = [state |-> "NORMAL", buf |-> <<>>, lines |-> [i \in LineNo |-> NoLine], numsent |-> 0]
        /\ pool = [b \in LineNo |-> 0] /\ up = FALSE /\ onway = 0
        /\ old = [e \in Ending |-> 0]
        /\ patient \in BOOLEAN /\ polite \in BOOLEAN /\ alone \in BOOLEAN /\ lost = FALSE
    BY DEF TelnetInit
  <2>2. pool \in Blocks
    BY <2>1 DEF Blocks
  <2>3. tn \in Sessions
    <3>1. [i \in LineNo |-> NoLine] \in [LineNo -> 0 .. NUMLINES] /\ 0 \in 0 .. NUMLINES
      BY TnSizes DEF NoLine
    <3>2. <<>> \in Seq(Units) /\ "NORMAL" \in TnStates
      BY DEF TnStates
    <3> QED
      BY <2>1, <3>1, <3>2 DEF Sessions
  <2>4. State \in Pairs
    BY <2>2, <2>3 DEF State, Pairs
  <2>5. old \in [Ending -> Nat] /\ \A e \in Ending : old[e] = 0
    BY <2>1
  <2>6. Exact(State) /\ ~Holds
    BY <2>1, <2>5 DEF Exact, State, Holds, Ending
  <2>7. State \in Good(alone /\ Holds, alone /\ polite)
    BY <2>4, <2>6 DEF Good
  <2>8. OneByOne /\ AllFree /\ tn.state # "CLOSE"
    <3>1. tn.state = "NORMAL"
      BY <2>1
    <3>2. OneByOne
      BY <2>1, <2>5 DEF OneByOne
    <3> QED
      BY <2>1, <3>1, <3>2 DEF AllFree
  <2> QED
    BY <2>1, <2>5, <2>7, <2>8 DEF TnInv
<1>2. TnInv /\ [TelnetNext]_tnVars => TnInv'
  BY TelnetStep
<1>3. TnInv => LinesAccounted
  <2> SUFFICES ASSUME TnInv PROVE LinesAccounted
    OBVIOUS
  <2>1. tn \in Sessions /\ pool \in Blocks /\ State.s = tn /\ State.m = pool
    BY DEF TnInv, Good, Pairs, State
  <2>2. /\ alone /\ Holds => Sound(State)
        /\ alone /\ polite => Exact(State)
    BY DEF TnInv, Good
  <2>3. \A i \in LineNo : tn.lines[i] # NoLine => tn.lines[i] \in LineNo
    BY <2>1, TnSizes DEF Sessions, NoLine, LineNo
  <2>4. alone /\ Holds => \A b \in InUse : pool[b] = 1
    BY <2>1, <2>2 DEF InUse, Sound
  <2>5. alone /\ Holds => \A i, j \in LineNo : tn.lines[i] = tn.lines[j] /\ i # j => tn.lines[i] = NoLine
    BY <2>1, <2>2 DEF Sound
  <2>6. \A b \in LineNo : pool[b] \in {0, 1}
    BY <2>1 DEF Blocks
  <2>7. alone /\ polite /\ ~up /\ NoneEnding => \A b \in LineNo : pool[b] = 0
    BY DEF TnInv, AllFree, NoneEnding, Ending
  <2>8. alone /\ polite /\ Holds => {b \in LineNo : pool[b] > 0} = InUse
    <3> SUFFICES ASSUME alone, polite, Holds PROVE {b \in LineNo : pool[b] > 0} = InUse
      OBVIOUS
    <3>1. InUse \subseteq LineNo
      BY <2>3 DEF InUse
    <3>2. ASSUME NEW b \in LineNo, pool[b] > 0 PROVE b \in InUse
      <4>1. pool[b] = 1 /\ b # NoLine
        BY <2>6, <3>2 DEF LineNo, NoLine
      <4> QED
        BY <2>1, <2>2, <4>1 DEF Exact, InUse
    <3>3. \A b \in InUse : pool[b] > 0
      BY <2>4
    <3> QED
      BY <3>1, <3>2, <3>3
  <2>9. patient => ~lost
    BY DEF TnInv
  <2> QED
    BY <2>4, <2>5, <2>7, <2>8, <2>9 DEF LinesAccounted, Holds
<1> QED
  BY <1>1, <1>2, <1>3, PTL DEF TelnetSpec

(***************************************************************************)
(* Protosockets                                                            *)
(***************************************************************************)

\* psock_send and psock_generator_send evaluate their condition once more in the call that
\* acknowledges, so that only what fits into one segment is safe; a generator must have
\* something to say, and what it said is gone when it is to be sent again.
OpsFit(ops, loss) ==
    \A i \in 1 .. Len(ops) :
        /\ ops[i].op # "read" => ops[i].len <= Mss
        /\ ops[i].op = "generate" => ops[i].len > 0 /\ ~loss
SendsFit == \A p \in Programs : OpsFit(p.ops, p.loss)

Size(i) == program.ops[i].len
Does(i) == program.ops[i].op
Whole(i) == Piece(i, 0, Size(i))
EmptySend(i) == Does(i) = "send" /\ Size(i) = 0
ReadsBefore(i) == {j \in Reads : j < i}
Bytes == [op : Int, at : Int]
SockStates == {"NONE", "DATA_SENT", "ACKED", "READ", "BLOCKED_NEWDATA"}
Socks == [state : SockStates, sendptr : Nat, sendlen : Nat, readptr : Nat, readlen : Nat]

\* Units of line k of the peer, which has n of them, and the peer when it has sent m.
LineUnit(k, n, j) == Byte(-k, IF j = n THEN 0 ELSE j)
Stretch(k, n, from, to) == [j \in 1 .. to - from |-> LineUnit(k, n, from + j)]
PeerAt(k, n, m) == IF m = n /\ n > 0 THEN [line |-> k + 1, unit |-> 0] ELSE [line |-> k, unit |-> m]
Current == Len(lines) + 1
PeerIdle == peer = PeerAt(Current, 0, 0)

\* What is known wherever the protothread is.
Ordered(d) == \A i, j \in 1 .. Len(d) : i < j =>
    \/ d[i].op < d[j].op
    \/ d[i].op = d[j].op /\ d[i].at < d[j].at
SockBase ==
    /\ program \in Programs /\ pc \in 1 .. Len(program.ops) + 1
    /\ ps \in Socks /\ outgoing = <<>>
    /\ delivered \in Seq(Bytes) /\ Ordered(delivered)
    /\ \A i \in 1 .. pc - 1 : Received(i)
    /\ lines \in Seq(Seq(Bytes)) /\ Len(lines) = Cardinality(ReadsBefore(pc))
    /\ ReadsNextLine

NoneLater == \A j \in 1 .. Len(delivered) : delivered[j].op <= pc
AllEarlier == \A j \in 1 .. Len(delivered) : delivered[j].op < pc
Quiet == transit = <<>> /\ arrived = FALSE /\ AllEarlier /\ "rexmit" \notin flags

\* The peer's line has come in this call, and no operation from i on comes before its read, t.
LineAhead(i, t, m) ==
    /\ i <= t /\ \A j \in i .. t - 1 : EmptySend(j)
    /\ peer = PeerAt(Current, Size(t), m) /\ appdata = Stretch(Current, Size(t), 0, m)
News(i) ==
    IF "new" \in flags /\ ps.state # "READ"
    THEN \E t \in Reads : \E m \in 1 .. Size(t) : LineAhead(i, t, m)
    ELSE PeerIdle

\* The phases of a protothread: it sends, is between two operations, has ended, or reads.
Sender ==
    /\ waits = TRUE /\ pc <= Len(program.ops) /\ Does(pc) # "read" /\ Size(pc) > 0
    /\ ps.sendlen = Size(pc) /\ ps.sendptr = 0 /\ ps.readlen = 0
InTransit ==
    /\ Sender /\ ps.state = "DATA_SENT" /\ transit = Whole(pc) /\ PeerIdle
    /\ "ack" \notin flags /\ "new" \notin flags /\ ("rexmit" \in flags => program.loss)
    /\ \/ arrived = TRUE /\ NoneLater /\ Received(pc)
       \/ arrived = FALSE /\ AllEarlier
AckedNow ==
    /\ Sender /\ ps.state = "DATA_SENT" /\ transit = <<>> /\ arrived = FALSE
    /\ "ack" \in flags /\ "rexmit" \notin flags /\ NoneLater /\ Received(pc) /\ News(pc + 1)
Begun ==
    /\ Sender /\ ps.state = "NONE" /\ flags # {} /\ Quiet /\ PeerIdle
    /\ Does(pc) = "generate" => appdata = Whole(pc)
Between ==
    /\ waits = FALSE /\ ps.readlen = 0 /\ ps.state # "DATA_SENT" /\ flags # {} /\ Quiet /\ News(pc)
Ended == waits = FALSE /\ flags = {} /\ pc = Len(program.ops) + 1 /\ Quiet

\* m units of the line have come and the protothread has taken some of them.
Unseen(took, m) ==
    /\ "new" \in flags /\ ps.state # "READ" /\ ps.readlen = 0 /\ took < m
    /\ appdata = Stretch(Current, Size(pc), took, m)
Unread(took, m) ==
    /\ flags # {} /\ ps.state = "READ" /\ ps.readlen > 0 /\ ps.readlen = m - took
    /\ ps.readptr + ps.readlen = Len(appdata)
    /\ \A i \in 1 .. m - took : appdata[ps.readptr + i] = LineUnit(Current, Size(pc), took + i)
AllTaken(took, m) ==
    /\ ps.readlen = 0 /\ took = m /\ (m = Size(pc) => m = 0)
    /\ ps.state = "READ" \/ "new" \notin flags
    /\ flags = {} => ps.state # "READ"
Reading(took, m) ==
    /\ waits = TRUE /\ pc <= Len(program.ops) /\ Does(pc) = "read" /\ Quiet /\ ps.state # "DATA_SENT"
    /\ took <= m /\ m <= Size(pc) /\ peer = PeerAt(Current, Size(pc), m)
    /\ line = Stretch(Current, Size(pc), 0, Smaller(BufSize, took))
    /\ Unseen(took, m) \/ Unread(took, m) \/ AllTaken(took, m)

SockInv ==
    /\ SockBase
    /\ InTransit \/ AckedNow \/ Begun \/ Between \/ Ended \/ \E took, m \in Nat : Reading(took, m)

(* The operations of a protothread, and what the hypothesis says of them.  *)
LEMMA OpsTyped ==
    ASSUME program \in Programs
    PROVE  /\ program.ops \in Seq(Ops) /\ Len(program.ops) \in Nat
           /\ \A i \in 1 .. Len(program.ops) : Size(i) \in Nat /\ Does(i) \in {"send", "generate", "read"}
           /\ Mss \in Nat \ {0} /\ BufSize \in Nat \ {0}
<1>1. program.ops \in Seq(Ops) /\ Mss \in Nat \ {0} /\ BufSize \in Nat \ {0}
  BY PsockAssumption DEF PsockAssumption
<1>2. Len(program.ops) \in Nat
  BY <1>1, LenProperties
<1>3. ASSUME NEW i \in 1 .. Len(program.ops) PROVE Size(i) \in Nat /\ Does(i) \in {"send", "generate", "read"}
  <2>1. program.ops[i] \in Ops
    BY <1>1, ElementIn
  <2> QED
    BY <2>1 DEF Ops, Size, Does
<1> QED
  BY <1>1, <1>2, <1>3

(* What the hypothesis says of the operation the protothread is in.        *)
LEMMA OpFits ==
    ASSUME SendsFit, program \in Programs, NEW i \in 1 .. Len(program.ops)
    PROVE  /\ Does(i) # "read" => Size(i) <= Mss
           /\ Does(i) = "generate" => Size(i) > 0 /\ ~program.loss
<1>1. OpsFit(program.ops, program.loss)
  BY Zenon DEF SendsFit
<1>2. /\ program.ops[i].op # "read" => program.ops[i].len <= Mss
      /\ program.ops[i].op = "generate" => program.ops[i].len > 0 /\ ~program.loss
  BY <1>1, Zenon DEF OpsFit
<1> QED
  BY <1>2, Zenon DEF Size, Does

(* The reads before an operation are finitely many.                        *)
LEMMA ReadsFinite ==
    ASSUME program \in Programs
    PROVE  /\ Reads \subseteq 1 .. Len(program.ops) /\ IsFiniteSet(Reads)
           /\ \A i : IsFiniteSet(ReadsBefore(i)) /\ Cardinality(ReadsBefore(i)) \in Nat
           /\ \A i : ReadsBefore(i) \subseteq Reads
<1>1. Reads \subseteq 1 .. Len(program.ops)
  BY DEF Reads
<1>2. IsFiniteSet(1 .. Len(program.ops))
  <2>1. Len(program.ops) \in Int
    BY OpsTyped
  <2> QED
    BY <2>1, FS_Interval
<1>3. IsFiniteSet(Reads)
  BY <1>1, <1>2, FS_Subset
<1>4. ASSUME NEW i PROVE IsFiniteSet(ReadsBefore(i)) /\ Cardinality(ReadsBefore(i)) \in Nat
  <2>1. ReadsBefore(i) \in SUBSET Reads
    BY DEF ReadsBefore
  <2> QED
    BY <1>3, <2>1, FS_Subset, FS_CardinalityType
<1> QED
  BY <1>1, <1>3, <1>4 DEF ReadsBefore

(* An operation adds itself to the reads before the next, if it is one.    *)
LEMMA ReadsNext ==
    ASSUME program \in Programs, NEW i \in 1 .. Len(program.ops)
    PROVE  /\ {j \in Reads : j <= i} = ReadsBefore(i + 1)
           /\ Does(i) # "read" => ReadsBefore(i + 1) = ReadsBefore(i)
           /\ Does(i) = "read" => Cardinality(ReadsBefore(i + 1)) = Cardinality(ReadsBefore(i)) + 1
<1>1. i \in Int /\ \A j \in Reads : j \in Int
  BY ReadsFinite, OpsTyped
<1>2. {j \in Reads : j <= i} = ReadsBefore(i + 1)
  <2>1. \A j \in Reads : j <= i <=> j < i + 1
    BY <1>1
  <2> QED
    BY <2>1 DEF ReadsBefore
<1>3. ASSUME Does(i) # "read" PROVE ReadsBefore(i + 1) = ReadsBefore(i)
  <2>1. i \notin Reads
    BY <1>3 DEF Reads, Does
  <2>2. \A j \in Reads : j < i + 1 <=> j < i
    BY <1>1, <2>1
  <2> QED
    BY <2>2 DEF ReadsBefore
<1>4. ASSUME Does(i) = "read" PROVE Cardinality(ReadsBefore(i + 1)) = Cardinality(ReadsBefore(i)) + 1
  <2>1. i \in Reads
    BY <1>4 DEF Reads, Does
  <2>2. \A j \in Reads : j < i + 1 <=> j < i \/ j = i
    BY <1>1
  <2>3. ReadsBefore(i + 1) = ReadsBefore(i) \cup {i} /\ i \notin ReadsBefore(i)
    <3>1. \A j : j \in ReadsBefore(i + 1) <=> j \in ReadsBefore(i) \cup {i}
      BY <2>1, <2>2, Zenon DEF ReadsBefore
    <3>2. ~(i < i)
      BY <1>1
    <3> QED
      BY <3>1, <3>2, Zenon DEF ReadsBefore
  <2> QED
    BY <2>3, ReadsFinite, FS_AddElement
<1> QED
  BY <1>2, <1>3, <1>4

(* Later reads have more reads before them.                                *)
LEMMA ReadsGrow ==
    ASSUME program \in Programs, NEW i \in Nat, NEW j \in Nat, i <= j
    PROVE  Cardinality(ReadsBefore(i)) <= Cardinality(ReadsBefore(j))
<1>1. ReadsBefore(i) \in SUBSET ReadsBefore(j)
  BY ReadsFinite, OpsTyped DEF ReadsBefore
<1> QED
  BY <1>1, ReadsFinite, FS_Subset

(* The k-th read is the one that has k - 1 before it.                      *)
LEMMA TurnIs ==
    ASSUME program \in Programs, NEW i \in Reads, NEW k, k = Cardinality(ReadsBefore(i)) + 1
    PROVE  Turn(k) = i
<1>1. \A j \in Reads : j \in 1 .. Len(program.ops) /\ j \in Nat /\ j + 1 \in Nat /\ Does(j) = "read"
  BY ReadsFinite, OpsTyped DEF Reads, Does
<1> DEFINE Upto1(j) == Cardinality({h \in Reads : h <= j})
<1>2. \A j \in Reads : Upto1(j) = Cardinality(ReadsBefore(j)) + 1 /\ Upto1(j) = Cardinality(ReadsBefore(j + 1))
  BY <1>1, ReadsNext, Zenon
<1>3. ASSUME NEW j \in Reads, Upto1(j) = k PROVE j = i
  <2>1. \A a, b \in Reads : a < b => Cardinality(ReadsBefore(a + 1)) <= Cardinality(ReadsBefore(b))
    BY <1>1, ReadsGrow
  <2>2. \A a \in Reads : Cardinality(ReadsBefore(a)) \in Nat
    BY ReadsFinite
  <2> HIDE DEF Upto1
  <2> QED
    BY <1>1, <1>2, <1>3, <2>1, <2>2
<1>4. Upto1(i) = k
  BY <1>2
<1>5. Turn(k) = CHOOSE j \in Reads : Upto1(j) = k
  BY Zenon DEF Turn
<1> HIDE DEF Upto1
<1>6. Turn(k) \in Reads /\ Upto1(Turn(k)) = k
  BY <1>4, <1>5, Zenon
<1> QED
  BY <1>3, <1>6

(* When fewer than all lines are read there is a next read.                *)
LEMMA NextRead ==
    ASSUME program \in Programs, NEW i \in Nat, NEW k, k = Cardinality(ReadsBefore(i)) + 1, k <= Cardinality(Reads)
    PROVE  \E t \in Reads : i <= t /\ Turn(k) = t /\ \A j \in Reads : ~(i <= j /\ j < t)
<1> DEFINE S == {j \in Reads : i <= j}
<1>1. Reads \subseteq Nat
  BY ReadsFinite, OpsTyped
<1>2. S # {}
  <2>1. ReadsBefore(i) # Reads
    BY ReadsFinite, FS_CardinalityType
  <2>2. PICK j \in Reads : j \notin ReadsBefore(i)
    BY <2>1, ReadsFinite
  <2>3. ~(j < i) /\ j \in Nat
    BY <1>1, <2>2 DEF ReadsBefore
  <2>4. i <= j
    BY <2>3
  <2> QED
    BY <2>4
<1>3. PICK t \in S : \A j \in S : t <= j
  <2>1. S \in SUBSET Nat
    BY <1>1
  <2> HIDE DEF S
  <2> QED
    BY <1>2, <2>1, LeastIn
<1>4. ReadsBefore(t) = ReadsBefore(i)
  <2>1. \A j \in Reads : j < t <=> j < i
    BY <1>1, <1>3
  <2> QED
    BY <2>1 DEF ReadsBefore
<1>5. Turn(k) = t
  BY <1>3, <1>4, TurnIs
<1> QED
  BY <1>1, <1>3, <1>5

(* A sequence given by its elements.                                       *)
LEMMA ByElements ==
    ASSUME NEW S, NEW n \in Nat, NEW f, f \in [1 .. n -> S]
    PROVE  f \in Seq(S) /\ Len(f) = n
OBVIOUS

(* What an operation sends.                                                *)
LEMMA WholeIs ==
    ASSUME program \in Programs, NEW i \in 1 .. Len(program.ops)
    PROVE  /\ Whole(i) \in Seq(Bytes) /\ Len(Whole(i)) = Size(i)
           /\ \A j \in 1 .. Size(i) : Whole(i)[j] = Byte(i, j)
           /\ Size(i) > 0 => Whole(i) # <<>>
           /\ OutputOf(i) = IF Does(i) = "read" THEN {} ELSE {Byte(i, j) : j \in 1 .. Size(i)}
<1>1. Size(i) \in Nat /\ i \in Nat
  BY OpsTyped
<1>2. Whole(i) = [j \in 1 .. Size(i) |-> Byte(i, 0 + j)]
  BY Zenon DEF Whole, Piece
<1>3. \A j \in 1 .. Size(i) : Byte(i, 0 + j) \in Bytes /\ Byte(i, 0 + j) = Byte(i, j)
  BY <1>1 DEF Byte, Bytes
<1>4. Whole(i) \in [1 .. Size(i) -> Bytes]
  BY <1>2, <1>3, Zenon
<1>5. Whole(i) \in Seq(Bytes) /\ Len(Whole(i)) = Size(i)
  BY <1>1, <1>4, ByElements
<1>6. \A j \in 1 .. Size(i) : Whole(i)[j] = Byte(i, j)
  BY <1>2, <1>3, Zenon
<1>7. Size(i) > 0 => Whole(i) # <<>>
  BY <1>5
<1>8. OutputOf(i) = IF Does(i) = "read" THEN {} ELSE {Byte(i, j) : j \in 1 .. Size(i)}
  BY Zenon DEF OutputOf, Does, Size
<1> QED
  BY <1>5, <1>6, <1>7, <1>8

(* What the peer sends.                                                    *)
IsStretch(s, k, n, from, to) ==
    /\ s \in Seq(Bytes) /\ Len(s) = to - from
    /\ \A j \in 1 .. to - from : s[j] = LineUnit(k, n, from + j)
LEMMA StretchIs ==
    ASSUME NEW k \in Nat, NEW n \in Nat, NEW from \in Nat, NEW to \in Nat, from <= to
    PROVE  IsStretch(Stretch(k, n, from, to), k, n, from, to)
<1>1. \A j \in Nat : LineUnit(k, n, j) \in Bytes
  BY DEF LineUnit, Byte, Bytes
<1>2. Stretch(k, n, from, to) = [j \in 1 .. to - from |-> LineUnit(k, n, from + j)]
  BY Zenon DEF Stretch
<1>3. \A j \in 1 .. to - from : from + j \in Nat
  OBVIOUS
<1>4. Stretch(k, n, from, to) \in [1 .. to - from -> Bytes]
  BY <1>1, <1>2, <1>3, Zenon
<1>5. to - from \in Nat
  OBVIOUS
<1>6. Stretch(k, n, from, to) \in Seq(Bytes) /\ Len(Stretch(k, n, from, to)) = to - from
  BY <1>4, <1>5, ByElements
<1>7. \A j \in 1 .. to - from : Stretch(k, n, from, to)[j] = LineUnit(k, n, from + j)
  BY <1>2, Zenon
<1> QED
  BY <1>6, <1>7 DEF IsStretch

(* The operations stay what they are.                                      *)
LEMMA SameOps ==
    ASSUME program' = program
    PROVE  /\ \A i : Size(i)' = Size(i) /\ Does(i)' = Does(i) /\ Whole(i)' = Whole(i)
           /\ \A i : EmptySend(i)' = EmptySend(i) /\ ReadsBefore(i)' = ReadsBefore(i) /\ OutputOf(i)' = OutputOf(i)
           /\ Reads' = Reads /\ \A k : Turn(k)' = Turn(k)
<1>1. \A i : Size(i)' = Size(i) /\ Does(i)' = Does(i)
  BY Zenon DEF Size, Does
<1>2. \A i : Whole(i)' = Whole(i)
  BY <1>1, Zenon DEF Whole
<1>3. \A i : OutputOf(i)' = OutputOf(i)
  BY Zenon DEF OutputOf
<1>4. Reads' = Reads
  BY Zenon DEF Reads
<1>5. \A i : ReadsBefore(i)' = ReadsBefore(i)
  BY <1>4, Zenon DEF ReadsBefore
<1>6. \A k : Turn(k)' = Turn(k)
  BY <1>4, Zenon DEF Turn
<1>7. \A i : EmptySend(i)' = EmptySend(i)
  BY <1>1 DEF EmptySend
<1> QED
  BY <1>1, <1>2, <1>3, <1>4, <1>5, <1>6, <1>7, Zenon

(* What has been received stays received while the peer keeps what it has. *)
LEMMA SameReceived ==
    ASSUME program' = program, delivered' = delivered
    PROVE  /\ \A i : Received(i)' = Received(i)
           /\ Ordered(delivered)' = Ordered(delivered)
<1>1. \A i : OutputOf(i)' = OutputOf(i)
  BY SameOps, Zenon
<1> QED
  BY <1>1, Zenon DEF Received, Ordered

(* The lines that have been read stay right.                               *)
LEMMA SameLinesRead ==
    ASSUME program' = program, lines' = lines, ReadsNextLine
    PROVE  ReadsNextLine'
<1>1. \A k : Turn(k)' = Turn(k)
  BY SameOps, Zenon
<1> QED
  BY <1>1, Zenon DEF ReadsNextLine

(* Steps that stay in the operation and receive nothing keep the base.     *)
LEMMA SockSame ==
    ASSUME SockBase, UNCHANGED <<program, pc, delivered, lines>>, ps' \in Socks, outgoing' = <<>>
    PROVE  SockBase' /\ Current' = Current /\ NoneLater' = NoneLater /\ AllEarlier' = AllEarlier
<1>1. /\ \A i : Received(i)' = Received(i) /\ ReadsBefore(i)' = ReadsBefore(i)
      /\ Ordered(delivered)' = Ordered(delivered)
  BY SameReceived, SameOps, Zenon
<1>2. ReadsNextLine'
  BY SameLinesRead DEF SockBase
<1>3. Current' = Current /\ NoneLater' = NoneLater /\ AllEarlier' = AllEarlier
  BY Zenon DEF Current, NoneLater, AllEarlier
<1> QED
  BY <1>1, <1>2, <1>3, Zenon DEF SockBase

(* Going on behind an operation that sends keeps the base.                 *)
LEMMA SockNext ==
    ASSUME SockBase, UNCHANGED <<program, delivered, lines>>, ps' \in Socks, outgoing' = <<>>,
           pc \in 1 .. Len(program.ops), Does(pc) # "read", Received(pc), pc' = pc + 1
    PROVE  SockBase' /\ Current' = Current /\ (NoneLater => AllEarlier')
<1>1. /\ \A i : Received(i)' = Received(i) /\ ReadsBefore(i)' = ReadsBefore(i)
      /\ Ordered(delivered)' = Ordered(delivered)
  BY SameReceived, SameOps, Zenon
<1>2. ReadsNextLine'
  BY SameLinesRead DEF SockBase
<1>3. Current' = Current
  BY Zenon DEF Current
<1>4. program \in Programs
  BY DEF SockBase
<1>5. Len(program.ops) \in Nat /\ pc \in Nat
  BY <1>4, OpsTyped
<1>6. ReadsBefore(pc + 1) = ReadsBefore(pc)
  BY <1>4, ReadsNext
<1>7. (pc \in 1 .. Len(program.ops) + 1)'
  BY <1>5
<1>8. (\A i \in 1 .. pc - 1 : Received(i))'
  <2>1. ASSUME NEW i \in 1 .. pc' - 1 PROVE Received(i)
    <3>1. i \in 1 .. pc - 1 \/ i = pc
      BY <1>5
    <3> QED
      BY <3>1 DEF SockBase
  <2> QED
    BY <2>1, <1>1
<1>9. (Len(lines) = Cardinality(ReadsBefore(pc)))'
  BY <1>1, <1>6, Zenon DEF SockBase
<1>10. NoneLater => AllEarlier'
  <2> SUFFICES ASSUME NoneLater, NEW j \in 1 .. Len(delivered') PROVE delivered'[j].op < pc'
    BY DEF AllEarlier
  <2>1. delivered[j] \in Bytes
    BY ElementIn DEF SockBase
  <2> QED
    BY <2>1, <1>5 DEF NoneLater, Bytes
<1> QED
  BY <1>1, <1>2, <1>3, <1>7, <1>8, <1>9, <1>10, Zenon DEF SockBase

(* What the peer receives comes behind all it had.                         *)
LEMMA Delivers ==
    ASSUME SockBase, UNCHANGED <<program, pc, lines, ps, outgoing>>, pc \in 1 .. Len(program.ops),
           Does(pc) # "read", AllEarlier, delivered' = delivered \o Whole(pc)
    PROVE  SockBase' /\ NoneLater' /\ Received(pc)' /\ Current' = Current
<1>1. program \in Programs /\ delivered \in Seq(Bytes)
  BY DEF SockBase
<1> DEFINE n == Size(pc)
<1>2. n \in Nat /\ pc \in Nat
  BY <1>1, OpsTyped
<1>3. Whole(pc) \in Seq(Bytes) /\ Len(Whole(pc)) = n
  BY <1>1, WholeIs
<1>4. \A j \in 1 .. n : Whole(pc)[j] = Byte(pc, j)
  BY <1>1, WholeIs
<1>5. /\ delivered' \in Seq(Bytes) /\ Len(delivered') = Len(delivered) + n /\ Len(delivered) \in Nat
  BY <1>1, <1>3, ConcatProperties, LenProperties
<1>6. ASSUME NEW i \in 1 .. Len(delivered) PROVE delivered'[i] = delivered[i]
  BY <1>1, <1>2, <1>3, <1>5, <1>6, ConcatProperties
<1>7. ASSUME NEW j \in 1 .. n PROVE delivered'[Len(delivered) + j] = Byte(pc, j)
  BY <1>1, <1>2, <1>3, <1>4, <1>5, <1>7, ConcatProperties
<1>8. ASSUME NEW i, NEW j \in 1 .. n, i = Len(delivered) + j
      PROVE  delivered'[i].op = pc /\ delivered'[i].at = j
  <2>1. Byte(pc, j).op = pc /\ Byte(pc, j).at = j
    BY DEF Byte
  <2> QED
    BY <1>7, <1>8, <2>1, Zenon
<1>9. \A i \in 1 .. Len(delivered') : i \in 1 .. Len(delivered) \/ \E j \in 1 .. n : i = Len(delivered) + j
  <2> SUFFICES ASSUME NEW i \in 1 .. Len(delivered'), ~(i \in 1 .. Len(delivered))
               PROVE  \E j \in 1 .. n : i = Len(delivered) + j
    OBVIOUS
  <2>1. i - Len(delivered) \in 1 .. n /\ i = Len(delivered) + (i - Len(delivered))
    BY <1>2, <1>5
  <2> QED
    BY <2>1, Zenon
<1>10. \A i \in 1 .. Len(delivered) : delivered[i] \in Bytes /\ delivered[i].op < pc
  BY <1>1, ElementIn DEF AllEarlier
<1> HIDE DEF n
<1>11. NoneLater'
  <2> SUFFICES ASSUME NEW i \in 1 .. Len(delivered') PROVE delivered'[i].op <= pc
    BY DEF NoneLater
  <2>1. CASE i \in 1 .. Len(delivered)
    BY <1>2, <1>6, <1>10, <2>1 DEF Bytes
  <2>2. ASSUME NEW j \in 1 .. n, i = Len(delivered) + j PROVE delivered'[i].op <= pc
    BY <1>2, <1>8, <2>2
  <2> QED
    BY <1>9, <2>1, <2>2
<1>12. Ordered(delivered')
  <2> SUFFICES ASSUME NEW i \in 1 .. Len(delivered'), NEW j \in 1 .. Len(delivered'), i < j
               PROVE  \/ delivered'[i].op < delivered'[j].op
                      \/ delivered'[i].op = delivered'[j].op /\ delivered'[i].at < delivered'[j].at
    BY DEF Ordered
  <2>1. CASE j \in 1 .. Len(delivered)
    <3>1. i \in 1 .. Len(delivered)
      BY <1>5, <2>1
    <3> QED
      BY <1>6, <2>1, <3>1 DEF SockBase, Ordered
  <2>2. ASSUME NEW b \in 1 .. n, j = Len(delivered) + b, i \in 1 .. Len(delivered)
        PROVE  delivered'[i].op < delivered'[j].op
    BY <1>6, <1>10, <1>8, <2>2
  <2>3. ASSUME NEW b \in 1 .. n, j = Len(delivered) + b, NEW a \in 1 .. n, i = Len(delivered) + a
        PROVE  delivered'[i].op = delivered'[j].op /\ delivered'[i].at < delivered'[j].at
    <3>1. a < b
      BY <1>2, <1>5, <2>3
    <3> QED
      BY <1>8, <2>3, <3>1
  <2> QED
    BY <1>9, <2>1, <2>2, <2>3
<1>13. \A i : OutputOf(i)' = OutputOf(i) /\ ReadsBefore(i)' = ReadsBefore(i)
  BY SameOps, Zenon
<1>14. \A i : Received(i) => Received(i)'
  <2> DEFINE A == {delivered[j] : j \in 1 .. Len(delivered)}
             B == {delivered'[j] : j \in 1 .. Len(delivered')}
  <2>1. A \subseteq B
    <3> SUFFICES ASSUME NEW j \in 1 .. Len(delivered) PROVE delivered[j] \in B
      OBVIOUS
    <3>1. j \in 1 .. Len(delivered') /\ delivered'[j] = delivered[j]
      BY <1>2, <1>5, <1>6
    <3> QED
      BY <3>1, Zenon
  <2>2. \A i : (Received(i) <=> OutputOf(i) \subseteq A) /\ (Received(i)' <=> OutputOf(i) \subseteq B)
    BY <1>13, Zenon DEF Received
  <2> QED
    BY <2>1, <2>2
<1>15. Received(pc)'
  <2> DEFINE B == {delivered'[j] : j \in 1 .. Len(delivered')}
  <2>1. OutputOf(pc) = {Byte(pc, j) : j \in 1 .. n}
    BY <1>1, WholeIs DEF n
  <2>2. ASSUME NEW j \in 1 .. n PROVE Byte(pc, j) \in B
    <3>1. Len(delivered) + j \in 1 .. Len(delivered') /\ delivered'[Len(delivered) + j] = Byte(pc, j)
      BY <1>2, <1>5, <1>7
    <3> QED
      BY <3>1, Zenon
  <2>3. OutputOf(pc) \subseteq B
    BY <2>1, <2>2
  <2> QED
    BY <1>13, <2>3, Zenon DEF Received
<1>16. ReadsNextLine'
  BY SameLinesRead DEF SockBase
<1>17. Current' = Current
  BY Zenon DEF Current
<1> QED
  BY <1>5, <1>11, <1>12, <1>13, <1>14, <1>15, <1>16, <1>17, Zenon DEF SockBase

(* Setting the state leaves the pointers of a protosocket alone.           *)
LEMMA SockState ==
    ASSUME NEW s \in Socks, NEW st \in SockStates, NEW q, q = [s EXCEPT !.state = st]
    PROVE  /\ q \in Socks /\ q.state = st /\ q.sendptr = s.sendptr /\ q.sendlen = s.sendlen
           /\ q.readptr = s.readptr /\ q.readlen = s.readlen
BY DEF Socks

(* psock_send sets its pointers.                                           *)
Beginning(s, n) == [s EXCEPT !.state = "NONE", !.sendlen = n, !.sendptr = 0]
LEMMA SockBegins ==
    ASSUME NEW s \in Socks, NEW n \in Nat, NEW q, q = Beginning(s, n)
    PROVE  q \in Socks /\ q.state = "NONE" /\ q.sendptr = 0 /\ q.sendlen = n /\ q.readlen = s.readlen
<1> DEFINE x == [s EXCEPT !.state = "NONE"]
           y == [x EXCEPT !.sendlen = n]
           z == [y EXCEPT !.sendptr = 0]
<1>1. q = z
  BY DEF Beginning
<1>2. "NONE" \in SockStates
  BY DEF SockStates
<1>3. x \in Socks /\ x.state = "NONE" /\ x.readlen = s.readlen
  BY <1>2, SockState
<1> HIDE DEF x
<1>4. y \in Socks /\ y.state = "NONE" /\ y.sendlen = n /\ y.readlen = s.readlen
  BY <1>3 DEF Socks
<1> HIDE DEF y
<1>5. z \in Socks /\ z.state = "NONE" /\ z.sendlen = n /\ z.sendptr = 0 /\ z.readlen = s.readlen
  BY <1>4 DEF Socks
<1> HIDE DEF z
<1> QED
  BY <1>1, <1>5

(* data_acked moves on by what has been sent.                              *)
MovingOn(s, n) == [s EXCEPT !.state = "ACKED", !.sendlen = @ - n, !.sendptr = @ + n]
LEMMA SockMovesOn ==
    ASSUME NEW s \in Socks, NEW n \in Nat, n <= s.sendlen,
           NEW q, q = MovingOn(s, n)
    PROVE  q \in Socks /\ q.state = "ACKED" /\ q.sendlen = s.sendlen - n /\ q.readlen = s.readlen
<1> DEFINE x == [s EXCEPT !.state = "ACKED"]
           y == [x EXCEPT !.sendlen = @ - n]
           z == [y EXCEPT !.sendptr = @ + n]
<1>1. q = z
  BY DEF MovingOn
<1>2. "ACKED" \in SockStates
  BY DEF SockStates
<1>3. x \in Socks /\ x.state = "ACKED" /\ x.readlen = s.readlen /\ x.sendlen = s.sendlen
  BY <1>2, SockState
<1>4. x.sendlen - n \in Nat
  <2>1. x.sendlen \in Nat
    BY <1>3 DEF Socks
  <2> QED
    BY <1>3, <2>1
<1> HIDE DEF x
<1>5. y \in Socks /\ y.state = "ACKED" /\ y.sendlen = s.sendlen - n /\ y.readlen = s.readlen
  BY <1>3, <1>4 DEF Socks
<1> HIDE DEF y
<1>6. z \in Socks /\ z.state = "ACKED" /\ z.sendlen = y.sendlen /\ z.readlen = y.readlen
  BY <1>5 DEF Socks
<1> HIDE DEF z
<1> QED
  BY <1>1, <1>5, <1>6

(* psock_readto takes what lies at readptr.                                *)
Taking(s, n) == [s EXCEPT !.readptr = @ + n, !.readlen = @ - n]
LEMMA SockTakes ==
    ASSUME NEW s \in Socks, NEW n \in Nat, n = s.readlen,
           NEW q, q = Taking(s, n)
    PROVE  q \in Socks /\ q.state = s.state /\ q.readlen = 0
<1> DEFINE x == [s EXCEPT !.readptr = @ + n]
           y == [x EXCEPT !.readlen = @ - n]
<1>1. q = y
  BY DEF Taking
<1>2. x \in Socks /\ x.state = s.state /\ x.readlen = n
  BY DEF Socks
<1> HIDE DEF x
<1>3. y \in Socks /\ y.state = x.state /\ y.readlen = 0
  BY <1>2 DEF Socks
<1> HIDE DEF y
<1> QED
  BY <1>1, <1>2, <1>3

(* psock_readto starts on the data of a call.                              *)
Starting(s, n) == [s EXCEPT !.state = "READ", !.readptr = 0, !.readlen = n]
LEMMA SockStarts ==
    ASSUME NEW s \in Socks, NEW n \in Nat, NEW q, q = Starting(s, n)
    PROVE  q \in Socks /\ q.state = "READ" /\ q.readptr = 0 /\ q.readlen = n
<1> DEFINE x == [s EXCEPT !.state = "READ"]
           y == [x EXCEPT !.readptr = 0]
           z == [y EXCEPT !.readlen = n]
<1>1. q = z
  BY DEF Starting
<1>2. "READ" \in SockStates
  BY DEF SockStates
<1>3. x \in Socks /\ x.state = "READ"
  BY <1>2, SockState
<1> HIDE DEF x
<1>4. y \in Socks /\ y.state = "READ" /\ y.readptr = 0
  BY <1>3 DEF Socks
<1> HIDE DEF y
<1>5. z \in Socks /\ z.state = "READ" /\ z.readptr = 0 /\ z.readlen = n
  BY <1>4 DEF Socks
<1> HIDE DEF z
<1> QED
  BY <1>1, <1>5

(* Nothing of the operation the protothread is in has been received, so    *)
(* nothing of a later one.                                                 *)
LEMMA EarlierIsNoneLater ==
    ASSUME SockBase, AllEarlier
    PROVE  NoneLater
<1> SUFFICES ASSUME NEW j \in 1 .. Len(delivered) PROVE delivered[j].op <= pc
  BY DEF NoneLater
<1>1. delivered[j] \in Bytes /\ pc \in Nat
  BY ElementIn, OpsTyped DEF SockBase
<1>2. delivered[j].op < pc
  BY DEF AllEarlier
<1> QED
  BY <1>1, <1>2 DEF Bytes

(* Between operations no operation from i on has been begun, wherever i is. *)
LEMMA SameNews ==
    ASSUME News(pc), UNCHANGED <<program, lines, flags, peer, appdata>>, ps'.state = ps.state,
           NEW i, i = pc', NEW h, h = pc,
           i = h \/ (h \in Nat /\ i = h + 1 /\ Does(h) # "read")
    PROVE  News(pc)'
<1>1. Current' = Current
  BY Zenon DEF Current
<1>2. \A t : Size(t)' = Size(t) /\ EmptySend(t)' = EmptySend(t)
  BY SameOps, Zenon
<1>3. CASE "new" \in flags /\ ps.state # "READ"
  <2>1. PICK t \in Reads : \E m \in 1 .. Size(t) : LineAhead(h, t, m)
    BY <1>3 DEF News
  <2>2. PICK m \in 1 .. Size(t) : LineAhead(h, t, m)
    BY <2>1
  <2>3. LineAhead(i, t, m)
    <3>1. CASE i = h
      BY <2>2, <3>1
    <3>2. CASE h \in Nat /\ i = h + 1 /\ Does(h) # "read"
      <4>1. t \in Int /\ h # t
        BY <3>2, OpsTyped DEF Reads, Does
      <4> QED
        BY <2>2, <3>2, <4>1 DEF LineAhead
    <3> QED
      BY <3>1, <3>2
  <2>4. LineAhead(i, t, m)'
    BY <1>1, <1>2, <2>3 DEF LineAhead
  <2>5. t \in Reads' /\ m \in 1 .. Size(t)'
    BY <1>2, <2>1, <2>2, SameOps
  <2> QED
    BY <1>3, <2>4, <2>5, Zenon DEF News
<1>4. CASE ~("new" \in flags /\ ps.state # "READ")
  <2>1. PeerIdle'
    BY <1>1, <1>4 DEF News, PeerIdle, PeerAt
  <2> QED
    BY <1>4, <2>1, Zenon DEF News
<1> QED
  BY <1>3, <1>4

(* psock_send and psock_generator_send begin.                              *)
LEMMA BeginSendKeeps ==
    ASSUME SendsFit, SockInv, BeginSend
    PROVE  SockInv'
<1>1. /\ flags # {} /\ ~Finished /\ waits = FALSE /\ Does(pc) # "read"
      /\ UNCHANGED <<program, transit, arrived, delivered, peer>>
      /\ UNCHANGED <<line, flags, outgoing, lines>>
  BY DEF BeginSend, Continues, Now, Does
<1>2. SockBase /\ Between
  BY <1>1 DEF SockInv, InTransit, AckedNow, Begun, Ended, Reading, Sender
<1>3. program \in Programs /\ pc \in 1 .. Len(program.ops) /\ pc \in Nat /\ Size(pc) \in Nat /\ ps \in Socks
  <2>1. program \in Programs /\ pc \in 1 .. Len(program.ops) + 1 /\ ps \in Socks
    BY <1>2 DEF SockBase
  <2> QED
    BY <1>1, <2>1, OpsTyped DEF Finished
<1>4. CASE Does(pc) = "send" /\ Size(pc) = 0
  <2>1. pc' = pc + 1 /\ waits' = FALSE /\ UNCHANGED <<ps, appdata>>
    BY <1>4 DEF BeginSend, NextOp, Now, Does, Size
  <2>2. Received(pc)
    BY <1>3, <1>4, WholeIs DEF Received
  <2>3. SockBase' /\ (NoneLater => AllEarlier')
    BY <1>1, <1>2, <1>3, <2>1, <2>2, SockNext DEF SockBase
  <2>4. NoneLater
    BY <1>2, EarlierIsNoneLater DEF Between, Quiet
  <2>5. News(pc)'
    BY <1>1, <1>2, <1>3, <2>1, SameNews DEF Between
  <2>6. Between'
    BY <1>1, <1>2, <2>1, <2>3, <2>4, <2>5 DEF Between, Quiet
  <2> QED
    BY <2>3, <2>6 DEF SockInv
<1>5. CASE ~(Does(pc) = "send" /\ Size(pc) = 0)
  <2>1. /\ ps' = Beginning(ps, Size(pc))
        /\ appdata' = IF Does(pc) = "generate" THEN Whole(pc) ELSE appdata
        /\ waits' = TRUE /\ pc' = pc
    BY <1>5, Zenon DEF BeginSend, Beginning, Now, Does, Size, Whole
  <2>2. ps' \in Socks /\ ps'.state = "NONE" /\ ps'.sendptr = 0 /\ ps'.sendlen = Size(pc) /\ ps'.readlen = ps.readlen
    BY <1>3, <2>1, SockBegins, ZenonT(40)
  <2>3. Size(pc) > 0
    <3>1. Does(pc) \in {"send", "generate"} /\ (Does(pc) = "generate" => Size(pc) > 0)
      BY <1>1, <1>3, OpsTyped, OpFits
    <3> QED
      BY <1>3, <1>5, <3>1
  <2>4. SockBase' /\ Current' = Current /\ AllEarlier' = AllEarlier
    BY <1>1, <1>2, <2>1, <2>2, SockSame DEF SockBase
  <2>5. PeerIdle
    <3> SUFFICES ASSUME NEW t \in Reads, NEW m \in 1 .. Size(t), LineAhead(pc, t, m) PROVE FALSE
      BY <1>2 DEF Between, News
    <3>1. t \in Int /\ Does(t) = "read"
      BY <1>3, OpsTyped DEF Reads, Does
    <3>2. pc \in pc .. t - 1
      BY <1>1, <1>3, <3>1 DEF LineAhead
    <3> QED
      BY <1>5, <3>2 DEF LineAhead, EmptySend
  <2>6. Size(pc)' = Size(pc) /\ Does(pc)' = Does(pc) /\ Whole(pc)' = Whole(pc)
    BY <1>1, <2>1, Zenon DEF Size, Does, Whole
  <2>7. Sender'
    BY <1>1, <1>2, <1>3, <2>1, <2>2, <2>3, <2>6 DEF Sender, Between
  <2>8. Quiet'
    BY <1>1, <1>2, <2>4 DEF Between, Quiet
  <2>9. Begun'
    BY <1>1, <2>1, <2>2, <2>4, <2>5, <2>6, <2>7, <2>8 DEF Begun, PeerIdle
  <2> QED
    BY <2>4, <2>9 DEF SockInv
<1> QED
  BY <1>4, <1>5

(* data_acked and send_data hand on the struct and whether they are done.  *)
LEMMA OutcomeIs ==
    ASSUME NEW s, NEW ok
    PROVE  Outcome(s, ok).s = s /\ Outcome(s, ok).ok = ok
BY Zenon DEF Outcome

(* Everything a protothread sends goes into one call of uip_send.          *)
LEMMA SendsWhole ==
    ASSUME SendsFit, SockBase, Sender, SendsNow(ps), Does(pc) = "generate" => appdata = Whole(pc)
    PROVE  Sends(ps) = Whole(pc)
<1>1. program \in Programs /\ pc \in 1 .. Len(program.ops)
  BY OpsTyped DEF SockBase, Sender
<1>2. Size(pc) \in Nat /\ Size(pc) <= Mss /\ Mss \in Nat
  BY <1>1, OpsTyped, OpFits DEF Sender
<1>3. Smaller(ps.sendlen, Mss) = Size(pc) /\ ps.sendptr = 0 /\ Size(pc) # 0
  BY <1>2 DEF Sender, Smaller
<1>4. Sends(ps) = IF Does(pc) = "generate" THEN SubSeq(appdata, 1, Size(pc)) ELSE Piece(pc, 0, Size(pc))
  BY <1>3, Zenon DEF Sends, Now, Does
<1>5. SubSeq(Whole(pc), 1, Size(pc)) = Whole(pc)
  BY <1>1, WholeIs, SubSeqFull
<1> QED
  BY <1>4, <1>5, Zenon DEF Whole

(* A call that ends leaves a protothread that waits, with what it sent in  *)
(* transit.                                                                *)
LEMMA ComesInTransit ==
    ASSUME SockBase, Sender, PeerIdle, NEW q \in Socks, q.state = "DATA_SENT",
           q.sendlen = ps.sendlen, q.sendptr = ps.sendptr, q.readlen = ps.readlen, ps' = q,
           UNCHANGED <<pc, waits, program, delivered, peer, lines>>, flags' = {}, outgoing' = <<>>,
           transit' = Whole(pc),
           \/ arrived' = TRUE /\ NoneLater /\ Received(pc)
           \/ arrived' = FALSE /\ AllEarlier
    PROVE  SockInv'
<1>1. SockBase' /\ Current' = Current /\ NoneLater' = NoneLater /\ AllEarlier' = AllEarlier
  BY SockSame
<1>2. Size(pc)' = Size(pc) /\ Does(pc)' = Does(pc) /\ Whole(pc)' = Whole(pc)
  BY Zenon DEF Size, Does, Whole
<1>3. Received(pc)' = Received(pc)
  BY Zenon DEF Received, OutputOf
<1>4. Sender'
  BY <1>2 DEF Sender
<1>5. PeerIdle'
  BY <1>1, Zenon DEF PeerIdle, PeerAt
<1>6. InTransit'
  BY <1>1, <1>2, <1>3, <1>4, <1>5 DEF InTransit
<1> QED
  BY <1>1, <1>6 DEF SockInv

(* The wait condition of psock_send when it is not fulfilled.              *)
LEMMA WaitGoesOn ==
    ASSUME WaitSend, ~DataAcked(ps).ok, DataAcked(ps).s = ps
    PROVE  /\ ps' = SendData(ps).s /\ Return(Sends(ps)) /\ UNCHANGED <<pc, waits>> /\ UNCHANGED <<line, lines>>
<1> DEFINE acked == DataAcked(ps)
           later == SendData(acked.s)
           data == Sends(acked.s)
<1>1. ~(acked.ok /\ later.ok)
  OBVIOUS
<1> HIDE DEF acked, later, data
<1>2. ps' = later.s /\ Return(data) /\ UNCHANGED <<pc, waits>> /\ UNCHANGED <<line, lines>>
  BY <1>1, Zenon DEF WaitSend, acked, later, data
<1> QED
  BY <1>2, Zenon DEF acked, later, data

(* psock_send and its like send for the first time.                        *)
LEMMA BegunWaits ==
    ASSUME SendsFit, SockBase, Begun, WaitSend
    PROVE  SockInv'
<1>1. Sender /\ ps.state = "NONE" /\ Quiet /\ PeerIdle /\ ps \in Socks
  BY DEF Begun, SockBase
<1>2. DataAcked(ps) = Outcome(ps, FALSE) /\ SendsNow(ps)
  BY <1>1 DEF DataAcked, SendsNow
<1>3. ~DataAcked(ps).ok /\ DataAcked(ps).s = ps
  BY <1>2, OutcomeIs, Zenon
<1>4. SendData(ps).s = [ps EXCEPT !.state = "DATA_SENT"]
  BY <1>2, OutcomeIs, Zenon DEF SendData
<1>5. Sends(ps) = Whole(pc)
  BY <1>1, <1>2, SendsWhole DEF Begun
<1>6. Whole(pc) # <<>>
  BY <1>1, OpsTyped, WholeIs DEF SockBase, Sender
<1>7. ps' = [ps EXCEPT !.state = "DATA_SENT"] /\ Return(Whole(pc)) /\ UNCHANGED <<pc, waits, lines>>
  BY <1>3, <1>4, <1>5, WaitGoesOn
<1>8. /\ flags' = {} /\ outgoing' = <<>> /\ UNCHANGED <<program, delivered, peer>>
      /\ transit' = Whole(pc) /\ arrived' = arrived
  BY <1>1, <1>6, <1>7 DEF Return, Quiet
<1>9. /\ ps' \in Socks /\ ps'.state = "DATA_SENT" /\ ps'.sendptr = ps.sendptr /\ ps'.sendlen = ps.sendlen
      /\ ps'.readlen = ps.readlen
  <2>1. "DATA_SENT" \in SockStates
    BY DEF SockStates
  <2> QED
    BY <1>1, <1>7, <2>1, SockState
<1>10. arrived' = FALSE /\ AllEarlier
  BY <1>1, <1>8 DEF Quiet
<1> QED
  BY <1>1, <1>7, <1>8, <1>9, <1>10, ComesInTransit

(* What is in transit stays there, sent again or not.                      *)
LEMMA TransitWaits ==
    ASSUME SendsFit, SockBase, InTransit, WaitSend
    PROVE  SockInv'
<1>1. Sender /\ ps.state = "DATA_SENT" /\ PeerIdle /\ ps \in Socks /\ "ack" \notin flags /\ outgoing = <<>>
  BY DEF InTransit, SockBase
<1>2. program \in Programs /\ pc \in 1 .. Len(program.ops)
  BY <1>1, OpsTyped DEF SockBase, Sender
<1>3. ~DataAcked(ps).ok /\ DataAcked(ps).s = ps
  BY <1>1, OutcomeIs, Zenon DEF DataAcked
<1>4. ps' = SendData(ps).s /\ Return(Sends(ps)) /\ UNCHANGED <<pc, waits, lines>>
  BY <1>3, WaitGoesOn
<1>5. /\ ps' \in Socks /\ ps'.state = "DATA_SENT" /\ ps'.sendptr = ps.sendptr /\ ps'.sendlen = ps.sendlen
      /\ ps'.readlen = ps.readlen
  <2>1. "DATA_SENT" \in SockStates
    BY DEF SockStates
  <2>2. ps' = [ps EXCEPT !.state = "DATA_SENT"] \/ ps' = ps
    BY <1>4, OutcomeIs, Zenon DEF SendData
  <2> QED
    BY <1>1, <2>1, <2>2, SockState
<1>6. transit' = Whole(pc) /\ arrived' = arrived
  <2>1. CASE "rexmit" \in flags
    <3>1. SendsNow(ps)
      BY <2>1 DEF SendsNow
    <3>2. Does(pc) # "generate"
      BY <1>2, <2>1, OpFits DEF InTransit
    <3>3. Sends(ps) = Whole(pc)
      BY <1>1, <3>1, <3>2, SendsWhole
    <3> QED
      BY <1>4, <2>1, <3>3, WholeIs DEF Return, InTransit
  <2>2. CASE "rexmit" \notin flags
    <3>1. ~SendsNow(ps)
      BY <1>1, <2>2 DEF SendsNow
    <3>2. Sends(ps) = <<>>
      BY <1>1, <3>1, Zenon DEF Sends
    <3> QED
      BY <1>4, <3>2 DEF Return, InTransit
  <2> QED
    BY <2>1, <2>2
<1>7. flags' = {} /\ outgoing' = <<>> /\ UNCHANGED <<program, delivered, peer>>
  BY <1>4 DEF Return
<1>8. \/ arrived' = TRUE /\ NoneLater /\ Received(pc)
      \/ arrived' = FALSE /\ AllEarlier
  BY <1>6 DEF InTransit
<1> QED
  BY <1>1, <1>4, <1>5, <1>6, <1>7, <1>8, ComesInTransit

(* The wait condition when it is: the acknowledgement covers all there was. *)
LEMMA AckedGoesOn ==
    ASSUME SendsFit, SockBase, AckedNow, WaitSend
    PROVE  SockInv'
<1>1. Sender /\ ps.state = "DATA_SENT" /\ ps \in Socks /\ "ack" \in flags /\ outgoing = <<>>
  BY DEF AckedNow, SockBase
<1>2. program \in Programs /\ pc \in 1 .. Len(program.ops)
  BY <1>1, OpsTyped DEF SockBase, Sender
<1>3. Size(pc) \in Nat /\ Size(pc) <= Mss /\ Mss \in Nat
  BY <1>1, <1>2, OpsTyped, OpFits DEF Sender
<1> DEFINE q == MovingOn(ps, Size(pc))
           r == [q EXCEPT !.state = "DATA_SENT"]
<1>4. q \in Socks /\ q.state = "ACKED" /\ q.sendlen = 0 /\ q.readlen = ps.readlen
  <2>1. ps.sendlen = Size(pc) /\ Size(pc) <= ps.sendlen
    BY <1>1, <1>3 DEF Sender
  <2>2. q \in Socks /\ q.state = "ACKED" /\ q.sendlen = ps.sendlen - Size(pc) /\ q.readlen = ps.readlen
    BY <1>1, <1>3, <2>1, SockMovesOn
  <2> QED
    BY <1>3, <2>1, <2>2
<1>5. DataAcked(ps) = Outcome(q, TRUE)
  <2>1. Smaller(ps.sendlen, Mss) = Size(pc)
    BY <1>1, <1>3 DEF Sender, Smaller
  <2> QED
    BY <1>1, <2>1, Zenon DEF DataAcked, MovingOn
<1> HIDE DEF q
<1>6. DataAcked(ps).s = q /\ DataAcked(ps).ok
  BY <1>5, OutcomeIs, Zenon
<1>7. SendData(q) = Outcome(r, TRUE)
  BY <1>4, Zenon DEF SendData, SendsNow
<1>8. SendData(q).s = r /\ SendData(q).ok
  BY <1>7, OutcomeIs, ZenonT(40)
<1>9. r \in Socks /\ r.sendlen = 0 /\ r.readlen = ps.readlen
  <2>1. "DATA_SENT" \in SockStates
    BY DEF SockStates
  <2> QED
    BY <1>4, <2>1, SockState
<1> HIDE DEF r
<1>10. Sends(q) = outgoing
  <2>1. Smaller(q.sendlen, Mss) = 0
    BY <1>3, <1>4 DEF Smaller
  <2> QED
    BY <2>1, Zenon DEF Sends
<1>11. /\ ps' = [r EXCEPT !.state = "NONE"] /\ NextOp /\ outgoing' = outgoing
       /\ UNCHANGED <<flags, program, transit, arrived, delivered, peer>> /\ UNCHANGED <<line, lines>>
       /\ appdata' = appdata
  <2>1. ~(r.sendlen > 0)
    BY <1>9
  <2> QED
    BY <1>6, <1>8, <1>10, <2>1, Zenon DEF WaitSend
<1>12. ps' \in Socks /\ ps'.state = "NONE" /\ ps'.readlen = 0
  <2>1. "NONE" \in SockStates
    BY DEF SockStates
  <2>2. ps.readlen = 0
    BY <1>1 DEF Sender
  <2> QED
    BY <1>9, <1>11, <2>1, <2>2, SockState
<1>13. pc' = pc + 1 /\ waits' = FALSE
  BY <1>11 DEF NextOp
<1>14. SockBase' /\ (NoneLater => AllEarlier') /\ Current' = Current
  BY <1>1, <1>2, <1>11, <1>12, <1>13, SockNext DEF AckedNow, Sender
<1>15. News(pc)'
  <2>1. News(pc + 1)
    BY DEF AckedNow
  <2>2. ps.state # "READ" /\ ps'.state # "READ"
    BY <1>1, <1>12
  <2>3. \A t : Size(t)' = Size(t) /\ EmptySend(t)' = EmptySend(t)
    BY <1>11, SameOps, Zenon
  <2>4. Reads' = Reads
    BY <1>11, SameOps
  <2>5. CASE "new" \in flags
    <3>1. PICK t \in Reads : \E m \in 1 .. Size(t) : LineAhead(pc + 1, t, m)
      BY <2>1, <2>2, <2>5 DEF News
    <3>2. PICK m \in 1 .. Size(t) : LineAhead(pc + 1, t, m)
      BY <3>1
    <3>3. LineAhead(pc, t, m)'
      BY <1>11, <1>13, <1>14, <2>3, <3>2 DEF LineAhead
    <3>4. t \in Reads' /\ m \in 1 .. Size(t)'
      BY <2>3, <2>4, <3>1, <3>2
    <3> QED
      BY <1>11, <2>2, <2>5, <3>3, <3>4, Zenon DEF News
  <2>6. CASE "new" \notin flags
    <3>1. PeerIdle'
      BY <1>11, <1>14, <2>1, <2>6 DEF News, PeerIdle, PeerAt
    <3> QED
      BY <1>11, <2>6, <3>1, Zenon DEF News
  <2> QED
    BY <2>5, <2>6
<1>16. Between'
  BY <1>1, <1>11, <1>12, <1>13, <1>14, <1>15 DEF Between, Quiet, AckedNow
<1> QED
  BY <1>14, <1>16 DEF SockInv

(* psock_send and its like wait.                                           *)
LEMMA WaitSendKeeps ==
    ASSUME SendsFit, SockInv, WaitSend
    PROVE  SockInv'
<1>1. waits # FALSE /\ Does(pc) # "read"
  BY DEF WaitSend, Now, Does
<1>2. SockBase /\ (InTransit \/ AckedNow \/ Begun)
  BY <1>1 DEF SockInv, Between, Ended, Reading
<1> QED
  BY <1>2, BegunWaits, TransitWaits, AckedGoesOn

(* Sequences with the same elements are the same.                          *)
LEMMA SameElements ==
    ASSUME NEW S, NEW a \in Seq(S), NEW b \in Seq(S), Len(a) = Len(b), \A i \in 1 .. Len(a) : a[i] = b[i]
    PROVE  a = b
BY SeqEqual

(* A part of a stretch of a line is one.                                   *)
After(s, m, to) == SubSeq(s, m + 1, to)
LEMMA PartOfStretch ==
    ASSUME NEW k \in Nat, NEW n \in Nat, NEW m \in Nat, NEW to \in Nat, m <= to, to <= n
    PROVE  After(Stretch(k, n, 0, n), m, to) = Stretch(k, n, m, to)
<1> DEFINE a == Stretch(k, n, 0, n)
           b == Stretch(k, n, m, to)
<1>1. IsStretch(a, k, n, 0, n) /\ IsStretch(b, k, n, m, to)
  BY StretchIs
<1> HIDE DEF a, b
<1>2. a \in Seq(Bytes) /\ Len(a) = n /\ \A j \in 1 .. n : a[j] = LineUnit(k, n, 0 + j)
  BY <1>1 DEF IsStretch
<1>3. b \in Seq(Bytes) /\ Len(b) = to - m /\ \A j \in 1 .. to - m : b[j] = LineUnit(k, n, m + j)
  BY <1>1 DEF IsStretch
<1>5. SubSeq(a, m + 1, to) \in Seq(Bytes) /\ Len(SubSeq(a, m + 1, to)) = to - m
  BY <1>2, SubSeqProperties
<1>6. ASSUME NEW j \in 1 .. to - m PROVE SubSeq(a, m + 1, to)[j] = b[j]
  <2>1. SubSeq(a, m + 1, to)[j] = a[m + j]
    BY <1>2, SubSeqProperties
  <2>2. m + j \in 1 .. n /\ 0 + (m + j) = m + j
    OBVIOUS
  <2> QED
    BY <1>2, <1>3, <2>1, <2>2, Zenon
<1> QED
  BY <1>3, <1>5, <1>6, SameElements DEF After, a, b

(* buf_bufto adds what fits into the buffer.                               *)
Buffered(l, d) == l \o SubSeq(d, 1, Smaller(BufSize - Len(l), Len(d)))
LEMMA StretchGrows ==
    ASSUME NEW k \in Nat, NEW n \in Nat, NEW took \in Nat, NEW m \in Nat, took <= m, m <= n,
           BufSize \in Nat, NEW l, l = Stretch(k, n, 0, Smaller(BufSize, took)),
           NEW d, d = Stretch(k, n, took, m)
    PROVE  Buffered(l, d) = Stretch(k, n, 0, Smaller(BufSize, m))
<1> DEFINE u == Smaller(BufSize, took)
           v == Smaller(BufSize, m)
           w == Smaller(BufSize - Smaller(BufSize, took), m - took)
           a == Stretch(k, n, 0, u)
           b == Stretch(k, n, took, m)
           c == SubSeq(b, 1, w)
           e == Stretch(k, n, 0, v)
<1>1. u \in Nat /\ v \in Nat /\ w \in Nat /\ u + w = v /\ w <= m - took /\ (w > 0 => u = took)
  BY DEF Smaller
<1> HIDE DEF u, v, w
<1>2. IsStretch(a, k, n, 0, u) /\ IsStretch(e, k, n, 0, v) /\ IsStretch(b, k, n, took, m)
  BY <1>1, StretchIs
<1> HIDE DEF a, b, e
<1>3. a \in Seq(Bytes) /\ Len(a) = u /\ e \in Seq(Bytes) /\ Len(e) = v
  BY <1>1, <1>2 DEF IsStretch
<1>4. b \in Seq(Bytes) /\ Len(b) = m - took /\ \A j \in 1 .. m - took : b[j] = LineUnit(k, n, took + j)
  BY <1>2 DEF IsStretch
<1>5. /\ \A j \in 1 .. u : a[j] = LineUnit(k, n, j)
      /\ \A j \in 1 .. v : e[j] = LineUnit(k, n, j)
  <2>1. u - 0 = u /\ v - 0 = v
    BY <1>1
  <2>2. /\ \A j \in 1 .. u : a[j] = LineUnit(k, n, 0 + j)
        /\ \A j \in 1 .. v : e[j] = LineUnit(k, n, 0 + j)
    BY <1>2, <2>1, Zenon DEF IsStretch
  <2>3. (\A j \in 1 .. u : 0 + j = j) /\ \A j \in 1 .. v : 0 + j = j
    OBVIOUS
  <2> QED
    BY <2>2, <2>3, Zenon
<1>6. c \in Seq(Bytes) /\ Len(c) = w /\ \A j \in 1 .. w : c[j] = b[j]
  <2>1. c \in Seq(Bytes)
    BY <1>1, <1>4, SubSeqProperties
  <2>2. Len(c) = w
    BY <1>1, <1>4, SubSeqProperties
  <2>3. ASSUME NEW j \in 1 .. w PROVE c[j] = b[j]
    <3>1. c[j] = b[1 + j - 1] /\ 1 + j - 1 = j
      BY <1>1, <1>4, SubSeqProperties
    <3> QED
      BY <3>1
  <2> QED
    BY <2>1, <2>2, <2>3
<1> HIDE DEF c
<1>7. a \o c \in Seq(Bytes) /\ Len(a \o c) = v
  BY <1>1, <1>3, <1>6, ConcatProperties
<1>8. ASSUME NEW j \in 1 .. v PROVE (a \o c)[j] = e[j]
  <2>1. CASE j <= u
    <3>1. (a \o c)[j] = a[j] /\ j \in 1 .. u
      BY <1>1, <1>3, <1>6, <2>1, ConcatProperties
    <3> QED
      BY <1>5, <3>1, Zenon
  <2>2. CASE ~(j <= u)
    <3>1. (a \o c)[j] = c[j - u] /\ j - u \in 1 .. w
      BY <1>1, <1>3, <1>6, <2>2, ConcatProperties
    <3>2. j - u \in 1 .. m - took /\ took + (j - u) = j
      BY <1>1, <3>1
    <3> QED
      BY <1>4, <1>5, <1>6, <3>1, <3>2, Zenon
  <2> QED
    BY <2>1, <2>2
<1>9. a \o c = e
  BY <1>3, <1>7, <1>8, SameElements
<1>10. Len(l) = u /\ Len(d) = m - took /\ l = a /\ d = b
  BY <1>3, <1>4, Zenon DEF a, b, u
<1> QED
  BY <1>9, <1>10, Zenon DEF Buffered, c, e, v, w, u

(* Nothing of a line is no sequence.                                       *)
LEMMA NoStretch ==
    ASSUME NEW k \in Nat, NEW n \in Nat
    PROVE  Stretch(k, n, 0, 0) = <<>>
<1>1. IsStretch(Stretch(k, n, 0, 0), k, n, 0, 0)
  BY StretchIs
<1>2. Stretch(k, n, 0, 0) \in Seq(Bytes) /\ Len(Stretch(k, n, 0, 0)) = 0
  BY <1>1 DEF IsStretch
<1> QED
  BY <1>2, EmptySeq

(* What holds of the line that is read or will be.                         *)
LEMMA CurrentTyped ==
    ASSUME SockBase
    PROVE  /\ Current \in Nat /\ Current > 0 /\ Current - 1 = Len(lines)
           /\ Current = Cardinality(ReadsBefore(pc)) + 1
           /\ PeerIdle <=> peer = PeerAt(Current, 0, 0)
           /\ \A n : PeerAt(Current, n, 0) = [line |-> Current, unit |-> 0]
<1>1. Len(lines) \in Nat
  BY LenProperties DEF SockBase
<1>2. \A n : PeerAt(Current, n, 0) = [line |-> Current, unit |-> 0]
  <2> TAKE n
  <2>1. ~(0 = n /\ n > 0)
    OBVIOUS
  <2> QED
    BY <2>1, Zenon DEF PeerAt
<1> QED
  BY <1>1, <1>2 DEF Current, PeerIdle, SockBase

(* psock_readto begins: the data of the call, if it has any, is for it.    *)
LEMMA BeginReadKeeps ==
    ASSUME SockInv, BeginRead
    PROVE  SockInv'
<1>1. /\ flags # {} /\ ~Finished /\ waits = FALSE /\ Does(pc) = "read"
      /\ UNCHANGED <<program, transit, arrived, delivered, peer>>
      /\ line' = <<>> /\ waits' = TRUE /\ UNCHANGED <<pc, ps, appdata, flags, outgoing, lines>>
  BY DEF BeginRead, Continues, Now, Does
<1>2. SockBase /\ Between
  BY <1>1 DEF SockInv, InTransit, AckedNow, Begun, Ended, Reading, Sender
<1>3. program \in Programs /\ pc \in 1 .. Len(program.ops) /\ pc \in Nat /\ Size(pc) \in Nat /\ BufSize \in Nat
  <2>1. program \in Programs /\ pc \in 1 .. Len(program.ops) + 1
    BY <1>2 DEF SockBase
  <2> QED
    BY <1>1, <2>1, OpsTyped DEF Finished
<1>4. SockBase' /\ Current' = Current /\ AllEarlier' = AllEarlier
  BY <1>1, <1>2, SockSame DEF SockBase
<1>5. Size(pc)' = Size(pc) /\ Does(pc)' = Does(pc)
  BY <1>1, Zenon DEF Size, Does
<1>6. Quiet'
  BY <1>1, <1>2, <1>4 DEF Between, Quiet
<1>7. line' = Stretch(Current, Size(pc), 0, Smaller(BufSize, 0))
  <2>1. Smaller(BufSize, 0) = 0
    BY <1>3 DEF Smaller
  <2> QED
    BY <1>1, <1>2, <1>3, <2>1, CurrentTyped, NoStretch
<1>8. CASE "new" \in flags /\ ps.state # "READ"
  <2>1. PICK t \in Reads : \E m \in 1 .. Size(t) : LineAhead(pc, t, m)
    BY <1>2, <1>8 DEF Between, News
  <2>2. PICK m \in 1 .. Size(t) : LineAhead(pc, t, m)
    BY <2>1
  <2>3. t = pc
    <3>1. t \in Int /\ pc <= t
      BY <1>3, <2>2, OpsTyped DEF Reads, LineAhead
    <3>2. ~(pc \in pc .. t - 1)
      BY <1>1, <2>2 DEF LineAhead, EmptySend
    <3> QED
      BY <1>3, <3>1, <3>2
  <2>4. m \in Nat /\ 0 < m /\ 0 <= m /\ m <= Size(pc)
    BY <1>3, <2>2, <2>3
  <2>5. peer = PeerAt(Current, Size(pc), m) /\ appdata = Stretch(Current, Size(pc), 0, m)
    BY <2>2, <2>3 DEF LineAhead
  <2>6. Unseen(0, m)'
    BY <1>1, <1>2, <1>4, <1>5, <1>8, <2>4, <2>5 DEF Unseen, Between
  <2>7. Reading(0, m)'
    BY <1>1, <1>2, <1>3, <1>4, <1>5, <1>6, <1>7, <2>4, <2>5, <2>6 DEF Reading, Between
  <2> QED
    BY <1>4, <2>4, <2>7 DEF SockInv
<1>9. CASE ~("new" \in flags /\ ps.state # "READ")
  <2>1. peer = PeerAt(Current, Size(pc), 0)
    BY <1>2, <1>9, CurrentTyped DEF Between, News
  <2>2. AllTaken(0, 0)'
    BY <1>1, <1>2, <1>9 DEF AllTaken, Between
  <2>3. Reading(0, 0)'
    BY <1>1, <1>2, <1>3, <1>4, <1>5, <1>6, <1>7, <2>1, <2>2 DEF Reading, Between
  <2> QED
    BY <1>4, <2>3 DEF SockInv
<1> QED
  BY <1>8, <1>9

(* Going on behind a read that has returned the line it was to return.     *)
LEMMA SockReadNext ==
    ASSUME SockBase, UNCHANGED <<program, delivered>>, ps' \in Socks, outgoing' = <<>>,
           pc \in 1 .. Len(program.ops), Does(pc) = "read", pc' = pc + 1, AllEarlier,
           lines' = Append(lines, Stretch(Current, Size(pc), 0, Smaller(BufSize, Size(pc))))
    PROVE  SockBase' /\ Current' = Current + 1 /\ AllEarlier'
<1>0. program \in Programs /\ lines \in Seq(Seq(Bytes))
  BY DEF SockBase
<1>1. /\ \A i : Received(i)' = Received(i) /\ ReadsBefore(i)' = ReadsBefore(i) /\ Turn(i)' = Turn(i)
      /\ Ordered(delivered)' = Ordered(delivered)
  BY SameReceived, SameOps, Zenon
<1>2. pc \in Nat /\ Size(pc) \in Nat /\ BufSize \in Nat /\ Len(program.ops) \in Nat
  BY <1>0, OpsTyped
<1>3. Current \in Nat /\ Current = Len(lines) + 1 /\ Current = Cardinality(ReadsBefore(pc)) + 1 /\ Len(lines) \in Nat
  BY <1>0, CurrentTyped, LenProperties DEF Current
<1> DEFINE b == Smaller(BufSize, Size(pc))
           x == Stretch(Current, Size(pc), 0, b)
<1>4. b \in Nat /\ 0 <= b
  BY <1>2 DEF Smaller
<1>5. x \in Seq(Bytes) /\ x = [j \in 1 .. b |-> Byte(-Current, IF j = Size(pc) THEN 0 ELSE j)]
  <2> HIDE DEF b
  <2>1. IsStretch(x, Current, Size(pc), 0, b)
    BY <1>2, <1>3, <1>4, StretchIs
  <2>2. x = [j \in 1 .. b - 0 |-> LineUnit(Current, Size(pc), 0 + j)]
    BY Zenon DEF Stretch
  <2>3. b - 0 = b /\ \A j \in 1 .. b : 0 + j = j
    BY <1>4
  <2>4. x = [j \in 1 .. b |-> LineUnit(Current, Size(pc), j)]
    BY <2>2, <2>3
  <2> QED
    BY <2>1, <2>4, Zenon DEF IsStretch, LineUnit
<1>6. Turn(Current) = pc
  <2>1. pc \in Reads
    BY DEF Reads, Does
  <2> QED
    BY <1>0, <1>3, <2>1, TurnIs
<1> HIDE DEF x
<1>7. lines' = Append(lines, x)
  BY DEF x
<1>8. lines' \in Seq(Seq(Bytes)) /\ Len(lines') = Current /\ lines'[Current] = x
      /\ \A k \in 1 .. Len(lines) : lines'[k] = lines[k]
  BY <1>0, <1>3, <1>5, <1>7, AppendProperties
<1>9. ReadsNextLine'
  <2> DEFINE Right(s, k, n) == s = [j \in 1 .. Smaller(BufSize, n) |-> Byte(-k, IF j = n THEN 0 ELSE j)]
  <2>1. ReadsNextLine' <=> \A k \in 1 .. Len(lines') : Right(lines'[k], k, program'.ops[Turn(k)'].len)
    BY Zenon DEF ReadsNextLine
  <2>2. \A k \in 1 .. Len(lines) : Right(lines[k], k, program.ops[Turn(k)].len)
    BY Zenon DEF ReadsNextLine, SockBase
  <2>3. Right(x, Current, program.ops[Turn(Current)].len)
    BY <1>5, <1>6, Zenon DEF Size
  <2> HIDE DEF Right
  <2>4. \A k \in 1 .. Len(lines') : k \in 1 .. Len(lines) \/ k = Current
    BY <1>3, <1>8
  <2> QED
    BY <1>1, <1>8, <2>1, <2>2, <2>3, <2>4, Zenon
<1>10. (pc \in 1 .. Len(program.ops) + 1)'
  BY <1>2
<1>11. Received(pc)
  BY <1>0, WholeIs DEF Received
<1>12. (\A i \in 1 .. pc - 1 : Received(i))'
  <2>1. ASSUME NEW i \in 1 .. pc' - 1 PROVE Received(i)
    <3>1. i \in 1 .. pc - 1 \/ i = pc
      BY <1>2
    <3> QED
      BY <1>11, <3>1 DEF SockBase
  <2> QED
    BY <2>1, <1>1
<1>13. (Len(lines) = Cardinality(ReadsBefore(pc)))'
  <2>1. Cardinality(ReadsBefore(pc + 1)) = Cardinality(ReadsBefore(pc)) + 1
    BY <1>0, ReadsNext
  <2>2. Len(lines') = Cardinality(ReadsBefore(pc + 1))
    BY <1>3, <1>8, <2>1
  <2> QED
    BY <1>1, <2>2, Zenon
<1>14. AllEarlier'
  <2> SUFFICES ASSUME NEW j \in 1 .. Len(delivered') PROVE delivered'[j].op < pc'
    BY DEF AllEarlier
  <2>1. delivered[j] \in Bytes
    BY ElementIn DEF SockBase
  <2> QED
    BY <2>1, <1>2 DEF AllEarlier, Bytes
<1>15. Current' = Current + 1
  BY <1>8 DEF Current
<1> QED
  BY <1>1, <1>8, <1>9, <1>10, <1>12, <1>13, <1>14, <1>15, Zenon DEF SockBase

(* The end marker is the last unit of a line and no other.                 *)
LEMMA EndOfLine ==
    ASSUME NEW k \in Nat, k > 0, NEW n \in Nat, NEW j \in Nat, j > 0
    PROVE  IsEnd(LineUnit(k, n, j)) <=> j = n
<1>1. LineUnit(k, n, j).op = -k /\ LineUnit(k, n, j).at = IF j = n THEN 0 ELSE j
  BY DEF LineUnit, Byte
<1> QED
  BY <1>1 DEF IsEnd

(* buf_bufto takes all that is unread, since a line ends with its segment. *)
LEMMA TakesAll ==
    ASSUME SockBase, NEW took \in Nat, NEW m \in Nat, Size(pc) \in Nat, m <= Size(pc), Unread(took, m)
    PROVE  Upto = ps.readlen /\ Taken(Upto) = Stretch(Current, Size(pc), took, m) /\ took < m
<1>1. ps.readptr \in Nat /\ ps.readlen \in Nat
  BY DEF SockBase, Socks
<1>2. ps.readlen = m - took /\ ps.readlen > 0 /\ ps.readptr + ps.readlen = Len(appdata)
  BY DEF Unread
<1>3. Current \in Nat /\ Current > 0
  BY CurrentTyped
<1> DEFINE ends == {i \in 1 .. ps.readlen : ps.readptr + i <= Len(appdata) /\ IsEnd(appdata[ps.readptr + i])}
<1>4. \A i \in 1 .. ps.readlen : /\ ps.readptr + i <= Len(appdata)
                                 /\ appdata[ps.readptr + i] = LineUnit(Current, Size(pc), took + i)
  BY <1>1, <1>2 DEF Unread
<1>5. \A i \in 1 .. ps.readlen : IsEnd(LineUnit(Current, Size(pc), took + i)) <=> took + i = Size(pc)
  BY <1>2, <1>3, EndOfLine
<1>6. \A i \in ends : i = ps.readlen
  <2> SUFFICES ASSUME NEW i \in 1 .. ps.readlen, IsEnd(appdata[ps.readptr + i]) PROVE i = ps.readlen
    OBVIOUS
  <2>1. took + i = Size(pc)
    BY <1>4, <1>5
  <2> QED
    BY <1>1, <1>2, <2>1
<1>7. Upto = IF ends = {} THEN ps.readlen ELSE CHOOSE i \in ends : \A j \in ends : i <= j
  BY Zenon DEF Upto
<1> HIDE DEF ends
<1>8. Upto = ps.readlen
  <2>1. CASE ends = {}
    BY <1>7, <2>1
  <2>2. CASE ends # {}
    <3>1. ps.readlen \in ends /\ \A j \in ends : ps.readlen <= j
      BY <1>1, <1>6, <2>2
    <3>2. (CHOOSE i \in ends : \A j \in ends : i <= j) \in ends
      BY <3>1, Zenon
    <3> QED
      BY <1>6, <1>7, <2>2, <3>2, Zenon
  <2> QED
    BY <2>1, <2>2
<1>9. Taken(Upto) = [i \in 1 .. ps.readlen |-> LineUnit(Current, Size(pc), took + i)]
  <2>1. Taken(Upto) = [i \in 1 .. ps.readlen |-> At(ps.readptr + i)]
    BY <1>8, Zenon DEF Taken
  <2>2. \A i \in 1 .. ps.readlen : At(ps.readptr + i) = LineUnit(Current, Size(pc), took + i)
    BY <1>4, Zenon DEF At
  <2> QED
    BY <2>1, <2>2, Zenon
<1>10. Taken(Upto) = Stretch(Current, Size(pc), took, m)
  BY <1>2, <1>9, Zenon DEF Stretch
<1> QED
  BY <1>1, <1>2, <1>8, <1>10

(* psock_readto takes the units that lie there.                            *)
LEMMA ReadToKeeps ==
    ASSUME SockInv, ReadTo
    PROVE  SockInv'
<1>1. /\ flags # {} /\ ~Finished /\ waits # FALSE /\ Does(pc) = "read" /\ ps.readlen > 0
      /\ UNCHANGED <<program, transit, arrived, delivered, peer>>
      /\ UNCHANGED <<appdata, flags, outgoing>>
  BY DEF ReadTo, Continues, Now, Does
<1>2. SockBase /\ \E took, m \in Nat : Reading(took, m)
  BY <1>1 DEF SockInv, InTransit, AckedNow, Begun, Between, Ended, Sender
<1>3. PICK took \in Nat : \E m \in Nat : Reading(took, m)
  BY <1>2
<1>4. PICK m \in Nat : Reading(took, m)
  BY <1>3
<1>5. Unread(took, m) /\ Quiet /\ took <= m /\ m <= Size(pc)
  BY <1>1, <1>4 DEF Reading, Unseen, AllTaken
<1>6. program \in Programs /\ pc \in 1 .. Len(program.ops) /\ pc \in Nat /\ Size(pc) \in Nat /\ BufSize \in Nat
      /\ ps \in Socks /\ ps.readlen \in Nat
  <2>1. program \in Programs /\ pc \in 1 .. Len(program.ops) + 1 /\ ps \in Socks
    BY <1>2 DEF SockBase
  <2> QED
    BY <1>1, <2>1, OpsTyped DEF Finished, Socks
<1>7. Upto = ps.readlen /\ Taken(Upto) = Stretch(Current, Size(pc), took, m) /\ took < m
  BY <1>2, <1>5, <1>6, TakesAll
<1>8. Current \in Nat /\ Current > 0
  BY <1>2, CurrentTyped
<1> DEFINE k == Current
           n == Size(pc)
           data == Taken(Upto)
           full == Buffered(line, data)
<1>9. Len(data) = m - took /\ data[Upto] = LineUnit(k, n, m)
  <2>1. IsStretch(data, k, n, took, m)
    BY <1>5, <1>6, <1>7, <1>8, StretchIs
  <2>2. Len(data) = m - took /\ \A j \in 1 .. m - took : data[j] = LineUnit(k, n, took + j)
    BY <2>1, Zenon DEF IsStretch
  <2>3. Upto \in 1 .. m - took /\ took + Upto = m
    BY <1>5, <1>6, <1>7 DEF Unread
  <2> QED
    BY <2>2, <2>3, Zenon
<1>10. full = Stretch(k, n, 0, Smaller(BufSize, m))
  <2>1. line = Stretch(k, n, 0, Smaller(BufSize, took))
    BY <1>4, Zenon DEF Reading
  <2> QED
    BY <1>5, <1>6, <1>7, <1>8, <2>1, StretchGrows
<1>11. IsEnd(data[Upto]) <=> m = n
  BY <1>5, <1>6, <1>7, <1>8, <1>9, EndOfLine
<1> HIDE DEF full, data
<1>12. /\ ps' = Taking(ps, ps.readlen)
       /\ IF IsEnd(data[Upto])
          THEN /\ lines' = Append(lines, full) /\ line' = <<>> /\ NextOp
          ELSE line' = full /\ UNCHANGED <<lines, pc, waits>>
  BY <1>7, Zenon DEF ReadTo, Taking, Buffered, full, data
<1>13. ps' \in Socks /\ ps'.state = ps.state /\ ps'.readlen = 0
  BY <1>6, <1>12, SockTakes
<1>14. outgoing' = <<>>
  BY <1>1, <1>2 DEF SockBase
<1>15. CASE m = n
  <2>1. /\ lines' = Append(lines, Stretch(Current, Size(pc), 0, Smaller(BufSize, Size(pc))))
        /\ pc' = pc + 1 /\ waits' = FALSE
    BY <1>10, <1>11, <1>12, <1>15 DEF NextOp
  <2>2. SockBase' /\ Current' = Current + 1 /\ AllEarlier'
    BY <1>1, <1>2, <1>5, <1>6, <1>13, <1>14, <2>1, SockReadNext DEF Quiet
  <2>3. ps.state = "READ"
    BY <1>5 DEF Unread
  <2>4. PeerIdle'
    <3>1. n > 0
      BY <1>5, <1>6, <1>7, <1>15
    <3>2. peer = PeerAt(k, n, n)
      BY <1>4, <1>15 DEF Reading
    <3>3. peer = [line |-> k + 1, unit |-> 0]
      BY <3>1, <3>2, Zenon DEF PeerAt
    <3>4. PeerAt(Current', 0, 0) = [line |-> Current', unit |-> 0]
      BY <2>2, CurrentTyped DEF PeerAt
    <3> QED
      BY <1>1, <2>2, <3>3, <3>4, Zenon DEF PeerIdle
  <2>5. News(pc)'
    BY <1>13, <2>3, <2>4, Zenon DEF News
  <2>6. Quiet'
    BY <1>1, <1>5, <2>2 DEF Quiet
  <2>7. Between'
    BY <1>1, <1>13, <2>1, <2>3, <2>5, <2>6 DEF Between
  <2> QED
    BY <2>2, <2>7 DEF SockInv
<1>16. CASE m # n
  <2>1. line' = Stretch(Current, Size(pc), 0, Smaller(BufSize, m)) /\ UNCHANGED <<lines, pc, waits>>
    BY <1>10, <1>11, <1>12, <1>16
  <2>2. SockBase' /\ Current' = Current /\ AllEarlier' = AllEarlier
    BY <1>1, <1>2, <1>13, <1>14, <2>1, SockSame
  <2>3. Size(pc)' = Size(pc) /\ Does(pc)' = Does(pc)
    BY <1>1, <2>1, Zenon DEF Size, Does
  <2>4. AllTaken(m, m)'
    BY <1>1, <1>5, <1>13, <1>16, <2>3 DEF AllTaken, Unread
  <2>5. Quiet'
    BY <1>1, <1>5, <2>2 DEF Quiet
  <2>6. Reading(m, m)'
    BY <1>1, <1>4, <1>5, <1>6, <1>13, <2>1, <2>2, <2>3, <2>4, <2>5 DEF Reading
  <2> QED
    BY <2>2, <2>6 DEF SockInv
<1> QED
  BY <1>15, <1>16

(* A read that waits goes on waiting with what it has, or takes up new data. *)
LEMMA ReadWaits ==
    ASSUME SockBase, NEW took \in Nat, NEW m \in Nat, Reading(took, m), ps' \in Socks, outgoing' = <<>>,
           UNCHANGED <<program, pc, waits, line, lines, transit, arrived, delivered, peer>>,
           ps'.state # "DATA_SENT", "rexmit" \notin flags',
           Unseen(took, m)' \/ Unread(took, m)' \/ AllTaken(took, m)'
    PROVE  SockInv'
<1>1. SockBase' /\ Current' = Current /\ AllEarlier' = AllEarlier
  BY SockSame
<1>2. Size(pc)' = Size(pc) /\ Does(pc)' = Does(pc)
  BY Zenon DEF Size, Does
<1>3. Quiet'
  BY <1>1 DEF Reading, Quiet
<1>4. Reading(took, m)'
  BY <1>1, <1>2, <1>3 DEF Reading
<1> QED
  BY <1>1, <1>4 DEF SockInv

(* psock_newdata decides whether a read goes on.                           *)
LEMMA WaitNewDataKeeps ==
    ASSUME SockInv, WaitNewData
    PROVE  SockInv'
<1>1. /\ flags # {} /\ ~Finished /\ waits # FALSE /\ Does(pc) = "read" /\ ps.readlen = 0
      /\ UNCHANGED <<pc, waits, line, appdata, lines>>
  BY DEF WaitNewData, Now, Does
<1>2. SockBase /\ \E took, m \in Nat : Reading(took, m)
  BY <1>1 DEF SockInv, InTransit, AckedNow, Begun, Between, Ended, Sender
<1>3. PICK took \in Nat : \E m \in Nat : Reading(took, m)
  BY <1>2
<1>4. PICK m \in Nat : Reading(took, m)
  BY <1>3
<1>5. (Unseen(took, m) \/ AllTaken(took, m)) /\ Quiet /\ took <= m /\ m <= Size(pc) /\ ps.state # "DATA_SENT"
  BY <1>1, <1>4 DEF Reading, Unread
<1>6. ps \in Socks /\ outgoing = <<>> /\ program \in Programs /\ pc \in 1 .. Len(program.ops) + 1
  BY <1>2 DEF SockBase
<1>7. pc \in 1 .. Len(program.ops) /\ Size(pc) \in Nat
  BY <1>1, <1>6, OpsTyped DEF Finished
<1>8. Size(pc)' = Size(pc) \/ program' # program
  BY <1>1, Zenon DEF Size
<1>9. CASE Return(outgoing) /\ ps' \in Socks /\ AllTaken(took, m) /\ ps'.readlen = 0
           /\ ps'.state # "READ" /\ ps'.state # "DATA_SENT"
  <2>1. flags' = {} /\ outgoing' = <<>> /\ UNCHANGED <<program, delivered, peer>> /\ UNCHANGED <<transit, arrived>>
    BY <1>6, <1>9 DEF Return
  <2>2. AllTaken(took, m)'
    BY <1>8, <1>9, <2>1 DEF AllTaken
  <2> QED
    BY <1>1, <1>2, <1>4, <1>9, <2>1, <2>2, ReadWaits
<1>10. CASE ps.state = "READ" /\ ps' = [ps EXCEPT !.state = "BLOCKED_NEWDATA"] /\ Return(outgoing)
  <2>1. "BLOCKED_NEWDATA" \in SockStates
    BY DEF SockStates
  <2>2. ps' \in Socks /\ ps'.state = "BLOCKED_NEWDATA" /\ ps'.readlen = 0
    BY <1>1, <1>6, <1>10, <2>1, SockState
  <2>3. AllTaken(took, m)
    BY <1>5, <1>10 DEF Unseen
  <2> QED
    BY <1>9, <1>10, <2>2, <2>3
<1>11. CASE ps.state # "READ" /\ ~NewData /\ Return(outgoing) /\ UNCHANGED ps
  <2>1. AllTaken(took, m)
    BY <1>5, <1>11 DEF Unseen, NewData
  <2> QED
    BY <1>1, <1>5, <1>6, <1>9, <1>11, <2>1
<1>12. CASE /\ NewData /\ Continues
            /\ ps' = [ps EXCEPT !.state = "READ", !.readptr = 0, !.readlen = Len(appdata)]
            /\ UNCHANGED <<flags, outgoing>>
  <2>1. Unseen(took, m)
    BY <1>5, <1>12 DEF AllTaken, NewData
  <2>2. Current \in Nat
    BY <1>2, CurrentTyped
  <2>3. took < m /\ IsStretch(appdata, Current, Size(pc), took, m)
    BY <1>5, <1>7, <2>1, <2>2, StretchIs DEF Unseen
  <2>4. /\ Len(appdata) = m - took /\ Len(appdata) \in Nat /\ Len(appdata) > 0
        /\ \A j \in 1 .. m - took : appdata[j] = LineUnit(Current, Size(pc), took + j)
    BY <2>3 DEF IsStretch
  <2>5. ps' = Starting(ps, Len(appdata))
    BY <1>12, Zenon DEF Starting
  <2>6. ps' \in Socks /\ ps'.state = "READ" /\ ps'.readptr = 0 /\ ps'.readlen = Len(appdata)
    BY <1>6, <2>4, <2>5, SockStarts, ZenonT(40)
  <2>7. UNCHANGED <<program, transit, arrived, delivered, peer>> /\ outgoing' = <<>> /\ flags' = flags
    BY <1>6, <1>12 DEF Continues
  <2>8. Current' = Current /\ Size(pc)' = Size(pc)
    BY <1>1, <1>8, <2>7 DEF Current
  <2>9. \A i \in 1 .. m - took : 0 + i = i
    OBVIOUS
  <2>10. \A i \in 1 .. m - took : appdata'[ps'.readptr + i] = LineUnit(Current', Size(pc)', took + i)
    BY <1>1, <2>4, <2>6, <2>8, <2>9, Zenon
  <2>11. Unread(took, m)'
    BY <1>1, <2>4, <2>6, <2>7, <2>10 DEF Unread
  <2> QED
    BY <1>1, <1>2, <1>4, <1>5, <2>6, <2>7, <2>11, ReadWaits DEF Quiet
<1> QED
  BY <1>10, <1>11, <1>12 DEF WaitNewData

(* The protothread is over.                                                *)
LEMMA EndOfThreadKeeps ==
    ASSUME SockInv, EndOfThread
    PROVE  SockInv'
<1>1. /\ flags # {} /\ Finished /\ Return(outgoing)
      /\ UNCHANGED <<pc, waits, ps, line, appdata, lines>>
  BY DEF EndOfThread
<1>2. SockBase /\ program \in Programs /\ pc \in 1 .. Len(program.ops) + 1 /\ Len(program.ops) \in Nat
  BY OpsTyped DEF SockInv, SockBase
<1>3. Between
  BY <1>1, <1>2 DEF SockInv, InTransit, AckedNow, Begun, Ended, Reading, Sender, Finished
<1>4. flags' = {} /\ outgoing' = <<>> /\ UNCHANGED <<program, delivered, peer, transit, arrived>>
  BY <1>1, <1>2 DEF Return, SockBase
<1>5. SockBase' /\ AllEarlier' = AllEarlier
  BY <1>1, <1>2, <1>4, SockSame DEF SockBase
<1>6. Ended'
  BY <1>1, <1>2, <1>3, <1>4, <1>5 DEF Ended, Between, Quiet, Finished
<1> QED
  BY <1>5, <1>6 DEF SockInv

(* Between the calls a protothread that is not over waits for an           *)
(* acknowledgement or for more of a line.                                  *)
LEMMA OutsideCalls ==
    ASSUME SockInv, flags = {}, ~Finished
    PROVE  /\ SockBase /\ program \in Programs /\ pc \in 1 .. Len(program.ops) /\ pc \in Nat
           /\ Size(pc) \in Nat /\ ps \in Socks /\ Current \in Nat
           /\ InTransit \/ \E m \in Nat : Reading(m, m) /\ AllTaken(m, m)
<1>1. SockBase /\ program \in Programs /\ pc \in 1 .. Len(program.ops) + 1 /\ Len(program.ops) \in Nat /\ ps \in Socks
  BY OpsTyped DEF SockInv, SockBase
<1>2. pc \in 1 .. Len(program.ops) /\ pc \in Nat /\ Size(pc) \in Nat /\ Current \in Nat
  BY <1>1, OpsTyped, CurrentTyped DEF Finished
<1>3. InTransit \/ \E took, m \in Nat : Reading(took, m)
  BY <1>2 DEF SockInv, AckedNow, Begun, Between, Ended
<1>4. ASSUME NEW took \in Nat, NEW m \in Nat, Reading(took, m) PROVE Reading(m, m) /\ AllTaken(m, m)
  <2>1. AllTaken(took, m)
    BY <1>4 DEF Reading, Unseen, Unread
  <2>2. took = m
    BY <2>1 DEF AllTaken
  <2> QED
    BY <1>4, <2>1, <2>2
<1> QED
  BY <1>1, <1>2, <1>3, <1>4

(* Data in transit is of the operation the protothread is in.              *)
LEMMA OnlyInTransit ==
    ASSUME SockInv, transit # <<>>
    PROVE  SockBase /\ InTransit /\ program \in Programs /\ pc \in 1 .. Len(program.ops)
<1>1. SockBase /\ InTransit
  BY DEF SockInv, AckedNow, Begun, Between, Ended, Reading, Quiet
<1> QED
  BY <1>1, OpsTyped DEF SockBase, InTransit, Sender

(* The peer receives.                                                      *)
LEMMA PeerReceivesKeeps ==
    ASSUME SockInv, PeerReceives
    PROVE  SockInv'
<1>1. SockBase /\ InTransit /\ pc \in 1 .. Len(program.ops)
  BY OnlyInTransit DEF PeerReceives
<1>2. /\ arrived # TRUE /\ arrived' = TRUE /\ delivered' = delivered \o Whole(pc)
      /\ UNCHANGED <<program, pc, waits, ps, line, appdata, flags, outgoing, transit, peer, lines>>
  BY <1>1 DEF PeerReceives, InTransit
<1>3. Does(pc) # "read" /\ AllEarlier
  BY <1>1, <1>2 DEF InTransit, Sender
<1>4. SockBase' /\ NoneLater' /\ Received(pc)' /\ Current' = Current
  BY <1>1, <1>2, <1>3, Delivers
<1>5. Size(pc)' = Size(pc) /\ Does(pc)' = Does(pc) /\ Whole(pc)' = Whole(pc)
  BY <1>2, Zenon DEF Size, Does, Whole
<1>6. Sender'
  BY <1>1, <1>2, <1>5 DEF InTransit, Sender
<1>7. PeerIdle'
  BY <1>1, <1>2, <1>4, Zenon DEF InTransit, PeerIdle
<1>8. InTransit'
  BY <1>1, <1>2, <1>4, <1>5, <1>6, <1>7 DEF InTransit
<1> QED
  BY <1>4, <1>8 DEF SockInv

(* A call that brings nothing but an acknowledgement.                      *)
LEMMA PeerAcksKeeps ==
    ASSUME SockInv, PeerAcks
    PROVE  SockInv'
<1>1. /\ arrived # FALSE /\ flags' = {"ack"} /\ transit' = <<>> /\ arrived' = FALSE
      /\ UNCHANGED <<program, pc, waits, ps, line, outgoing, delivered, lines>> /\ UNCHANGED peer
  BY DEF PeerAcks, AppCall
<1>2. SockBase /\ InTransit
  BY OnlyInTransit DEF PeerAcks
<1>3. SockBase' /\ Current' = Current /\ NoneLater' = NoneLater
  BY <1>1, <1>2, SockSame DEF SockBase
<1>4. Size(pc)' = Size(pc) /\ Does(pc)' = Does(pc) /\ Received(pc)' = Received(pc)
  BY <1>1, ZenonT(40) DEF Size, Does, Received, OutputOf
<1>5. Sender'
  BY <1>1, <1>2, <1>4 DEF InTransit, Sender
<1>6. PeerIdle'
  BY <1>1, <1>2, <1>3, Zenon DEF InTransit, PeerIdle
<1>7. News(pc + 1)'
  BY <1>1, <1>6, Zenon DEF News
<1>8. AckedNow'
  BY <1>1, <1>2, <1>3, <1>4, <1>5, <1>7 DEF InTransit, AckedNow
<1> QED
  BY <1>3, <1>8 DEF SockInv

(* A call that asks for the data once more.                                *)
LEMMA RexmitKeeps ==
    ASSUME SockInv, Rexmit
    PROVE  SockInv'
<1>1. /\ program.loss /\ flags' = {"rexmit"} /\ transit' = transit /\ arrived' = arrived
      /\ UNCHANGED <<program, pc, waits, ps, line, outgoing, delivered, lines>> /\ UNCHANGED peer
  BY DEF Rexmit, AppCall
<1>2. SockBase /\ InTransit
  BY OnlyInTransit DEF Rexmit
<1>3. SockBase' /\ Current' = Current /\ NoneLater' = NoneLater /\ AllEarlier' = AllEarlier
  BY <1>1, <1>2, SockSame DEF SockBase
<1>4. /\ Size(pc)' = Size(pc) /\ Does(pc)' = Does(pc) /\ Whole(pc)' = Whole(pc)
      /\ Received(pc)' = Received(pc)
  <2>1. Size(pc)' = Size(pc) /\ Does(pc)' = Does(pc) /\ Whole(pc)' = Whole(pc)
    BY <1>1, Zenon DEF Size, Does, Whole
  <2>2. Received(pc)' = Received(pc)
    BY <1>1, SameReceived
  <2> QED
    BY <2>1, <2>2
<1>5. Sender'
  BY <1>1, <1>2, <1>4 DEF InTransit, Sender
<1>6. PeerIdle'
  BY <1>1, <1>2, <1>3, Zenon DEF InTransit, PeerIdle
<1>7. InTransit'
  BY <1>1, <1>2, <1>3, <1>4, <1>5, <1>6 DEF InTransit
<1> QED
  BY <1>3, <1>7 DEF SockInv

(* A call that brings nothing.                                             *)
LEMMA PollKeeps ==
    ASSUME SockInv, Poll
    PROVE  SockInv'
<1>1. /\ transit = <<>> /\ flags = {} /\ ~Finished /\ flags' = {"poll"} /\ transit' = transit /\ arrived' = arrived
      /\ UNCHANGED <<program, pc, waits, ps, line, outgoing, delivered, lines>> /\ UNCHANGED peer
  BY DEF Poll, AppCall
<1>2. SockBase /\ pc \in 1 .. Len(program.ops) /\ (InTransit \/ \E m \in Nat : Reading(m, m) /\ AllTaken(m, m))
  BY <1>1, OutsideCalls
<1>3. ~InTransit
  <2>1. program \in Programs
    BY <1>2 DEF SockBase
  <2> QED
    BY <1>1, <1>2, <2>1, WholeIs DEF InTransit, Sender
<1>4. PICK m \in Nat : Reading(m, m) /\ AllTaken(m, m)
  BY <1>2, <1>3
<1>5. Size(pc)' = Size(pc)
  BY <1>1, Zenon DEF Size
<1>6. AllTaken(m, m)'
  BY <1>1, <1>4, <1>5 DEF AllTaken
<1> QED
  BY <1>1, <1>2, <1>4, <1>6, ReadWaits DEF SockBase, Reading

(* An operation none of whose units has been received is not received,     *)
(* unless it sends nothing.                                                *)
LEMMA ReceivedHas ==
    ASSUME SockBase, NEW i \in 1 .. Len(program.ops), Received(i), Does(i) # "read", Size(i) > 0
    PROVE  \E j \in 1 .. Len(delivered) : delivered[j].op = i
<1>1. program \in Programs
  BY DEF SockBase
<1>2. Size(i) \in Nat /\ OutputOf(i) = {Byte(i, j) : j \in 1 .. Size(i)}
  BY <1>1, OpsTyped, WholeIs
<1>3. 1 \in 1 .. Size(i)
  BY <1>2
<1>4. Byte(i, 1) \in {delivered[j] : j \in 1 .. Len(delivered)}
  BY <1>2, <1>3, Zenon DEF Received
<1>5. PICK j \in 1 .. Len(delivered) : delivered[j] = Byte(i, 1)
  BY <1>4
<1>6. delivered[j].op = i
  BY <1>5 DEF Byte
<1> QED
  BY <1>6

(* The peer sends a part of its line: to a protothread that reads it, or   *)
(* to one that comes to it in this call.                                   *)
LEMMA PeerSendsKeeps ==
    ASSUME SendsFit, SockInv, PeerSends
    PROVE  SockInv'
<1>1. PICK t : t = Turn(peer.line)
  OBVIOUS
<1>2. PICK n : n = program.ops[t].len
  OBVIOUS
<1> DEFINE all == [j \in 1 .. n |-> Byte(-peer.line, IF j = n THEN 0 ELSE j)]
<1>3. /\ ~Finished /\ flags = {} /\ peer.line <= Cardinality(Reads)
      /\ \A j \in 1 .. t - 1 : Received(j) /\ (program.ops[j].op = "read" => pc > j)
      /\ \E to \in peer.unit + 1 .. n :
             /\ AppCall({"new"} \cup AckIfAny, SubSeq(all, peer.unit + 1, to))
             /\ peer' = IF to = n THEN [line |-> peer.line + 1, unit |-> 0] ELSE [peer EXCEPT !.unit = to]
  BY <1>1, <1>2, Zenon DEF PeerSends, AppCall
<1>4. PICK to \in peer.unit + 1 .. n :
             /\ AppCall({"new"} \cup AckIfAny, SubSeq(all, peer.unit + 1, to))
             /\ peer' = IF to = n THEN [line |-> peer.line + 1, unit |-> 0] ELSE [peer EXCEPT !.unit = to]
  BY <1>3
<1>5. /\ SockBase /\ program \in Programs /\ pc \in 1 .. Len(program.ops) /\ pc \in Nat
      /\ Size(pc) \in Nat /\ ps \in Socks /\ Current \in Nat
      /\ InTransit \/ \E m \in Nat : Reading(m, m) /\ AllTaken(m, m)
  BY <1>3, OutsideCalls
<1> DEFINE k == Current
<1>6. PICK m \in Nat : /\ peer = [line |-> k, unit |-> m] /\ (m > 0 => ~InTransit)
                       /\ (InTransit \/ (Reading(m, m) /\ AllTaken(m, m)))
  <2>1. CASE InTransit
    <3>1. peer = [line |-> k, unit |-> 0]
      BY <1>5, <2>1, CurrentTyped DEF InTransit
    <3> QED
      BY <2>1, <3>1
  <2>2. ASSUME ~InTransit, NEW m \in Nat, Reading(m, m), AllTaken(m, m)
        PROVE  peer = [line |-> k, unit |-> m]
    <3>1. peer = PeerAt(k, Size(pc), m) /\ ~(m = Size(pc) /\ Size(pc) > 0)
      BY <1>5, <2>2 DEF Reading, AllTaken
    <3> QED
      BY <3>1, Zenon DEF PeerAt
  <2> QED
    BY <1>5, <2>1, <2>2, Zenon
<1>7. /\ t \in Reads /\ t \in 1 .. Len(program.ops) /\ t \in Nat /\ pc <= t /\ n = Size(t) /\ n \in Nat
      /\ Does(t) = "read" /\ \A j \in Reads : ~(pc <= j /\ j < t)
  <2>1. peer.line = k /\ k = Cardinality(ReadsBefore(pc)) + 1
    BY <1>5, <1>6, CurrentTyped
  <2>2. PICK u \in Reads : pc <= u /\ Turn(k) = u /\ \A j \in Reads : ~(pc <= j /\ j < u)
    BY <1>3, <1>5, <2>1, NextRead
  <2>3. t = u
    BY <1>1, <2>1, <2>2
  <2>4. t \in 1 .. Len(program.ops) /\ Does(t) = "read"
    BY <2>2, <2>3 DEF Reads, Does
  <2> QED
    BY <1>5, <1>2, <2>2, <2>3, <2>4, OpsTyped DEF Size
<1>8. to \in Nat /\ m < to /\ m <= to /\ to <= n /\ to > 0 /\ n > 0
  BY <1>4, <1>6, <1>7
<1>9. peer' = PeerAt(k, n, to)
  <2>1. to = n => peer' = [line |-> k + 1, unit |-> 0]
    BY <1>4, <1>6
  <2>2. to # n => peer' = [line |-> k, unit |-> to]
    BY <1>4, <1>6
  <2> QED
    BY <1>8, <2>1, <2>2, Zenon DEF PeerAt
<1>10. appdata' = Stretch(k, n, m, to)
  <2>1. all = Stretch(k, n, 0, n)
    <3>1. n - 0 = n /\ \A j \in 1 .. n : 0 + j = j
      BY <1>7
    <3>2. all = [j \in 1 .. n |-> LineUnit(k, n, j)]
      BY <1>6, Zenon DEF LineUnit
    <3>3. all = [j \in 1 .. n - 0 |-> LineUnit(k, n, 0 + j)]
      BY <3>1, <3>2
    <3> QED
      BY <3>3, Zenon DEF Stretch
  <2>2. appdata' = After(all, m, to)
    BY <1>4, <1>6 DEF AppCall, After
  <2> HIDE DEF all
  <2> QED
    BY <1>5, <1>7, <1>8, <2>1, <2>2, PartOfStretch
<1> HIDE DEF all
<1>11. /\ flags' = {"new"} \cup AckIfAny
       /\ transit' = IF "ack" \in flags' THEN <<>> ELSE transit
       /\ arrived' = IF "ack" \in flags' THEN FALSE ELSE arrived
       /\ UNCHANGED <<program, pc, waits, ps, line, outgoing, delivered, lines>>
  BY <1>4 DEF AppCall
<1>12. "rexmit" \notin flags' /\ "new" \in flags' /\ flags' # {}
  BY <1>11 DEF AckIfAny
<1>13. outgoing' = <<>>
  BY <1>5, <1>11 DEF SockBase
<1>14. CASE InTransit
  <2>1. Sender /\ ps.state = "DATA_SENT" /\ transit # <<>> /\ Does(pc) # "read" /\ Size(pc) > 0
    BY <1>5, <1>14, WholeIs DEF InTransit, Sender
  <2>2. pc < t
    <3>1. pc # t
      BY <1>7, <2>1
    <3> QED
      BY <1>5, <1>7, <3>1
  <2>3. Received(pc) /\ NoneLater
    <3>1. pc \in 1 .. t - 1
      BY <1>5, <1>7, <2>2
    <3>2. Received(pc)
      BY <1>3, <3>1
    <3>3. PICK j \in 1 .. Len(delivered) : delivered[j].op = pc
      BY <1>5, <2>1, <3>2, ReceivedHas
    <3>4. ~AllEarlier
      BY <1>5, <3>3 DEF AllEarlier
    <3> QED
      BY <1>14, <3>2, <3>4 DEF InTransit
  <2>4. "ack" \in flags' /\ transit' = <<>> /\ arrived' = FALSE
    BY <1>11, <2>1 DEF AckIfAny
  <2>5. \A j \in pc + 1 .. t - 1 : EmptySend(j)
    <3> SUFFICES ASSUME NEW j \in pc + 1 .. t - 1 PROVE EmptySend(j)
      OBVIOUS
    <3>1. j \in 1 .. Len(program.ops) /\ j \in 1 .. t - 1 /\ pc < j /\ pc <= j /\ j < t /\ j \in Nat
      BY <1>5, <1>7
    <3>2. Does(j) # "read"
      BY <1>7, <3>1 DEF Reads, Does
    <3>3. Received(j)
      BY <1>3, <3>1
    <3>4. ~(Size(j) > 0)
      <4> SUFFICES ASSUME Size(j) > 0 PROVE FALSE
        OBVIOUS
      <4>1. PICK i \in 1 .. Len(delivered) : delivered[i].op = j
        BY <1>5, <3>1, <3>2, <3>3, ReceivedHas
      <4> QED
        BY <1>5, <2>3, <3>1, <4>1 DEF NoneLater
    <3> QED
      BY <1>5, <3>1, <3>2, <3>4, OpsTyped, OpFits DEF EmptySend
  <2>6. SockBase' /\ Current' = Current /\ NoneLater' = NoneLater
    BY <1>5, <1>11, <1>13, SockSame
  <2>7. Size(pc)' = Size(pc) /\ Does(pc)' = Does(pc) /\ Received(pc)' = Received(pc)
    BY <1>11, ZenonT(40) DEF Size, Does, Received, OutputOf
  <2>8. /\ \A i : Size(i)' = Size(i) /\ EmptySend(i)' = EmptySend(i)
        /\ Reads' = Reads
    BY <1>11, SameOps, Zenon
  <2>9. m = 0
    BY <1>6, <1>14
  <2>10. LineAhead(pc + 1, t, to)'
    <3>1. pc' + 1 <= t
      BY <1>5, <1>7, <1>11, <2>2
    <3>2. peer' = PeerAt(Current', Size(t)', to) /\ appdata' = Stretch(Current', Size(t)', 0, to)
      BY <1>7, <1>9, <1>10, <2>6, <2>8, <2>9, Zenon
    <3>3. \A j \in pc' + 1 .. t - 1 : EmptySend(j)'
      BY <1>11, <2>5, <2>8
    <3> QED
      BY <3>1, <3>2, <3>3, Zenon DEF LineAhead
  <2>11. News(pc + 1)'
    <3>1. t \in Reads' /\ to \in 1 .. Size(t)'
      BY <1>7, <1>8, <2>8
    <3>2. ps'.state # "READ"
      BY <1>11, <2>1
    <3> QED
      BY <1>12, <2>10, <3>1, <3>2, Zenon DEF News
  <2>12. Sender'
    BY <1>11, <2>1, <2>7 DEF Sender
  <2>13. AckedNow'
    BY <1>11, <1>12, <2>1, <2>3, <2>4, <2>6, <2>7, <2>11, <2>12 DEF AckedNow
  <2> QED
    BY <2>6, <2>13 DEF SockInv
<1>15. CASE Reading(m, m) /\ AllTaken(m, m)
  <2>1. t = pc
    <3>1. pc \in Reads
      BY <1>5, <1>15 DEF Reading, Reads, Does
    <3> QED
      BY <1>5, <1>7, <3>1
  <2>2. transit = <<>> /\ arrived = FALSE /\ AllEarlier
    BY <1>15 DEF Reading, Quiet
  <2>3. "ack" \notin flags' /\ transit' = <<>> /\ arrived' = FALSE
    BY <1>11, <2>2 DEF AckIfAny
  <2>4. SockBase' /\ Current' = Current /\ AllEarlier' = AllEarlier
    BY <1>5, <1>11, <1>13, SockSame
  <2>5. Size(pc)' = Size(pc) /\ Does(pc)' = Does(pc) /\ n = Size(pc)
    BY <1>7, <1>11, <2>1, Zenon DEF Size, Does
  <2>6. ps.state # "READ" /\ ps.readlen = 0
    BY <1>3, <1>15 DEF AllTaken
  <2>7. Unseen(m, to)'
    BY <1>8, <1>10, <1>11, <1>12, <2>4, <2>5, <2>6 DEF Unseen
  <2>8. Quiet'
    BY <1>12, <2>2, <2>3, <2>4 DEF Quiet
  <2>9. peer' = PeerAt(Current', Size(pc)', to)
    BY <1>9, <2>4, <2>5, Zenon
  <2>10. line' = Stretch(Current', Size(pc)', 0, Smaller(BufSize, m))
    BY <1>11, <1>15, <2>4, <2>5, Zenon DEF Reading
  <2>11. Reading(m, to)'
    BY <1>8, <1>11, <1>15, <2>5, <2>7, <2>8, <2>9, <2>10 DEF Reading
  <2> QED
    BY <1>8, <2>4, <2>11 DEF SockInv
<1> QED
  BY <1>6, <1>14, <1>15

(* A protothread that has not yet run.                                     *)
LEMMA SockInitially ==
    ASSUME PsockInit
    PROVE  SockInv
<1>1. /\ program \in Programs /\ pc = 1 /\ waits = FALSE /\ flags # {} /\ "rexmit" \notin flags /\ "new" \notin flags
      /\ ps = [state |-> "NONE", sendptr |-> 0, sendlen |-> 0, readptr |-> 0, readlen |-> 0]
      /\ outgoing = <<>> /\ transit = <<>> /\ arrived = FALSE /\ delivered = <<>>
      /\ peer = [line |-> 1, unit |-> 0] /\ lines = <<>>
  BY DEF PsockInit
<1>2. Len(program.ops) \in Nat /\ Reads \subseteq 1 .. Len(program.ops)
  BY <1>1, OpsTyped, ReadsFinite
<1>3. ps \in Socks
  BY <1>1 DEF Socks, SockStates
<1>4. delivered \in Seq(Bytes) /\ Len(delivered) = 0 /\ lines \in Seq(Seq(Bytes)) /\ Len(lines) = 0
  BY <1>1, EmptySeq
<1>5. Cardinality(ReadsBefore(pc)) = 0
  <2>1. \A j \in Reads : ~(j < 1)
    BY <1>2
  <2>2. ReadsBefore(pc) = {}
    BY <1>1, <2>1 DEF ReadsBefore
  <2> QED
    BY <2>2, FS_EmptySet
<1>6. Ordered(delivered) /\ AllEarlier
  BY <1>4 DEF Ordered, AllEarlier
<1>7. ReadsNextLine
  BY <1>4 DEF ReadsNextLine
<1>8. SockBase
  BY <1>1, <1>2, <1>3, <1>4, <1>5, <1>6, <1>7 DEF SockBase
<1>9. PeerIdle
  <2>1. Current = 1
    BY <1>4 DEF Current
  <2> QED
    BY <1>1, <1>8, <2>1, CurrentTyped
<1>10. Between
  BY <1>1, <1>6, <1>9 DEF Between, Quiet, News
<1> QED
  BY <1>8, <1>10 DEF SockInv

(* Every step of the protothread and its peer keeps the invariant.         *)
LEMMA SockStep ==
    ASSUME SendsFit, SockInv, PsockNext
    PROVE  SockInv'
BY BeginSendKeeps, WaitSendKeeps, BeginReadKeeps, ReadToKeeps, WaitNewDataKeeps, EndOfThreadKeeps,
   PeerSendsKeeps, PeerReceivesKeeps, PeerAcksKeeps, RexmitKeeps, PollKeeps DEF PsockNext

(* When a protosocket is left alone nothing of this changes.               *)
LEMMA SockAlone ==
    ASSUME SockInv, UNCHANGED psVars
    PROVE  SockInv'
<1>1. /\ UNCHANGED <<program, pc, waits, ps, line, appdata, flags, outgoing, transit, arrived, delivered>>
      /\ UNCHANGED <<peer, lines>>
  BY DEF psVars
<1>2. SockBase' /\ Current' = Current /\ NoneLater' = NoneLater /\ AllEarlier' = AllEarlier
  BY <1>1, SockSame DEF SockInv, SockBase
<1>3. /\ \A i : Size(i)' = Size(i) /\ Does(i)' = Does(i) /\ Whole(i)' = Whole(i) /\ EmptySend(i)' = EmptySend(i)
      /\ Reads' = Reads
  BY <1>1, SameOps, Zenon
<1>4. \A i : Received(i)' = Received(i)
  BY <1>1, SameReceived, Zenon
<1>5. Quiet' = Quiet /\ PeerIdle' = PeerIdle /\ Sender' = Sender
  BY <1>1, <1>2, <1>3, Zenon DEF Quiet, PeerIdle, Sender
<1>6. \A i, t, m : LineAhead(i, t, m)' = LineAhead(i, t, m)
  BY <1>1, <1>2, <1>3, Zenon DEF LineAhead
<1>7. News(pc)' = News(pc) /\ News(pc + 1)' = News(pc + 1)
  BY <1>1, <1>3, <1>5, <1>6, Zenon DEF News
<1>8. (InTransit => InTransit') /\ (AckedNow => AckedNow')
  BY <1>1, <1>2, <1>3, <1>4, <1>5, <1>7 DEF InTransit, AckedNow
<1>9. (Begun => Begun') /\ (Between => Between') /\ (Ended => Ended')
  BY <1>1, <1>2, <1>3, <1>5, <1>7 DEF Begun, Between, Ended
<1>10. ASSUME NEW took \in Nat, NEW m \in Nat, Reading(took, m) PROVE Reading(took, m)'
  BY <1>1, <1>2, <1>3, <1>5, <1>10 DEF Reading, Unseen, Unread, AllTaken
<1> QED
  BY <1>2, <1>8, <1>9, <1>10 DEF SockInv

(* PsockSafe for every protothread whose sends fit into a segment: all that *)
(* PSOCK_SEND was given has been received, in order and once, when it goes *)
(* on, and every PSOCK_READTO returns the peer's next line, however the    *)
(* line is cut into segments and whatever is lost and sent again.          *)
THEOREM SendsAndReads ==
    ASSUME SendsFit
    PROVE  PsockSpec => []PsockSafe
<1>1. PsockInit => SockInv
  BY SockInitially
<1>2. SockInv /\ [PsockNext]_psVars => SockInv'
  BY SockStep, SockAlone
<1>3. SockInv => PsockSafe
  BY DEF SockInv, SockBase, PsockSafe, SendBlocksUntilReceived, Ordered
<1> QED
  BY <1>1, <1>2, <1>3, PTL DEF PsockSpec

(* The protothreads of the run are such protothreads.                      *)
LEMMA RunFits ==
    ASSUME Mss = 2, Programs = MCPrograms
    PROVE  SendsFit
<1>1. \A name, n : Op(name, n).op = name /\ Op(name, n).len = n
  BY DEF Op
<1>2. OpsFit(<<Op("read", 3), Op("send", 2), Op("send", 0), Op("send", 1), Op("read", 2), Op("send", 1)>>, TRUE)
  <2> DEFINE o == <<Op("read", 3), Op("send", 2), Op("send", 0), Op("send", 1), Op("read", 2), Op("send", 1)>>
  <2>1. Len(o) = 6
    OBVIOUS
  <2>2. /\ o[1].op = "read" /\ o[1].len = 3 /\ o[2].op = "send" /\ o[2].len = 2
        /\ o[3].op = "send" /\ o[3].len = 0 /\ o[4].op = "send" /\ o[4].len = 1
        /\ o[5].op = "read" /\ o[5].len = 2 /\ o[6].op = "send" /\ o[6].len = 1
    BY <1>1
  <2> HIDE DEF o
  <2>3. \A i \in 1 .. Len(o) : i = 1 \/ i = 2 \/ i = 3 \/ i = 4 \/ i = 5 \/ i = 6
    BY <2>1
  <2> QED
    BY <2>2, <2>3 DEF o, OpsFit
<1>3. OpsFit(<<Op("read", 1), Op("generate", 2), Op("read", 2), Op("send", 1), Op("generate", 1)>>, FALSE)
  <2> DEFINE o == <<Op("read", 1), Op("generate", 2), Op("read", 2), Op("send", 1), Op("generate", 1)>>
  <2>1. Len(o) = 5
    OBVIOUS
  <2>2. /\ o[1].op = "read" /\ o[1].len = 1 /\ o[2].op = "generate" /\ o[2].len = 2
        /\ o[3].op = "read" /\ o[3].len = 2 /\ o[4].op = "send" /\ o[4].len = 1
        /\ o[5].op = "generate" /\ o[5].len = 1
    BY <1>1
  <2> HIDE DEF o
  <2>3. \A i \in 1 .. Len(o) : i = 1 \/ i = 2 \/ i = 3 \/ i = 4 \/ i = 5
    BY <2>1
  <2> QED
    BY <2>2, <2>3 DEF o, OpsFit
<1>4. OpsFit(<<Op("send", 1), Op("read", 3), Op("send", 2), Op("send", 2)>>, TRUE)
  <2> DEFINE o == <<Op("send", 1), Op("read", 3), Op("send", 2), Op("send", 2)>>
  <2>1. Len(o) = 4
    OBVIOUS
  <2>2. /\ o[1].op = "send" /\ o[1].len = 1 /\ o[2].op = "read" /\ o[2].len = 3
        /\ o[3].op = "send" /\ o[3].len = 2 /\ o[4].op = "send" /\ o[4].len = 2
    BY <1>1
  <2> HIDE DEF o
  <2>3. \A i \in 1 .. Len(o) : i = 1 \/ i = 2 \/ i = 3 \/ i = 4
    BY <2>1
  <2> QED
    BY <2>2, <2>3 DEF o, OpsFit
<1>5. OpsFit(<<Op("read", 2), Op("read", 3), Op("send", 1)>>, TRUE)
  <2> DEFINE o == <<Op("read", 2), Op("read", 3), Op("send", 1)>>
  <2>1. Len(o) = 3
    OBVIOUS
  <2>2. o[1].op = "read" /\ o[1].len = 2 /\ o[2].op = "read" /\ o[2].len = 3 /\ o[3].op = "send" /\ o[3].len = 1
    BY <1>1
  <2> HIDE DEF o
  <2>3. \A i \in 1 .. Len(o) : i = 1 \/ i = 2 \/ i = 3
    BY <2>1
  <2> QED
    BY <2>2, <2>3 DEF o, OpsFit
<1>6. \A o, loss : [ops |-> o, loss |-> loss].ops = o /\ [ops |-> o, loss |-> loss].loss = loss
  BY Zenon
<1>7. ASSUME NEW p \in MCPrograms PROVE OpsFit(p.ops, p.loss)
  <2>1. CASE p = [ops |-> <<Op("read", 3), Op("send", 2), Op("send", 0), Op("send", 1), Op("read", 2), Op("send", 1)>>,
                loss |-> TRUE]
    BY <1>2, <1>6, <2>1, Zenon
  <2>2. CASE p = [ops |-> <<Op("read", 1), Op("generate", 2), Op("read", 2), Op("send", 1), Op("generate", 1)>>,
                loss |-> FALSE]
    BY <1>3, <1>6, <2>2, Zenon
  <2>3. CASE p = [ops |-> <<Op("send", 1), Op("read", 3), Op("send", 2), Op("send", 2)>>,
                loss |-> TRUE]
    BY <1>4, <1>6, <2>3, Zenon
  <2>4. CASE p = [ops |-> <<Op("read", 2), Op("read", 3), Op("send", 1)>>,
                loss |-> TRUE]
    BY <1>5, <1>6, <2>4, Zenon
  <2> QED
    BY <2>1, <2>2, <2>3, <2>4, Zenon DEF MCPrograms
<1> QED
  BY <1>7, Zenon DEF SendsFit

(* ThreadsSafe, where each service is one of those that run: what pt.h     *)
(* promises of statements and children and psock.c of sends and reads.     *)
THEOREM ThreadsKeepTheirWord ==
    ASSUME SendsFit
    PROVE  FairApps => []ThreadsSafe
<1>1. AppsInit => PsockInit /\ PtInit
  BY DEF AppsInit
<1>2. [AppsNext]_appsVars => [PsockNext]_psVars
  BY DEF AppsNext, appsVars
<1>3. [AppsNext]_appsVars => [PtNext]_ptVars
  BY DEF AppsNext, appsVars
<1>4. PsockSpec => []PsockSafe
  BY SendsAndReads
<1>5. PtSpec => []ProtothreadSafe
  BY ThreadsInOrder
<1>6. PsockSafe /\ ProtothreadSafe => ThreadsSafe
  BY DEF ThreadsSafe
<1> QED
  BY <1>1, <1>2, <1>3, <1>4, <1>5, <1>6, PTL DEF FairApps, PsockSpec, PtSpec

(***************************************************************************)
(* The web server                                                          *)
(***************************************************************************)
PageUnits == {"200", "404", "type", "row", "n"}
             \cup UNION {{Files[f][i] : i \in 1 .. Len(Files[f])} : f \in DOMAIN Files}
Texts == Seq(PageUnits)
NoRow(s) == \A i \in 1 .. Len(s) : s[i] # "row"

\* All that was handed to uIP for this client, with and without the rows of tcp_stats; the
\* file that is served, and what goes before its page.
AllSent == got \o seg
SentText == WithoutRows(AllSent)
Asked == Files[filename]
Opening == <<AllSent[1], "type">>

\* No script is on the line that the p-th unit of a script file ends or is on.
Fresh(text, p) == \A j \in 1 .. p : IsCall(text[j]) => \E k \in j .. p : text[k] = "nl"

\* What was sent and what is still to do make up the page as far as unit n.
UpTo(todo, n) == todo \in Texts /\ SentText \o todo = Opening \o Written(Asked)[n]
Answering == AllSent # <<>> /\ AllSent[1] \in {"200", "404"} /\ filename \in DOMAIN Files
Answered == Answering /\ SentText = Opening \o Page(filename)

\* The phases of the output thread.
NotBegun == outpt = "start" /\ (AllSent = <<>> \/ Answered)
AtHeaders == outpt = "headers" /\ Answering /\ file = Asked /\ SentText = <<AllSent[1]>>
InFile ==
    /\ outpt = "file" /\ Answering /\ filename \notin Scripts
    /\ file \in Texts /\ NoRow(file) /\ SentText \o file = Opening \o Asked
InScript(p) ==
    /\ outpt = "script" /\ Answering /\ filename \in Scripts /\ file = From(Asked, p)
    /\ p = Len(Asked) \/ Fresh(Asked, p)
    /\ UpTo(<<>>, p)
InCall(c) ==
    /\ Answering /\ filename \in Scripts /\ IsCall(Asked[c]) /\ scriptptr = From(Asked, c)
    /\ \/ outpt = "include" /\ NoRow(file) /\ UpTo(file, c)
       \/ outpt \in {"tcp", "null", "next"} /\ UpTo(<<>>, c)
       \/ outpt = "net" /\ count \in 0 .. NumStats /\ UpTo(Numbers(NumStats - count), c)
AtEnd == outpt = "end" /\ Answered
Phase ==
    \/ NotBegun \/ AtHeaders \/ InFile \/ AtEnd
    \/ \E p \in 0 .. Len(Asked) : InScript(p)
    \/ \E c \in 1 .. Len(Asked) : InCall(c)

HttpBase ==
    /\ got \in Texts /\ seg \in Texts
    /\ inpt \in {"method", "path", "lines"} /\ output = (inpt = "lines")
    /\ ~output => AllSent = <<>> /\ outpt = "start"
    /\ http = "up" /\ outpt = "start" => AllSent = <<>>
    /\ hcall = "out" => seg = <<>> /\ http = "up" /\ output /\ input = <<>>
    /\ http = "closing" =>
        input = <<>> /\ (inpt = "lines" => seg = <<>> /\ outpt = "start" /\ AllSent # <<>>)
HttpInv == HttpBase /\ Phase

(* A sequence cut in two, and what is left of it.                          *)
LEMMA CutIn ==
    ASSUME NEW S, NEW s \in Seq(S), NEW n \in 0 .. Len(s)
    PROVE  /\ SubSeq(s, 1, n) \in Seq(S) /\ From(s, n) \in Seq(S)
           /\ s = SubSeq(s, 1, n) \o From(s, n)
           /\ Len(SubSeq(s, 1, n)) = n
           /\ \A i \in 1 .. n : SubSeq(s, 1, n)[i] = s[i]
<1>1. /\ 1 \in 1 .. Len(s) + 1 /\ n \in 1 - 1 .. Len(s) /\ Len(s) \in n .. Len(s)
      /\ n + 1 \in Int /\ Len(s) \in Int /\ 1 \in Int /\ n \in Int
  OBVIOUS
<1>2. SubSeq(s, 1, n) \o SubSeq(s, n + 1, Len(s)) = SubSeq(s, 1, Len(s))
  BY <1>1, ConcatAdjacentSubSeq
<1>3. SubSeq(s, 1, Len(s)) = s
  BY SubSeqFull
<1>4. (\A i \in 1 .. n : s[i] \in S) /\ (\A i \in n + 1 .. Len(s) : s[i] \in S)
  BY ElementIn
<1>5. SubSeq(s, 1, n) \in Seq(S) /\ Len(SubSeq(s, 1, n)) = n /\ \A i \in 1 .. n : SubSeq(s, 1, n)[i] = s[i]
  BY <1>1, <1>4, SubSeqProperties
<1>6. From(s, n) \in Seq(S)
  BY <1>1, <1>4, SubSeqProperties DEF From
<1> QED
  BY <1>2, <1>3, <1>5, <1>6 DEF From

(* The rest of a sequence behind unit n, unit by unit                      *)
RestIs(r, s, n) == Len(r) = Len(s) - n /\ \A i \in 1 .. Len(s) - n : r[i] = s[n + i]
LEMMA RestBehind ==
    ASSUME NEW S, NEW s \in Seq(S), NEW n \in 0 .. Len(s)
    PROVE  From(s, n) \in Seq(S) /\ RestIs(From(s, n), s, n)
<1>1. n + 1 \in Int /\ Len(s) \in Int
  OBVIOUS
<1>2. \A i \in n + 1 .. Len(s) : s[i] \in S
  BY ElementIn
<1>3. /\ From(s, n) \in Seq(S)
      /\ Len(From(s, n)) = IF n + 1 <= Len(s) THEN Len(s) - (n + 1) + 1 ELSE 0
      /\ \A i \in 1 .. Len(s) - (n + 1) + 1 : From(s, n)[i] = s[(n + 1) + i - 1]
  BY <1>1, <1>2, SubSeqProperties DEF From
<1>4. Len(From(s, n)) = Len(s) - n
  BY <1>3
<1>5. \A i \in 1 .. Len(s) - n : i \in 1 .. Len(s) - (n + 1) + 1 /\ (n + 1) + i - 1 = n + i
  OBVIOUS
<1> QED
  BY <1>3, <1>4, <1>5 DEF RestIs

(* Equal unit by unit is equal.                                            *)
LEMMA SameUnits ==
    ASSUME NEW S, NEW s \in Seq(S), NEW t \in Seq(S), Len(s) = Len(t), \A i \in 1 .. Len(s) : s[i] = t[i]
    PROVE  s = t
BY SeqEqual

(* What is left of what is left, and its first unit                        *)
LEMMA RestOfRest ==
    ASSUME NEW S, NEW s \in Seq(S), NEW p \in 0 .. Len(s), NEW n \in 0 .. Len(s) - p, NEW q, q = p + n
    PROVE  From(From(s, p), n) = From(s, q)
<1>0. q \in 0 .. Len(s) /\ n \in Nat /\ p \in Nat
  OBVIOUS
<1>1. From(s, p) \in Seq(S) /\ RestIs(From(s, p), s, p) /\ From(s, q) \in Seq(S) /\ RestIs(From(s, q), s, q)
  BY <1>0, RestBehind
<1>2. n \in 0 .. Len(From(s, p))
  BY <1>1 DEF RestIs
<1>3. From(From(s, p), n) \in Seq(S) /\ RestIs(From(From(s, p), n), From(s, p), n)
  BY <1>1, <1>2, RestBehind
<1> DEFINE a == From(s, p)  b == From(From(s, p), n)  c == From(s, q)
<1> HIDE DEF a, b, c
<1>4. /\ RestIs(a, s, p) /\ RestIs(c, s, q) /\ RestIs(b, a, n) /\ b \in Seq(S) /\ c \in Seq(S)
  BY <1>1, <1>3 DEF a, b, c
<1>5. Len(b) = Len(c)
  BY <1>0, <1>4 DEF RestIs
<1>6. ASSUME NEW i \in 1 .. Len(b) PROVE b[i] = c[i]
  <2>1. i \in 1 .. Len(a) - n /\ n + i \in 1 .. Len(s) - p /\ i \in 1 .. Len(s) - q /\ p + (n + i) = q + i
    BY <1>0, <1>4, <1>5, <1>6 DEF RestIs
  <2>2. b[i] = a[n + i] /\ a[n + i] = s[p + (n + i)] /\ c[i] = s[q + i]
    BY <1>4, <2>1 DEF RestIs
  <2> QED
    BY <2>1, <2>2
<1> QED
  BY <1>4, <1>5, <1>6, SameUnits DEF b, c

(* Nothing is left behind the last unit; before that the next one is first. *)
LEMMA NextUnit ==
    ASSUME NEW S, NEW s \in Seq(S), NEW p \in 0 .. Len(s)
    PROVE  /\ From(s, p) = <<>> <=> p = Len(s)
           /\ p # Len(s) => Head(From(s, p)) = s[p + 1] /\ Tail(From(s, p)) = From(s, p + 1)
<1>1. From(s, p) \in Seq(S) /\ RestIs(From(s, p), s, p)
  BY RestBehind
<1>2. From(s, p) = <<>> <=> Len(From(s, p)) = 0
  BY <1>1
<1>3. From(s, p) = <<>> <=> p = Len(s)
  BY <1>1, <1>2 DEF RestIs
<1>4. ASSUME p # Len(s) PROVE Head(From(s, p)) = s[p + 1] /\ Tail(From(s, p)) = From(s, p + 1)
  <2>1. p + 1 \in 1 .. Len(s) /\ Len(s) \in p + 1 .. Len(s)
    BY <1>4
  <2>2. /\ Head(SubSeq(s, p + 1, Len(s))) = s[p + 1]
        /\ Tail(SubSeq(s, p + 1, Len(s))) = SubSeq(s, p + 1 + 1, Len(s))
    BY <2>1, HeadTailOfSubSeq
  <2> QED
    BY <2>2 DEF From
<1> QED
  BY <1>3, <1>4

(* Sequences written out                                                   *)
LEMMA OneUnit == ASSUME NEW S, NEW u \in S, NEW v \in S
  PROVE <<u>> \in Seq(S) /\ Len(<<u>>) = 1 /\ <<u>>[1] = u /\ <<u, v>> \in Seq(S) /\ <<u>> \o <<v>> = <<u, v>>
<1>1. /\ <<u>> \in Seq(S) /\ <<v>> \in Seq(S) /\ <<u, v>> \in Seq(S)
      /\ Len(<<u>>) = 1 /\ Len(<<v>>) = 1 /\ Len(<<u, v>>) = 2
  OBVIOUS
<1>2. <<u>>[1] = u /\ <<v>>[1] = v /\ <<u, v>>[1] = u /\ <<u, v>>[2] = v
  OBVIOUS
<1> DEFINE a == <<u>>  b == <<v>>  c == <<u, v>>
<1> HIDE DEF a, b, c
<1>3. /\ a \in Seq(S) /\ b \in Seq(S) /\ c \in Seq(S) /\ Len(a) = 1 /\ Len(b) = 1 /\ Len(c) = 2
      /\ a[1] = u /\ b[1] = v /\ c[1] = u /\ c[2] = v
  BY <1>1, <1>2 DEF a, b, c
<1>4. a \o b \in Seq(S) /\ Len(a \o b) = 2 /\ (a \o b)[1] = u /\ (a \o b)[2] = v
  BY <1>3, ConcatProperties
<1>5. a \o b = c
  <2>1. \A i \in 1 .. Len(a \o b) : i = 1 \/ i = 2
    BY <1>4
  <2> QED
    BY <1>3, <1>4, <2>1, SameUnits
<1> QED
  BY <1>1, <1>2, <1>5 DEF a, b, c

(* WithoutRows is a loop over the sequence.                                *)
IsKept(k, s) ==
    /\ k \in [0 .. Len(s) -> Texts] /\ k[0] = <<>>
    /\ \A i \in 1 .. Len(s) : k[i] = IF s[i] = "row" THEN k[i - 1] ELSE Append(k[i - 1], s[i])
LEMMA KeptIs ==
    ASSUME NEW s \in Texts
    PROVE  \E k : IsKept(k, s) /\ WithoutRows(s) = k[Len(s)]
<1> DEFINE n == Len(s)
           Then(x, i) == IF s[i] = "row" THEN x ELSE Append(x, s[i])
           Run(f) == f = [i \in 0 .. n |-> IF i = 0 THEN <<>> ELSE Then(f[i - 1], i)]
           g == [i \in 1 .. n |-> [x \in Texts |-> Then(x, i)]]
<1>1. n \in Nat /\ \A i \in 1 .. n : s[i] \in PageUnits
  BY ElementIn DEF Texts
<1>2. ASSUME NEW i \in 1 .. n, NEW x \in Texts
      PROVE  Then(x, i) \in Texts
  BY <1>1, <1>2, AppendProperties DEF Texts
<1>3. <<>> \in Texts
  BY DEF Texts
<1>4. g \in [1 .. n -> [Texts -> Texts]]
  BY <1>2
<1>5. PICK f : IsLoop(f, n, Texts, <<>>, g)
  <2> HIDE DEF g, n
  <2> QED
    BY <1>1, <1>3, <1>4, LoopRuns
<1>6. f \in [0 .. n -> Texts] /\ f[0] = <<>> /\ \A i \in 1 .. n : f[i] = g[i][f[i - 1]]
  BY <1>5 DEF IsLoop
<1>7. \A i \in 1 .. n : f[i] = Then(f[i - 1], i)
  <2> HIDE DEF Then
  <2>1. \A i \in 1 .. n : f[i - 1] \in Texts
    BY <1>6
  <2> QED
    BY <1>6, <2>1
<1>8. Run(f)
  <2> HIDE DEF Then, n
  <2>1. \A i \in 0 .. n : f[i] = IF i = 0 THEN <<>> ELSE Then(f[i - 1], i)
    BY <1>1, <1>6, <1>7
  <2>2. f = [i \in 0 .. n |-> f[i]]
    BY <1>6
  <2> QED
    BY <2>1, <2>2
<1>9. PICK k : Run(k) /\ WithoutRows(s) = k[n]
  <2>1. WithoutRows(s) = (CHOOSE k : Run(k))[n]
    BY DEF WithoutRows
  <2> HIDE DEF Run, n
  <2> QED
    BY <1>8, <2>1
<1>10. k[0] = <<>> /\ \A i \in 1 .. n : k[i] = Then(k[i - 1], i)
  <2> HIDE DEF Then, n
  <2> QED
    BY <1>1, <1>9
<1> HIDE DEF Then
<1>11. \A i \in 0 .. n : i \in {j \in 0 .. n : k[j] \in Texts}
  <2>1. 0 \in {j \in 0 .. n : k[j] \in Texts}
    BY <1>3, <1>10
  <2>2. ASSUME NEW i \in 1 .. n, i - 1 \in {j \in 0 .. n : k[j] \in Texts}
        PROVE  i \in {j \in 0 .. n : k[j] \in Texts}
    BY <1>2, <1>10, <2>2
  <2> QED
    BY <1>1, <2>1, <2>2, StepByStep
<1>12. k \in [0 .. n -> Texts]
  <2>1. k = [i \in 0 .. n |-> k[i]]
    BY <1>9
  <2>2. \A i \in 0 .. n : k[i] \in Texts
    BY <1>11
  <2> QED
    BY <2>1, <2>2
<1> QED
  BY <1>9, <1>10, <1>12 DEF IsKept, Then

(* Rows do not change what is left without them; other units come to it.   *)
LEMMA RowsAdd ==
    ASSUME NEW a \in Texts, NEW b \in Texts
    PROVE  /\ WithoutRows(a) \in Texts /\ WithoutRows(b) \in Texts
           /\ WithoutRows(a \o b) = WithoutRows(a) \o WithoutRows(b)
<1> DEFINE c == a \o b  n == Len(a)  m == Len(b)
<1>1. /\ c \in Texts /\ Len(c) = n + m /\ n \in Nat /\ m \in Nat
      /\ \A i \in 1 .. n : c[i] = a[i]
      /\ \A i \in 1 .. m : c[n + i] = b[i]
  BY ConcatProperties DEF Texts
<1>2. PICK ka : IsKept(ka, a) /\ WithoutRows(a) = ka[n]
  BY KeptIs
<1>3. PICK kb : IsKept(kb, b) /\ WithoutRows(b) = kb[m]
  BY KeptIs
<1>4. PICK kc : IsKept(kc, c) /\ WithoutRows(c) = kc[Len(c)]
  BY <1>1, KeptIs
<1> HIDE DEF c, n, m
<1>5. /\ ka \in [0 .. n -> Texts] /\ kb \in [0 .. m -> Texts] /\ kc \in [0 .. n + m -> Texts]
      /\ ka[0] = <<>> /\ kb[0] = <<>> /\ kc[0] = <<>>
      /\ \A i \in 1 .. n : ka[i] = IF a[i] = "row" THEN ka[i - 1] ELSE Append(ka[i - 1], a[i])
      /\ \A i \in 1 .. m : kb[i] = IF b[i] = "row" THEN kb[i - 1] ELSE Append(kb[i - 1], b[i])
      /\ \A i \in 1 .. n + m : kc[i] = IF c[i] = "row" THEN kc[i - 1] ELSE Append(kc[i - 1], c[i])
  BY <1>1, <1>2, <1>3, <1>4 DEF IsKept, n, m
<1>6. \A i \in 0 .. n : i \in {j \in 0 .. n : kc[j] = ka[j]}
  <2>1. 0 \in {j \in 0 .. n : kc[j] = ka[j]}
    BY <1>1, <1>5
  <2>2. ASSUME NEW i \in 1 .. n, i - 1 \in {j \in 0 .. n : kc[j] = ka[j]}
        PROVE  i \in {j \in 0 .. n : kc[j] = ka[j]}
    <3>1. i \in 1 .. n + m /\ c[i] = a[i] /\ kc[i - 1] = ka[i - 1]
      BY <1>1, <2>2
    <3> QED
      BY <1>5, <3>1
  <2> QED
    BY <1>1, <2>1, <2>2, StepByStep
<1>7. kc[n] = ka[n] /\ ka[n] \in Texts
  BY <1>1, <1>5, <1>6
<1> DEFINE P == {j \in 0 .. m : kc[n + j] = ka[n] \o kb[j]}
<1>8. 0 \in P
  <2>1. ka[n] \o <<>> = ka[n]
    BY <1>7, ConcatEmptySeq DEF Texts
  <2>2. kc[n] = ka[n] \o kb[0]
    BY <1>5, <1>7, <2>1
  <2>3. n + 0 = n /\ 0 \in 0 .. m
    BY <1>1
  <2> QED
    BY <2>2, <2>3
<1>9. ASSUME NEW i \in 1 .. m, i - 1 \in P PROVE i \in P
  <2>0. kc[n + (i - 1)] = ka[n] \o kb[i - 1]
    BY <1>9
  <2> HIDE DEF P
  <2>1. /\ n + i \in 1 .. n + m /\ (n + i) - 1 = n + (i - 1) /\ c[n + i] = b[i] /\ i - 1 \in 0 .. m
    BY <1>1, <1>9
  <2>2. /\ kc[n + i] = IF b[i] = "row" THEN ka[n] \o kb[i - 1] ELSE Append(ka[n] \o kb[i - 1], b[i])
        /\ kb[i] = IF b[i] = "row" THEN kb[i - 1] ELSE Append(kb[i - 1], b[i])
    BY <1>5, <2>0, <2>1
  <2>3. b[i] \in PageUnits /\ kb[i - 1] \in Texts
    BY <1>5, <2>1, ElementIn DEF Texts, m
  <2>4. ka[n] \o Append(kb[i - 1], b[i]) = Append(ka[n] \o kb[i - 1], b[i])
    <3>1. ASSUME NEW x \in Texts, NEW y \in Texts, NEW u \in PageUnits
          PROVE  x \o Append(y, u) = Append(x \o y, u)
      BY AppendedLater DEF Texts
    <3> QED
      BY <1>7, <2>3, <3>1, Zenon
  <2>5. kc[n + i] = ka[n] \o kb[i]
    BY <2>2, <2>4
  <2> QED
    <3>1. i \in 0 .. m
      BY <1>1
    <3> QED
      BY <2>5, <3>1, Zenon DEF P
<1>10. m \in P
  <2>1. m \in 0 .. m
    BY <1>1
  <2> HIDE DEF P
  <2> QED
    BY <1>1, <1>8, <1>9, <2>1, StepByStep
<1>11. kb[m] \in Texts
  BY <1>1, <1>5
<1> QED
  BY <1>1, <1>2, <1>3, <1>4, <1>7, <1>10, <1>11 DEF c

(* Without rows nothing is left out, and a row is.                         *)
LEMMA RowsNone ==
    ASSUME NEW a \in Texts
    PROVE  /\ NoRow(a) => WithoutRows(a) = a
           /\ WithoutRows(<<"row">>) = <<>>
<1>1. ASSUME NoRow(a) PROVE WithoutRows(a) = a
  <2> DEFINE n == Len(a)
  <2>1. PICK k : IsKept(k, a) /\ WithoutRows(a) = k[n]
    BY KeptIs
  <2>2. n \in Nat /\ k \in [0 .. n -> Texts] /\ k[0] = <<>> /\ \A i \in 1 .. n : k[i] = Append(k[i - 1], a[i])
    <3>1. n \in Nat /\ \A i \in 1 .. n : a[i] # "row"
      BY <1>1 DEF NoRow, Texts
    <3> QED
      BY <2>1, <3>1 DEF IsKept
  <2>3. \A i \in 1 .. n : a[i] \in PageUnits
    BY ElementIn DEF Texts
  <2> HIDE DEF n
  <2> DEFINE P == {j \in 0 .. n : Len(k[j]) = j /\ \A i \in 1 .. j : k[j][i] = a[i]}
  <2>4. 0 \in P
    BY <2>2
  <2>5. ASSUME NEW j \in 1 .. n, j - 1 \in P PROVE j \in P
    <3>1. /\ k[j - 1] \in Seq(PageUnits) /\ Len(k[j - 1]) = j - 1
          /\ (\A i \in 1 .. j - 1 : k[j - 1][i] = a[i])
          /\ k[j] = Append(k[j - 1], a[j]) /\ a[j] \in PageUnits
      BY <2>2, <2>3, <2>5 DEF Texts
    <3> DEFINE x == k[j - 1]
    <3> HIDE DEF x
    <3>2. /\ x \in Seq(PageUnits) /\ Len(x) = j - 1 /\ (\A i \in 1 .. j - 1 : x[i] = a[i])
          /\ k[j] = Append(x, a[j])
      BY <3>1 DEF x
    <3>3. /\ Len(Append(x, a[j])) = Len(x) + 1 /\ (\A i \in 1 .. Len(x) : Append(x, a[j])[i] = x[i])
          /\ Append(x, a[j])[Len(x) + 1] = a[j]
      BY <3>1, <3>2, AppendProperties
    <3>4. Len(k[j]) = j /\ (\A i \in 1 .. j - 1 : k[j][i] = a[i]) /\ k[j][j] = a[j]
      BY <3>2, <3>3
    <3>5. \A i \in 1 .. j : i \in 1 .. j - 1 \/ i = j
      OBVIOUS
    <3> QED
      BY <3>4, <3>5
  <2>6. n \in P
    <3>1. n \in 0 .. n
      BY <2>2
    <3> HIDE DEF P
    <3> QED
      BY <2>2, <2>4, <2>5, <3>1, StepByStep
  <2>7. k[n] \in Seq(PageUnits) /\ Len(k[n]) = Len(a) /\ \A i \in 1 .. Len(k[n]) : k[n][i] = a[i]
    BY <2>2, <2>6 DEF Texts, n
  <2> QED
    BY <2>1, <2>7, SameUnits DEF Texts, n
<1>2. WithoutRows(<<"row">>) = <<>>
  <2>1. <<"row">> \in Texts /\ Len(<<"row">>) = 1 /\ <<"row">>[1] = "row"
    <3>1. "row" \in PageUnits
      BY DEF PageUnits
    <3> QED
      BY <3>1, OneUnit DEF Texts
  <2>2. PICK k : IsKept(k, <<"row">>) /\ WithoutRows(<<"row">>) = k[Len(<<"row">>)]
    BY <2>1, KeptIs
  <2>3. k[0] = <<>> /\ k[1] = k[0]
    <3>1. 1 \in 1 .. Len(<<"row">>) /\ 1 - 1 = 0
      BY <2>1
    <3> QED
      BY <2>1, <2>2, <3>1, Zenon DEF IsKept
  <2> QED
    BY <2>1, <2>2, <2>3
<1> QED
  BY <1>1, <1>2

(* Texts are joined in any order.                                          *)
Joins(a, b, c) ==
    a \o b \in Texts /\ b \o c \in Texts /\ (a \o b) \o c = a \o (b \o c)
LEMMA TextsJoin ==
    ASSUME NEW a \in Texts, NEW b \in Texts, NEW c \in Texts
    PROVE  Joins(a, b, c)
BY ConcatAssociative, ConcatProperties DEF Texts, Joins

(* Files are made of units, and none of them is a row.                     *)
LEMMA FileUnits ==
    ASSUME NEW f \in DOMAIN Files
    PROVE  Files[f] \in Texts /\ Files[f] # <<>> /\ NoRow(Files[f])
<1> DEFINE s == Files[f]
<1>1. s \in Seq(STRING) \ {<<>>} /\ \A i \in 1 .. Len(s) : s[i] # "row"
  BY FilesAssumption
<1>2. \A i \in 1 .. Len(s) : s[i] \in PageUnits
  BY DEF PageUnits
<1> HIDE DEF s
<1>3. s \in Seq(PageUnits)
  BY <1>1, <1>2
<1> QED
  BY <1>1, <1>3 DEF Texts, NoRow, s

(* The numbers of net_stats: one more of them.                             *)
LEMMA NumbersAre ==
    ASSUME NEW n \in Nat
    PROVE  /\ Numbers(n) \in Texts /\ NoRow(Numbers(n))
           /\ Len(Numbers(n)) = n /\ \A i \in 1 .. n : Numbers(n)[i] = "n"
<1>1. "n" \in PageUnits /\ "n" # "row"
  BY DEF PageUnits
<1> QED
  BY <1>1 DEF Numbers, Texts, NoRow

(* One number more is a number and then the rest.                          *)
LEMMA OneNumberMore ==
    ASSUME NEW n \in Nat, NEW m \in Nat, m = n + 1
    PROVE  Numbers(m) = <<"n">> \o Numbers(n)
<1>1. "n" \in PageUnits
  BY DEF PageUnits
<1>2. <<"n">> \in Seq(PageUnits) /\ Len(<<"n">>) = 1 /\ <<"n">>[1] = "n"
  BY <1>1, OneUnit
<1> DEFINE a == <<"n">>  b == Numbers(n)  c == Numbers(m)
<1>3. /\ b \in Seq(PageUnits) /\ Len(b) = n /\ (\A i \in 1 .. n : b[i] = "n")
      /\ c \in Seq(PageUnits) /\ Len(c) = m /\ (\A i \in 1 .. m : c[i] = "n")
  BY NumbersAre DEF Texts
<1> HIDE DEF a, b, c
<1>4. a \in Seq(PageUnits) /\ Len(a) = 1 /\ a[1] = "n"
  BY <1>2 DEF a
<1>5. a \o b \in Seq(PageUnits) /\ Len(a \o b) = 1 + n
  <2>1. a \o b \in Seq(PageUnits) /\ Len(a \o b) = Len(a) + Len(b)
    BY <1>3, <1>4, ConcatProperties
  <2> QED
    BY <1>3, <1>4, <2>1
<1>6. ASSUME NEW i \in 1 .. m PROVE (a \o b)[i] = "n"
  <2>1. i \in 1 .. Len(a) + Len(b)
    BY <1>3, <1>4
  <2>2. (a \o b)[i] = IF i <= Len(a) THEN a[i] ELSE b[i - Len(a)]
    BY <1>3, <1>4, <2>1, ConcatProperties
  <2> QED
    BY <1>3, <1>4, <2>2
<1>7. c = a \o b
  BY <1>3, <1>5, <1>6, SameUnits
<1> QED
  BY <1>7 DEF a, b, c

(* What a unit of a file becomes on the page                               *)
LEMMA ShownTyped ==
    ASSUME NEW s \in Texts, NoRow(s), NEW i \in 1 .. Len(s)
    PROVE  Shown(s, i) \in Texts /\ NoRow(Shown(s, i))
<1>1. s[i] \in PageUnits /\ s[i] # "row"
  BY ElementIn DEF Texts, NoRow
<1>2. <<s[i]>> \in Texts /\ NoRow(<<s[i]>>)
  BY <1>1, OneUnit DEF Texts, NoRow
<1>3. <<>> \in Texts /\ NoRow(<<>>)
  BY DEF Texts, NoRow
<1>4. Numbers(NumStats) \in Texts /\ NoRow(Numbers(NumStats))
  BY NumbersAre, FilesAssumption
<1>5. s[i] \in Includes => Files[s[i]] \in Texts /\ NoRow(Files[s[i]])
  BY FileUnits DEF Includes
<1> QED
  BY <1>2, <1>3, <1>4, <1>5, Zenon DEF Shown

(* What the units come to is a sequence of what each of them becomes.      *)
IsWritten(w, s) ==
    /\ w \in [0 .. Len(s) -> Texts] /\ w[0] = <<>>
    /\ \A i \in 1 .. Len(s) : w[i] = w[i - 1] \o Shown(s, i)
LEMMA WrittenIs ==
    ASSUME NEW s \in Texts, NoRow(s)
    PROVE  IsWritten(Written(s), s)
<1> DEFINE n == Len(s)
           Then(x, i) == x \o Shown(s, i)
           Run(f) == f = [i \in 0 .. n |-> IF i = 0 THEN <<>> ELSE Then(f[i - 1], i)]
           g == [i \in 1 .. n |-> [x \in Texts |-> Then(x, i)]]
<1>1. n \in Nat
  BY DEF Texts
<1>2. ASSUME NEW i \in 1 .. n, NEW x \in Texts PROVE Then(x, i) \in Texts
  <2>1. Shown(s, i) \in Texts
    BY ShownTyped
  <2> QED
    BY <2>1, ConcatProperties DEF Texts
<1>3. <<>> \in Texts
  BY DEF Texts
<1>4. g \in [1 .. n -> [Texts -> Texts]]
  BY <1>2
<1>5. PICK f : IsLoop(f, n, Texts, <<>>, g)
  <2> HIDE DEF g, n
  <2> QED
    BY <1>1, <1>3, <1>4, LoopRuns
<1>6. f \in [0 .. n -> Texts] /\ f[0] = <<>> /\ \A i \in 1 .. n : f[i] = g[i][f[i - 1]]
  BY <1>5 DEF IsLoop
<1>7. \A i \in 1 .. n : f[i] = Then(f[i - 1], i)
  <2> HIDE DEF Then
  <2>1. \A i \in 1 .. n : f[i - 1] \in Texts
    BY <1>6
  <2> QED
    BY <1>6, <2>1
<1>8. Run(f)
  <2> HIDE DEF Then, n
  <2>1. \A i \in 0 .. n : f[i] = IF i = 0 THEN <<>> ELSE Then(f[i - 1], i)
    BY <1>1, <1>6, <1>7
  <2>2. f = [i \in 0 .. n |-> f[i]]
    BY <1>6
  <2> QED
    BY <2>1, <2>2
<1>9. Run(Written(s))
  <2>1. Written(s) = CHOOSE k : Run(k)
    BY DEF Written
  <2> HIDE DEF Run
  <2> QED
    BY <1>8, <2>1
<1> DEFINE k == Written(s)
<1> HIDE DEF k
<1>10. k[0] = <<>> /\ \A i \in 1 .. n : k[i] = Then(k[i - 1], i)
  <2> HIDE DEF Then, n
  <2> QED
    BY <1>1, <1>9 DEF k
<1> HIDE DEF Then
<1>11. \A i \in 0 .. n : i \in {j \in 0 .. n : k[j] \in Texts}
  <2>1. 0 \in {j \in 0 .. n : k[j] \in Texts}
    BY <1>3, <1>10
  <2>2. ASSUME NEW i \in 1 .. n, i - 1 \in {j \in 0 .. n : k[j] \in Texts}
        PROVE  i \in {j \in 0 .. n : k[j] \in Texts}
    BY <1>2, <1>10, <2>2
  <2> QED
    BY <1>1, <2>1, <2>2, StepByStep
<1>12. k \in [0 .. n -> Texts]
  <2>1. k = [i \in 0 .. n |-> k[i]]
    BY <1>9 DEF k
  <2>2. \A i \in 0 .. n : k[i] \in Texts
    BY <1>11
  <2> QED
    BY <2>1, <2>2
<1> QED
  BY <1>10, <1>12 DEF IsWritten, Then, k

(* A page grows with its file.                                             *)
LEMMA WrittenBegins ==
    ASSUME NEW s \in Texts, NoRow(s), NEW p \in 0 .. Len(s)
    PROVE  \E t \in Texts : Written(s)[Len(s)] = Written(s)[p] \o t
<1> DEFINE w == Written(s)  n == Len(s) - p
           P == {j \in 0 .. n : \E t \in Texts : w[p + j] = w[p] \o t}
<1>1. IsWritten(w, s)
  BY WrittenIs
<1> HIDE DEF w
<1>2. /\ n \in Nat /\ p \in Nat /\ p + n = Len(s) /\ w[p] \in Texts
      /\ \A j \in 1 .. n : p + j \in 1 .. Len(s) /\ (p + j) - 1 = p + (j - 1)
  BY <1>1 DEF IsWritten, Texts
<1> HIDE DEF n
<1>3. 0 \in P
  <2>1. w[p] \o <<>> = w[p] /\ <<>> \in Texts
    BY <1>2, ConcatEmptySeq DEF Texts
  <2>2. p + 0 = p /\ 0 \in 0 .. n
    BY <1>2
  <2>3. \E t \in Texts : w[p + 0] = w[p] \o t
    BY <2>1, <2>2
  <2> QED
    BY <2>2, <2>3, Zenon
<1>4. ASSUME NEW j \in 1 .. n, j - 1 \in P PROVE j \in P
  <2>1. PICK t \in Texts : w[p + (j - 1)] = w[p] \o t
    BY <1>4
  <2> HIDE DEF P
  <2>2. p + j \in 1 .. Len(s) /\ w[p + j] = w[p + (j - 1)] \o Shown(s, p + j)
    BY <1>1, <1>2 DEF IsWritten
  <2> DEFINE u == Shown(s, p + j)
  <2>3. u \in Texts
    BY <2>2, ShownTyped
  <2> HIDE DEF u
  <2>4. (w[p] \o t) \o u = w[p] \o (t \o u) /\ t \o u \in Texts
    <3>1. w[p] \in Texts
      BY <1>2
    <3>2. Joins(w[p], t, u)
      BY <2>1, <2>3, <3>1, TextsJoin
    <3> QED
      BY <3>2 DEF Joins
  <2>5. w[p + j] = w[p] \o (t \o u)
    BY <2>1, <2>2, <2>4 DEF u
  <2>6. j \in 0 .. n
    BY <1>2
  <2> QED
    BY <2>4, <2>5, <2>6, Zenon DEF P
<1>5. n \in P
  <2>1. n \in 0 .. n
    BY <1>2
  <2> HIDE DEF P
  <2> QED
    BY <1>2, <1>3, <1>4, <2>1, StepByStep
<1> QED
  BY <1>2, <1>5 DEF w

(* The rest of a script's line comes to nothing.                           *)
LEMMA WrittenStays ==
    ASSUME NEW s \in Texts, NoRow(s), NEW p \in 0 .. Len(s), NEW q \in p .. Len(s),
           \A i \in p + 1 .. q : Shown(s, i) = <<>>
    PROVE  Written(s)[q] = Written(s)[p]
<1> DEFINE w == Written(s)  n == q - p
           P == {j \in 0 .. n : w[p + j] = w[p]}
<1>1. IsWritten(w, s)
  BY WrittenIs
<1> HIDE DEF w
<1>2. /\ n \in Nat /\ p \in Nat /\ p + n = q /\ w[p] \in Texts
      /\ \A j \in 1 .. n : p + j \in 1 .. Len(s) /\ p + j \in p + 1 .. q /\ (p + j) - 1 = p + (j - 1)
  <2>1. Len(s) \in Nat
    BY DEF Texts
  <2>2. w[p] \in Texts
    BY <1>1 DEF IsWritten
  <2> QED
    BY <2>1, <2>2
<1> HIDE DEF n
<1>3. 0 \in P
  BY <1>2
<1>4. ASSUME NEW j \in 1 .. n, j - 1 \in P PROVE j \in P
  <2>1. w[p + (j - 1)] = w[p]
    BY <1>4
  <2> HIDE DEF P
  <2>2. w[p + j] = w[p + (j - 1)] \o Shown(s, p + j) /\ Shown(s, p + j) = <<>>
    BY <1>1, <1>2 DEF IsWritten
  <2>3. w[p] \o <<>> = w[p]
    BY <1>2, ConcatEmptySeq DEF Texts
  <2>4. w[p + j] = w[p]
    BY <2>1, <2>2, <2>3
  <2>5. j \in 0 .. n
    BY <1>2
  <2> QED
    BY <2>4, <2>5, Zenon DEF P
<1>5. n \in P
  <2>1. n \in 0 .. n
    BY <1>2
  <2> HIDE DEF P
  <2> QED
    BY <1>2, <1>3, <1>4, <2>1, StepByStep
<1> QED
  BY <1>2, <1>5 DEF w

(* Text comes to itself.                                                   *)
LEMMA WrittenPlain ==
    ASSUME NEW s \in Texts, NoRow(s), NEW p \in 0 .. Len(s), NEW n \in 0 .. Len(s) - p, NEW q, q = p + n,
           \A i \in p + 1 .. q : Shown(s, i) = <<s[i]>>
    PROVE  Written(s)[q] = Written(s)[p] \o SubSeq(From(s, p), 1, n)
<1> DEFINE w == Written(s)  r == From(s, p)
           P == {j \in 0 .. n : w[p + j] = w[p] \o SubSeq(r, 1, j)}
<1>1. IsWritten(w, s)
  BY WrittenIs
<1>2. r \in Seq(PageUnits) /\ RestIs(r, s, p)
  BY RestBehind DEF Texts
<1> HIDE DEF w, r
<1>3. /\ n \in Nat /\ p \in Nat /\ w[p] \in Texts
      /\ \A j \in 1 .. n : p + j \in 1 .. Len(s) /\ p + j \in p + 1 .. q /\ (p + j) - 1 = p + (j - 1)
  <2>1. Len(s) \in Nat
    BY DEF Texts
  <2>2. w[p] \in Texts
    BY <1>1 DEF IsWritten
  <2> QED
    BY <2>1, <2>2
<1>4. /\ n <= Len(r) /\ Len(r) \in Nat
      /\ \A j \in 1 .. n : r[j] = s[p + j] /\ r[j] \in PageUnits /\ SubSeq(r, 1, j - 1) \in Seq(PageUnits)
  <2>1. /\ n <= Len(r) /\ Len(r) \in Nat
        /\ \A j \in 1 .. n : r[j] = s[p + j] /\ j \in 1 .. Len(r) /\ j - 1 \in 0 .. Len(r)
    <3>1. Len(r) = Len(s) - p /\ Len(s) \in Nat /\ \A i \in 1 .. Len(s) - p : r[i] = s[p + i]
      BY <1>2 DEF RestIs, Texts
    <3> QED
      BY <1>3, <3>1
  <2>2. \A j \in 1 .. n : r[j] \in PageUnits
    BY <1>2, <2>1, ElementIn
  <2>3. \A j \in 1 .. n : SubSeq(r, 1, j - 1) \in Seq(PageUnits)
    BY <1>2, <2>1, CutIn
  <2> QED
    BY <2>1, <2>2, <2>3
<1>5. 0 \in P
  <2>1. SubSeq(r, 1, 0) = <<>>
    BY <1>2
  <2>2. w[p] \o <<>> = w[p]
    BY <1>3, ConcatEmptySeq DEF Texts
  <2>3. p + 0 = p /\ 0 \in 0 .. n
    BY <1>3
  <2> QED
    BY <2>1, <2>2, <2>3, Zenon
<1>6. ASSUME NEW j \in 1 .. n, j - 1 \in P PROVE j \in P
  <2>1. w[p + (j - 1)] = w[p] \o SubSeq(r, 1, j - 1)
    BY <1>6
  <2> HIDE DEF P
  <2>2. w[p + j] = w[p + (j - 1)] \o <<s[p + j]>>
    BY <1>1, <1>3 DEF IsWritten
  <2>3. <<r[j]>> \in Seq(PageUnits)
    BY <1>4, OneUnit
  <2>4. SubSeq(r, 1, j) = SubSeq(r, 1, j - 1) \o <<r[j]>>
    <3>1. 1 \in 1 .. Len(r) /\ j \in 1 .. Len(r)
      BY <1>3, <1>4
    <3> QED
      BY <1>2, <3>1, SubSeqRecursiveSecond
  <2>5. (w[p] \o SubSeq(r, 1, j - 1)) \o <<r[j]>> = w[p] \o (SubSeq(r, 1, j - 1) \o <<r[j]>>)
    <3>1. SubSeq(r, 1, j - 1) \in Texts /\ <<r[j]>> \in Texts
      BY <1>4, <2>3 DEF Texts
    <3>2. Joins(w[p], SubSeq(r, 1, j - 1), <<r[j]>>)
      BY <1>3, <3>1, TextsJoin
    <3> QED
      BY <3>2 DEF Joins
  <2>6. w[p + j] = w[p] \o SubSeq(r, 1, j)
    BY <1>4, <2>1, <2>2, <2>4, <2>5
  <2>7. j \in 0 .. n
    BY <1>3
  <2> QED
    BY <2>6, <2>7, Zenon DEF P
<1>7. n \in P
  <2>1. n \in 0 .. n
    BY <1>3
  <2> HIDE DEF P
  <2> QED
    BY <1>3, <1>5, <1>6, <2>1, StepByStep
<1> QED
  BY <1>7 DEF w, r

(* The marks are different from each other, and no file has a mark's name. *)
LEMMA MarksApart ==
    /\ "nl" \notin Includes /\ "%" \notin Includes /\ ~IsCall("nl") /\ ~IsCall("%")
    /\ \A u : u \in Includes \/ u \in Functions => IsCall(u)
    /\ \A u : IsCall(u) => u \in Includes \/ u \in Functions
<1>1. "nl" \notin Includes /\ "%" \notin Includes
  BY FilesAssumption DEF Includes
<1> QED
  BY <1>1 DEF IsCall, Special, Functions

(* A unit that is no call is put on the page, or else left out if a call   *)
(* goes before it on its line.                                             *)
LEMMA TextShown ==
    ASSUME NEW s \in Texts, NEW i \in 1 .. Len(s), ~IsCall(s[i])
    PROVE  Shown(s, i) = IF Muted(s, i) THEN <<>> ELSE <<s[i]>>
<1>1. s[i] \notin Includes /\ s[i] \notin {"tcp", "net", "null"}
  BY MarksApart DEF Functions
<1> QED
  BY <1>1, Zenon DEF Shown

(* On a line without a call the text is on the page.                       *)
LEMMA FreshLine ==
    ASSUME NEW s \in Texts, NEW p \in 0 .. Len(s), NEW n \in 0 .. Len(s) - p, NEW q, q = p + n,
           Fresh(s, p), \A i \in p + 1 .. q : ~IsCall(s[i])
    PROVE  (\A i \in p + 1 .. q : Shown(s, i) = <<s[i]>>) /\ Fresh(s, q)
<1>0. Len(s) \in Nat /\ p \in Nat /\ n \in Nat /\ q \in 0 .. Len(s) /\ p <= q
  BY DEF Texts
<1>1. ASSUME NEW i \in p + 1 .. q, Muted(s, i) PROVE FALSE
  <2>1. PICK j \in 1 .. i : IsCall(s[j]) /\ \A k \in j .. i - 1 : s[k] # "nl"
    BY <1>1 DEF Muted
  <2>2. j \in 1 .. p
    <3>1. j \notin p + 1 .. q
      BY <2>1
    <3> QED
      BY <1>0, <1>1, <2>1, <3>1
  <2>3. PICK k \in j .. p : s[k] = "nl"
    BY <2>1, <2>2 DEF Fresh
  <2>4. k \in j .. i - 1
    BY <1>0, <1>1, <2>2, <2>3
  <2> QED
    BY <2>1, <2>3, <2>4
<1>2. ASSUME NEW i \in p + 1 .. q PROVE Shown(s, i) = <<s[i]>>
  <2>1. i \in 1 .. Len(s)
    BY <1>0
  <2> QED
    BY <1>1, <2>1, TextShown
<1>3. ASSUME NEW j \in 1 .. q, IsCall(s[j]) PROVE \E k \in j .. q : s[k] = "nl"
  <2>1. j \in 1 .. p
    BY <1>0, <1>3
  <2>2. PICK k \in j .. p : s[k] = "nl"
    BY <1>3, <2>1 DEF Fresh
  <2>3. k \in j .. q
    BY <1>0, <2>1, <2>2
  <2> QED
    BY <2>2, <2>3
<1> QED
  BY <1>2, <1>3 DEF Fresh

(* Behind a call: its line comes to nothing, and the next line is fresh.   *)
LEMMA LineDone ==
    ASSUME NEW f \in Scripts, f \in DOMAIN Files, NEW s \in Texts, s = Files[f],
           NEW c \in 1 .. Len(s), IsCall(s[c]), NEW q \in c .. Len(s),
           \A k \in c + 1 .. q - 1 : s[k] # "nl", q = Len(s) \/ s[q] = "nl"
    PROVE  (\A i \in c + 1 .. q : Shown(s, i) = <<>>) /\ (q = Len(s) \/ Fresh(s, q))
<1>0. Len(s) \in Nat /\ c \in Nat /\ q \in Nat
  BY DEF Texts
<1>1. ASSUME NEW i \in c + 1 .. q PROVE Shown(s, i) = <<>>
  <2>1. i \in 1 .. Len(s) /\ c < i /\ c \in 1 .. i
    BY <1>0
  <2>2. ~IsCall(s[i])
    <3> SUFFICES ASSUME IsCall(s[i]) PROVE FALSE
      OBVIOUS
    <3>1. \E k \in c + 1 .. i - 1 : s[k] = "nl"
      BY <2>1, ScriptsAssumption
    <3>2. PICK k \in c + 1 .. i - 1 : s[k] = "nl"
      BY <3>1
    <3>3. k \in c + 1 .. q - 1
      BY <1>0, <1>1, <3>2
    <3> QED
      BY <3>2, <3>3
  <2>3. \A k \in c .. i - 1 : s[k] # "nl"
    <3>1. s[c] # "nl"
      BY MarksApart
    <3>2. \A k \in c .. i - 1 : k = c \/ k \in c + 1 .. q - 1
      BY <1>0, <1>1
    <3> QED
      BY <3>1, <3>2
  <2>4. Muted(s, i)
    BY <2>1, <2>3 DEF Muted
  <2> QED
    BY <2>1, <2>2, <2>4, TextShown
<1>2. ASSUME q # Len(s) PROVE Fresh(s, q)
  <2>1. s[q] = "nl" /\ \A j \in 1 .. q : q \in j .. q
    BY <1>0, <1>2
  <2> QED
    BY <2>1 DEF Fresh
<1> QED
  BY <1>1, <1>2

(* What a call at unit c itself becomes on the page                        *)
LEMMA CallShown ==
    ASSUME NEW s \in Texts, NEW c \in 1 .. Len(s), IsCall(s[c])
    PROVE  /\ s[c] \in Includes => Shown(s, c) = Files[s[c]]
           /\ s[c] \notin Includes =>
                Shown(s, c) = IF s[c] = "net" THEN Numbers(NumStats) ELSE <<>>
<1>1. Muted(s, c)
  <2>1. c \in 1 .. c /\ c .. c - 1 = {}
    BY DEF Texts
  <2> QED
    BY <2>1 DEF Muted
<1> QED
  BY <1>1, Zenon DEF Shown

(* An answer that is not touched stays what it is.                         *)
LEMMA AnswerStays ==
    ASSUME Phase, AllSent' = AllSent, UNCHANGED outState
    PROVE  Phase'
<1>1. /\ outpt' = outpt /\ filename' = filename /\ file' = file /\ scriptptr' = scriptptr /\ count' = count
  BY DEF outState
<1>2. /\ SentText' = SentText /\ Asked' = Asked /\ Opening' = Opening
      /\ (\A t, n : UpTo(t, n)' = UpTo(t, n)) /\ Answering' = Answering /\ Answered' = Answered
  BY <1>1, Zenon DEF SentText, Asked, Opening, UpTo, Answering, Answered
<1>3. /\ NotBegun => NotBegun'
      /\ AtHeaders => AtHeaders'
      /\ InFile => InFile'
      /\ AtEnd => AtEnd'
  BY <1>1, <1>2, Zenon DEF NotBegun, AtHeaders, InFile, AtEnd
<1>4. UpTo(file, 0)' = UpTo(file, 0) /\ \A n : UpTo(file, n)' = UpTo(file, n)
  BY <1>1, <1>2, Zenon DEF UpTo
<1>5. \A n : UpTo(Numbers(NumStats - count), n)' = UpTo(Numbers(NumStats - count), n)
  BY <1>1, <1>2, Zenon DEF UpTo
<1>6. /\ \A p : InScript(p) => InScript(p)'
      /\ \A c : InCall(c) => InCall(c)'
  BY <1>1, <1>2, <1>4, <1>5, Zenon DEF InScript, InCall
<1> QED
  BY <1>2, <1>3, <1>6, Zenon DEF Phase

(* A segment is handed to uIP: what was sent grows by it.                  *)
LEMMA SegmentGiven ==
    ASSUME got \in Texts, seg = <<>>, NEW u \in Texts, seg' = u, got' = got
    PROVE  /\ AllSent' = AllSent \o u /\ AllSent \in Texts /\ SentText \in Texts
           /\ SentText' = SentText \o WithoutRows(u) /\ WithoutRows(u) \in Texts
           /\ AllSent # <<>> => AllSent' # <<>> /\ AllSent'[1] = AllSent[1]
<1>1. got \o <<>> = got
  BY ConcatEmptySeq DEF Texts
<1>2. AllSent = got /\ AllSent' = got \o u
  BY <1>1 DEF AllSent
<1>3. /\ WithoutRows(got \o u) = WithoutRows(got) \o WithoutRows(u)
      /\ WithoutRows(got) \in Texts /\ WithoutRows(u) \in Texts
  BY RowsAdd
<1>4. ASSUME got # <<>> PROVE got \o u # <<>> /\ (got \o u)[1] = got[1]
  <2>1. got \in Seq(PageUnits) /\ u \in Seq(PageUnits) /\ Len(got) \in Nat /\ Len(got) > 0 /\ Len(u) \in Nat
    BY <1>4 DEF Texts
  <2>2. /\ Len(got \o u) = Len(got) + Len(u)
        /\ \A i \in 1 .. Len(got) + Len(u) : (got \o u)[i] = IF i <= Len(got) THEN got[i] ELSE u[i - Len(got)]
    BY <2>1, ConcatProperties
  <2>3. 1 \in 1 .. Len(got) + Len(u) /\ 1 <= Len(got) /\ Len(got \o u) # 0
    BY <2>1, <2>2
  <2> QED
    BY <2>2, <2>3
<1> QED
  BY <1>2, <1>3, <1>4 DEF SentText

(* What the page is when the answer goes on.                               *)
LEMMA AnswerGoesOn ==
    ASSUME Answering, filename' = filename, AllSent' # <<>>, AllSent'[1] = AllSent[1]
    PROVE  Answering' /\ Asked' = Asked /\ Opening' = Opening
BY Zenon DEF Answering, Asked, Opening

(* A part of what was to do has been done.                                 *)
LEMMA PartDone ==
    ASSUME SentText \in Texts, NEW u \in Texts, NEW t \in Texts, NEW n, UpTo(u \o t, n),
           SentText' = SentText \o u, Asked' = Asked, Opening' = Opening
    PROVE  UpTo(t, n)'
<1>1. (SentText \o u) \o t = SentText \o (u \o t)
  <2>1. Joins(SentText, u, t)
    BY TextsJoin
  <2> QED
    BY <2>1 DEF Joins
<1> QED
  BY <1>1, Zenon DEF UpTo

(* A step of the output thread, and the pieces it keeps                    *)
LEMMA OutKeeps ==
    ASSUME HttpBase, hcall = "out", got' = got, seg' \in Texts, UNCHANGED <<inpt, output, input, http>>,
           hcall' = "out" => seg' = <<>>, outpt' # "start"
    PROVE  HttpBase'
<1>1. /\ got \in Texts /\ http = "up" /\ output /\ inpt = "lines" /\ input = <<>>
  BY DEF HttpBase
<1> QED
  BY <1>1 DEF HttpBase

(* Without a segment everything stays sent.                                *)
LEMMA NothingGiven ==
    ASSUME HttpBase, hcall = "out", got' = got, seg' = seg
    PROVE  /\ AllSent' = AllSent /\ SentText' = SentText /\ seg' = <<>> /\ seg' \in Texts
           /\ AllSent \in Texts /\ SentText \in Texts
<1>1. got \in Texts /\ seg \in Texts /\ seg = <<>>
  BY DEF HttpBase
<1>2. AllSent \in Texts
  <2>1. Joins(got, seg, seg)
    BY <1>1, TextsJoin
  <2> QED
    BY <2>1 DEF AllSent, Joins
<1>3. SentText \in Texts
  BY <1>2, RowsAdd DEF SentText
<1> QED
  BY <1>1, <1>2, <1>3, Zenon DEF AllSent, SentText

(* An acknowledged segment has only changed its place.                     *)
LEMMA AcknowledgedSame ==
    ASSUME got \in Texts, seg \in Texts, got' = got \o seg, seg' = <<>>
    PROVE  AllSent' = AllSent /\ got' \in Texts /\ seg' \in Texts
<1>1. got \o seg \in Seq(PageUnits) /\ (got \o seg) \o <<>> = got \o seg
  BY ConcatEmptySeq, ConcatProperties DEF Texts
<1>2. <<>> \in Texts
  BY DEF Texts
<1> QED
  BY <1>1, <1>2, Zenon DEF AllSent, Texts

(* A client connects: nothing is sent yet.                                 *)
LEMMA ConnectedInv == ASSUME HttpInv, HttpConnected PROVE HttpInv'
<1>1. /\ http' = "up" /\ hcall' = "in" /\ inpt' = "method" /\ outpt' = "start" /\ output' = FALSE
      /\ seg' = <<>> /\ got' = <<>>
  BY DEF HttpConnected
<1>2. <<>> \in Texts /\ <<>> \o <<>> = <<>>
  BY ConcatEmptySeq DEF Texts
<1>3. AllSent' = <<>>
  BY <1>1, <1>2, Zenon DEF AllSent
<1>4. HttpBase'
  BY <1>1, <1>2, <1>3 DEF HttpBase
<1>5. Phase'
  BY <1>1, <1>3, Zenon DEF Phase, NotBegun
<1> QED
  BY <1>4, <1>5 DEF HttpInv

(* uIP calls httpd_appcall, with or without an acknowledgement, or stops.  *)
LEMMA CalledInv ==
    ASSUME HttpInv, hcall = "no", hcall' # "out", UNCHANGED <<inpt, output>>, UNCHANGED outState,
           UNCHANGED <<seg, got>> \/ (got' = got \o seg /\ seg' = <<>>),
           http' \in {http, "aborted", "none"}, http' = "closing" => input' = input
    PROVE  HttpInv'
<1>1. HttpBase /\ Phase /\ got \in Texts /\ seg \in Texts
  BY DEF HttpInv, HttpBase
<1>2. AllSent' = AllSent /\ got' \in Texts /\ seg' \in Texts
  BY <1>1, AcknowledgedSame, Zenon DEF AllSent
<1>3. outpt' = outpt /\ inpt' = inpt /\ output' = output
  BY DEF outState
<1>4. seg = <<>> => seg' = <<>>
  <2>1. seg' = seg \/ seg' = <<>>
    OBVIOUS
  <2> QED
    BY <2>1
<1>5. HttpBase'
  BY <1>1, <1>2, <1>3, <1>4 DEF HttpBase
<1>6. Phase'
  BY <1>1, <1>2, AnswerStays
<1> QED
  BY <1>5, <1>6 DEF HttpInv

(* What uIP does with the connection between two calls                     *)
LEMMA OutsideInv ==
    ASSUME HttpInv, HttpRequest \/ HttpMore \/ HttpAcked \/ HttpPoll \/ HttpRexmit \/ HttpGone \/ OtherConn
    PROVE  HttpInv'
<1>1. CASE HttpRequest \/ HttpMore
  <2>1. HttpData
    BY <1>1, Zenon DEF HttpRequest, HttpMore
  <2>2. /\ http = "up" /\ http' = http /\ hcall = "no" /\ hcall' = "in"
        /\ UNCHANGED <<inpt, output>> /\ UNCHANGED outState
    BY <2>1, Zenon DEF HttpData, Event
  <2>3. UNCHANGED <<seg, got>> \/ (got' = got \o seg /\ seg' = <<>>)
    <3>1. CASE Delivered
      BY <3>1, Zenon DEF Delivered
    <3>2. CASE UNCHANGED wire
      BY <3>2 DEF wire
    <3> QED
      BY <2>1, <3>1, <3>2, Zenon DEF HttpData
  <2> QED
    BY <2>2, <2>3, CalledInv
<1>2. CASE HttpAcked
  <2>1. /\ http' = http /\ input' = input /\ hcall = "no" /\ hcall' = "in"
        /\ UNCHANGED <<inpt, output>> /\ UNCHANGED outState
    BY <1>2, Zenon DEF HttpAcked, Event
  <2>2. got' = got \o seg /\ seg' = <<>>
    BY <1>2, Zenon DEF HttpAcked, Delivered
  <2> QED
    BY <2>1, <2>2, CalledInv
<1>3. CASE HttpPoll
  <2>1. /\ http = "up" /\ http' \in {"aborted", "up"} /\ hcall = "no" /\ hcall' = "in"
        /\ UNCHANGED <<inpt, output>> /\ UNCHANGED outState /\ UNCHANGED <<seg, got>>
    BY <1>3 DEF HttpPoll, Event, wire
  <2> QED
    BY <2>1, CalledInv
<1>4. CASE HttpGone
  <2>1. /\ http' = "none" /\ hcall = "no" /\ hcall' = "no"
        /\ UNCHANGED <<inpt, output>> /\ UNCHANGED outState /\ UNCHANGED <<seg, got>>
    BY <1>4 DEF HttpGone, wire
  <2> QED
    BY <2>1, CalledInv
<1>5. CASE OtherConn
  <2>1. /\ http' = http /\ input' = input /\ hcall = "no" /\ hcall' = "no"
        /\ UNCHANGED <<inpt, output>> /\ UNCHANGED outState /\ UNCHANGED <<seg, got>>
    BY <1>5 DEF OtherConn, wire
  <2> QED
    BY <2>1, CalledInv
<1>6. CASE HttpRexmit
  <2>1. /\ http' = http /\ input' = input /\ hcall = "no" /\ hcall' = "no"
        /\ UNCHANGED <<inpt, output>> /\ UNCHANGED outState /\ UNCHANGED <<seg, got>>
    BY <1>6 DEF HttpRexmit
  <2> QED
    BY <2>1, CalledInv
<1> QED
  BY <1>1, <1>2, <1>3, <1>4, <1>5, <1>6

(* The input thread: it names the file only before the answer begins.      *)
LEMMA ReadWordInv == ASSUME HttpInv, ReadWord PROVE HttpInv'
<1>1. /\ HttpBase /\ Phase
      /\ hcall = "in" /\ hcall' = "in" /\ input # <<>>
      /\ UNCHANGED <<outpt, file, scriptptr, count, seg, got>> /\ AllSent' = AllSent
  BY DEF HttpInv, ReadWord, AllSent, wire
<1>2. \/ inpt = "method" /\ inpt' = "path" /\ UNCHANGED <<http, output, filename>>
      \/ inpt = "path" /\ inpt' = "lines" /\ output' = TRUE /\ http' = http
      \/ inpt = "lines" /\ inpt' = "lines" /\ UNCHANGED <<http, output, filename>>
      \/ /\ inpt # "lines" /\ inpt' = "method" /\ http' = "closing" /\ input' = <<>>
         /\ UNCHANGED <<output, filename>>
  BY DEF ReadWord, Refuse
<1>3. http # "closing"
  BY <1>1 DEF HttpBase
<1>4. /\ got \in Texts /\ seg \in Texts
      /\ inpt \in {"method", "path", "lines"} /\ output = (inpt = "lines")
      /\ ~output => AllSent = <<>> /\ outpt = "start"
      /\ http = "up" /\ outpt = "start" => AllSent = <<>>
  BY <1>1 DEF HttpBase
<1>5. HttpBase'
  BY <1>1, <1>2, <1>3, <1>4 DEF HttpBase
<1>6. CASE output
  <2>1. filename' = filename
    BY <1>2, <1>4, <1>6
  <2>2. UNCHANGED outState
    BY <1>1, <2>1 DEF outState
  <2>3. Phase'
    BY <1>1, <2>2, AnswerStays
  <2> QED
    BY <1>5, <2>3 DEF HttpInv
<1>7. CASE ~output
  <2>1. NotBegun'
    BY <1>1, <1>4, <1>7 DEF NotBegun
  <2> QED
    BY <1>5, <2>1 DEF HttpInv, Phase
<1> QED
  BY <1>6, <1>7

(* The input thread is done, and the output thread may run.                *)
LEMMA InputDoneInv == ASSUME HttpInv, InputDone PROVE HttpInv'
<1>1. /\ HttpBase /\ Phase /\ input = <<>>
      /\ UNCHANGED <<http, input, inpt, output, seg, got>> /\ UNCHANGED outState /\ AllSent' = AllSent
      /\ hcall' = "out" => output /\ seg = <<>> /\ http = "up"
  BY DEF HttpInv, InputDone, AllSent, wire
<1>2. outpt' = outpt
  BY <1>1 DEF outState
<1>3. HttpBase'
  BY <1>1, <1>2 DEF HttpBase
<1>4. Phase'
  BY <1>1, AnswerStays
<1> QED
  BY <1>3, <1>4 DEF HttpInv

(* Which phase the output thread is in                                     *)
LEMMA PhaseIs ==
    ASSUME HttpInv, hcall = "out"
    PROVE  /\ HttpBase
           /\ outpt = "start" => AllSent = <<>>
           /\ outpt = "headers" => AtHeaders
           /\ outpt = "file" => InFile
           /\ outpt = "script" => \E p \in 0 .. Len(Asked) : InScript(p)
           /\ outpt \in {"include", "tcp", "null", "next", "net"} => \E c \in 1 .. Len(Asked) : InCall(c)
           /\ outpt = "end" => AtEnd
<1>1. HttpBase /\ Phase
  BY DEF HttpInv
<1>2. outpt = "start" => AllSent = <<>>
  BY <1>1 DEF HttpBase
<1>3. /\ NotBegun => outpt = "start"
      /\ AtHeaders => outpt = "headers"
      /\ InFile => outpt = "file"
      /\ AtEnd => outpt = "end"
      /\ \A p : InScript(p) => outpt = "script"
      /\ \A c : InCall(c) => outpt \in {"include", "tcp", "null", "next", "net"}
  BY DEF NotBegun, AtHeaders, InFile, AtEnd, InScript, InCall
<1>4. /\ outpt = "headers" => AtHeaders
      /\ outpt = "file" => InFile
      /\ outpt = "script" => \E p \in 0 .. Len(Asked) : InScript(p)
      /\ outpt \in {"include", "tcp", "null", "next", "net"} => \E c \in 1 .. Len(Asked) : InCall(c)
      /\ outpt = "end" => AtEnd
  BY <1>1, <1>3 DEF Phase
<1> QED
  BY <1>1, <1>2, <1>4

(* The file that is served, and its page                                   *)
LEMMA AskedIs ==
    ASSUME filename \in DOMAIN Files
    PROVE  /\ Asked \in Texts /\ NoRow(Asked) /\ Len(Asked) \in Nat /\ Asked = Files[filename]
           /\ IsWritten(Written(Asked), Asked)
           /\ filename \in Scripts => Page(filename) = Written(Asked)[Len(Asked)]
           /\ filename \notin Scripts => Page(filename) = Asked
<1>1. Asked \in Texts /\ NoRow(Asked) /\ Asked = Files[filename]
  BY FileUnits DEF Asked
<1>2. Len(Asked) \in Nat
  BY <1>1 DEF Texts
<1>3. IsWritten(Written(Asked), Asked)
  BY <1>1, WrittenIs
<1> QED
  BY <1>1, <1>2, <1>3 DEF Page

(* What a step of the output thread leaves alone                           *)
LEMMA OutLeaves ==
    ASSUME HttpInv, hcall = "out", UNCHANGED outRest, http' = http, seg' \in Texts,
           hcall' = "out" => seg' = <<>>, outpt' # "start"
    PROVE  HttpBase'
<1>1. got' = got /\ UNCHANGED <<inpt, output, input, http>>
  BY DEF outRest
<1> QED
  BY <1>1, PhaseIs, OutKeeps

(* handle_output finds the file, or the 404 page, and sends the status.    *)
LEMMA OpenFileInv == ASSUME HttpInv, OpenFile PROVE HttpInv'
<1> DEFINE u == <<IF filename \in DOMAIN Files THEN "200" ELSE "404">>
           name == IF filename \in DOMAIN Files THEN filename ELSE NotFound
<1>1. /\ hcall = "out" /\ outpt = "start" /\ filename' = name /\ file' = Files[name] /\ seg' = u
      /\ hcall' = "no" /\ http' = http /\ outpt' = "headers" /\ UNCHANGED outRest
  BY Zenon DEF OpenFile, Running, GivesSeg
<1>2. HttpBase /\ AllSent = <<>> /\ got \in Texts /\ seg = <<>> /\ got' = got
  BY <1>1, PhaseIs DEF HttpBase, outRest
<1>3. name \in DOMAIN Files
  BY FilesAssumption
<1>4. u \in Texts /\ NoRow(u) /\ u # <<>> /\ u[1] \in {"200", "404"} /\ u = <<u[1]>>
  <2>1. PICK v : v = IF filename \in DOMAIN Files THEN "200" ELSE "404"
    OBVIOUS
  <2>2. v \in PageUnits /\ v # "row" /\ v \in {"200", "404"}
    BY <2>1 DEF PageUnits
  <2>3. <<v>> \in Texts /\ Len(<<v>>) = 1 /\ <<v>>[1] = v
    BY <2>2, OneUnit DEF Texts
  <2>4. NoRow(<<v>>) /\ <<v>> # <<>>
    BY <2>2, <2>3 DEF NoRow
  <2>5. u = <<v>>
    BY <2>1
  <2> QED
    BY <2>2, <2>3, <2>4, <2>5
<1> HIDE DEF u, name
<1>5. AllSent' = AllSent \o u /\ AllSent \in Texts
  BY <1>1, <1>2, <1>4, SegmentGiven
<1>6. AllSent' = u
  BY <1>2, <1>4, <1>5, ConcatEmptySeq DEF Texts
<1>7. SentText' = u
  BY <1>4, <1>6, RowsNone DEF SentText
<1>8. HttpBase'
  <2>1. outpt' # "start" /\ hcall' # "out" /\ seg' \in Texts
    BY <1>1, <1>4
  <2> QED
    BY <1>1, <2>1, OutLeaves
<1>9. AtHeaders'
  BY <1>1, <1>3, <1>4, <1>6, <1>7 DEF AtHeaders, Answering, Asked
<1> QED
  BY <1>8, <1>9 DEF HttpInv, Phase

(* A step that hands over a segment without rows while the answer goes on  *)
LEMMA AnswerGrows ==
    ASSUME HttpInv, hcall = "out", Answering, UNCHANGED outRest, filename' = filename,
           NEW u \in Texts, seg' = u
    PROVE  /\ SentText \in Texts /\ SentText' = SentText \o WithoutRows(u)
           /\ Answering' /\ Asked' = Asked /\ Opening' = Opening
<1>1. HttpBase /\ got \in Texts /\ seg = <<>> /\ got' = got
  BY PhaseIs DEF HttpBase, outRest
<1>2. AllSent # <<>> /\ filename \in DOMAIN Files
  BY DEF Answering
<1>3. /\ SentText \in Texts /\ SentText' = SentText \o WithoutRows(u)
      /\ AllSent' # <<>> /\ AllSent'[1] = AllSent[1]
  BY <1>1, <1>2, SegmentGiven
<1> QED
  BY <1>3, AnswerGoesOn

(* A step that hands over nothing                                          *)
LEMMA AnswerWaits ==
    ASSUME HttpInv, hcall = "out", Answering, UNCHANGED outRest, filename' = filename, seg' = seg
    PROVE  /\ SentText \in Texts /\ SentText' = SentText /\ seg' \in Texts /\ seg' = <<>>
           /\ Answering' /\ Asked' = Asked /\ Opening' = Opening
<1>1. HttpBase /\ got' = got
  BY PhaseIs DEF outRest
<1>2. AllSent' = AllSent /\ SentText' = SentText /\ seg' = <<>> /\ seg' \in Texts /\ SentText \in Texts
  BY <1>1, NothingGiven
<1>3. AllSent' # <<>> /\ AllSent'[1] = AllSent[1]
  BY <1>2 DEF Answering
<1> QED
  BY <1>2, <1>3, AnswerGoesOn

(* send_headers                                                            *)
LEMMA SendTypeInv == ASSUME HttpInv, SendType PROVE HttpInv'
<1> DEFINE u == <<"type">>
<1>1. /\ hcall = "out" /\ outpt = "headers" /\ seg' = u /\ hcall' = "no" /\ http' = http
      /\ outpt' = IF filename \in Scripts THEN "script" ELSE "file"
      /\ filename' = filename /\ file' = file /\ UNCHANGED outRest
  BY Zenon DEF SendType, Running, GivesSeg
<1>2. /\ AtHeaders /\ Answering /\ filename \in DOMAIN Files /\ file = Asked
      /\ SentText = <<AllSent[1]>> /\ AllSent[1] \in {"200", "404"}
  BY <1>1, PhaseIs DEF AtHeaders, Answering
<1>3. u \in Texts /\ NoRow(u)
  <2>1. "type" \in PageUnits /\ "type" # "row"
    BY DEF PageUnits
  <2> QED
    BY <2>1, OneUnit DEF Texts, NoRow
<1>4. /\ SentText' = SentText \o WithoutRows(u) /\ WithoutRows(u) = u
      /\ Answering' /\ Asked' = Asked /\ Opening' = Opening
  BY <1>1, <1>2, <1>3, AnswerGrows, RowsNone, Zenon
<1>5. SentText' = Opening /\ Opening \in Texts
  <2>1. AllSent[1] \in PageUnits /\ "type" \in PageUnits
    BY <1>2 DEF PageUnits
  <2>2. <<AllSent[1]>> \o <<"type">> = <<AllSent[1], "type">> /\ <<AllSent[1], "type">> \in Seq(PageUnits)
    BY <2>1, OneUnit
  <2> QED
    BY <1>2, <1>4, <2>2, Zenon DEF Opening, Texts
<1>6. HttpBase'
  <2>1. outpt' # "start" /\ hcall' # "out" /\ seg' \in Texts
    BY <1>1, <1>3
  <2> QED
    BY <1>1, <2>1, OutLeaves
<1>7. /\ Asked \in Texts /\ NoRow(Asked) /\ Len(Asked) \in Nat
      /\ Written(Asked)[0] = <<>>
  BY <1>2, AskedIs DEF IsWritten
<1>8. CASE filename \in Scripts
  <2>1. From(Asked, 0) = Asked
    BY <1>7 DEF From, Texts
  <2>2. Fresh(Asked, 0)
    BY DEF Fresh
  <2>3. <<>> \in Texts /\ Opening \o <<>> = Opening
    BY <1>5, ConcatEmptySeq DEF Texts
  <2>4. UpTo(<<>>, 0)'
    BY <1>4, <1>5, <1>7, <2>3, Zenon DEF UpTo
  <2>5. Fresh(Asked, 0)' /\ From(Asked, 0)' = Asked
    BY <1>4, <2>1, <2>2, Zenon
  <2>6. InScript(0)'
    BY <1>1, <1>2, <1>4, <1>8, <2>4, <2>5, Zenon DEF InScript
  <2>7. 0 \in 0 .. Len(Asked')
    BY <1>4, <1>7
  <2> QED
    BY <1>6, <2>6, <2>7, Zenon DEF HttpInv, Phase
<1>9. CASE filename \notin Scripts
  <2>1. InFile'
    BY <1>1, <1>2, <1>4, <1>5, <1>7, <1>9, Zenon DEF InFile
  <2> QED
    BY <1>6, <2>1 DEF HttpInv, Phase
<1> QED
  BY <1>8, <1>9

(* A part of a text without rows, and the rest of it, have none.           *)
LEMMA CutPlain ==
    ASSUME NEW s \in Texts, NoRow(s), NEW n \in 0 .. Len(s)
    PROVE  /\ SubSeq(s, 1, n) \in Texts /\ NoRow(SubSeq(s, 1, n))
           /\ From(s, n) \in Texts /\ NoRow(From(s, n))
           /\ s = SubSeq(s, 1, n) \o From(s, n)
<1>1. /\ SubSeq(s, 1, n) \in Texts /\ From(s, n) \in Texts /\ s = SubSeq(s, 1, n) \o From(s, n)
      /\ Len(SubSeq(s, 1, n)) = n /\ \A i \in 1 .. n : SubSeq(s, 1, n)[i] = s[i]
  BY CutIn DEF Texts
<1>2. RestIs(From(s, n), s, n) /\ Len(s) \in Nat
  BY RestBehind DEF Texts
<1>3. NoRow(SubSeq(s, 1, n))
  <2>1. \A i \in 1 .. n : i \in 1 .. Len(s)
    BY <1>2
  <2> QED
    BY <1>1, <2>1 DEF NoRow
<1>4. NoRow(From(s, n))
  <2>1. \A i \in 1 .. Len(s) - n : n + i \in 1 .. Len(s)
    BY <1>2
  <2> QED
    BY <1>2, <2>1 DEF NoRow, RestIs
<1> QED
  BY <1>1, <1>3, <1>4

(* A segment of at most the largest size                                   *)
LEMMA SegmentSize ==
    ASSUME NEW n \in Nat
    PROVE  /\ Fewer(n, HttpMss) \in 0 .. n
           /\ n # 0 => Fewer(n, HttpMss) # 0
BY FilesAssumption DEF Fewer

(* What goes before a page                                                 *)
LEMMA OpeningTyped == ASSUME Answering PROVE Opening \in Texts
<1>1. AllSent[1] \in PageUnits /\ "type" \in PageUnits
  BY DEF Answering, PageUnits
<1> QED
  BY <1>1, OneUnit DEF Opening, Texts

(* Further units are still to do.                                          *)
LEMMA MoreToDo ==
    ASSUME SentText \in Texts, Answering, NEW p, NEW q, NEW w, w = Written(Asked), w[p] \in Texts,
           UpTo(<<>>, p), NEW u \in Texts, w[q] = w[p] \o u
    PROVE  UpTo(u, q)
<1>1. SentText = Opening \o w[p]
  <2>1. SentText \o <<>> = SentText
    BY ConcatEmptySeq DEF Texts
  <2> QED
    BY <2>1 DEF UpTo
<1>2. PICK o \in Texts : o = Opening
  BY OpeningTyped
<1>3. (o \o w[p]) \o u = o \o (w[p] \o u)
  <2>1. Joins(o, w[p], u)
    BY <1>2, TextsJoin
  <2> QED
    BY <2>1 DEF Joins
<1> QED
  BY <1>1, <1>2, <1>3, Zenon DEF UpTo

(* What was to do has been done.                                           *)
LEMMA AllDone ==
    ASSUME SentText \in Texts, NEW u \in Texts, NEW n, UpTo(u, n),
           SentText' = SentText \o u, Asked' = Asked, Opening' = Opening
    PROVE  UpTo(<<>>, n)'
<1>1. u \o <<>> = u /\ <<>> \in Texts
  BY ConcatEmptySeq DEF Texts
<1>2. UpTo(u \o <<>>, n)
  BY <1>1
<1> QED
  BY <1>1, <1>2, PartDone

(* What is to do stays to do.                                              *)
LEMMA StillToDo ==
    ASSUME NEW u, NEW n, UpTo(u, n), SentText' = SentText, Asked' = Asked, Opening' = Opening
    PROVE  UpTo(u, n)'
BY Zenon DEF UpTo

(* send_file: the next part of the file                                    *)
LEMMA SendFileInv == ASSUME HttpInv, SendFile PROVE HttpInv'
<1>1. /\ hcall = "out" /\ outpt \in {"file", "include"} /\ filename' = filename /\ UNCHANGED outRest
      /\ http' = http
  BY DEF SendFile, Running, GivesSeg, Goes
<1>2. CASE file # <<>>
  <2> DEFINE n == Fewer(Len(file), HttpMss)
  <2>1. /\ seg' = SubSeq(file, 1, n) /\ hcall' = "no" /\ file' = From(file, n)
        /\ outpt' = outpt /\ scriptptr' = scriptptr
    BY <1>2 DEF SendFile, GivesSeg
  <2>2. file \in Texts /\ NoRow(file) /\ Answering
    BY <1>1, PhaseIs DEF InFile, InCall, UpTo
  <2>3. n \in 0 .. Len(file)
    <3>1. Len(file) \in Nat
      BY <2>2 DEF Texts
    <3> QED
      BY <3>1, SegmentSize
  <2>4. PICK u : u = SubSeq(file, 1, n)
    OBVIOUS
  <2>5. PICK t : t = From(file, n)
    OBVIOUS
  <2>6. u \in Texts /\ NoRow(u) /\ t \in Texts /\ NoRow(t) /\ file = u \o t
    BY <2>2, <2>3, <2>4, <2>5, CutPlain
  <2>7. seg' = u /\ file' = t
    BY <2>1, <2>4, <2>5
  <2> HIDE DEF n
  <2>8. /\ SentText \in Texts /\ SentText' = SentText \o u
        /\ Answering' /\ Asked' = Asked /\ Opening' = Opening
    BY <1>1, <2>2, <2>6, <2>7, AnswerGrows, RowsNone, Zenon
  <2>9. HttpBase'
    <3>1. outpt' # "start" /\ hcall' # "out" /\ seg' \in Texts
      BY <1>1, <2>1, <2>6, <2>7
    <3> QED
      BY <1>1, <3>1, OutLeaves
  <2>10. CASE outpt = "file"
    <3>1. InFile
      BY <1>1, <2>10, PhaseIs
    <3>2. (SentText \o u) \o t = SentText \o (u \o t)
      <4>1. Joins(SentText, u, t)
        BY <2>6, <2>8, TextsJoin
      <4> QED
        BY <4>1 DEF Joins
    <3>3. InFile'
      BY <1>1, <2>1, <2>6, <2>7, <2>8, <3>1, <3>2, Zenon DEF InFile
    <3> QED
      BY <2>9, <3>3 DEF HttpInv, Phase
  <2>11. CASE outpt = "include"
    <3>1. PICK c \in 1 .. Len(Asked) : InCall(c)
      BY <1>1, <2>11, PhaseIs
    <3>2. UpTo(file, c) /\ filename \in Scripts /\ IsCall(Asked[c]) /\ scriptptr = From(Asked, c)
      BY <2>11, <3>1 DEF InCall
    <3>3. UpTo(t, c)'
      <4>1. UpTo(u \o t, c)
        BY <2>6, <3>2
      <4> QED
        BY <2>6, <2>8, <4>1, PartDone
    <3>4. InCall(c)'
      BY <1>1, <2>1, <2>6, <2>7, <2>8, <2>11, <3>2, <3>3, Zenon DEF InCall, UpTo
    <3>5. c \in 1 .. Len(Asked')
      BY <2>8, <3>1
    <3> QED
      BY <2>9, <3>4, <3>5, Zenon DEF HttpInv, Phase
  <2> QED
    BY <1>1, <2>10, <2>11
<1>3. CASE file = <<>>
  <2>1. /\ seg' = seg /\ scriptptr' = scriptptr
        /\ outpt' = IF outpt = "file" THEN "end" ELSE "next"
    BY <1>3 DEF SendFile, Goes
  <2>2. Answering /\ filename \in DOMAIN Files
    BY <1>1, PhaseIs DEF InFile, InCall, Answering
  <2>3. /\ SentText \in Texts /\ SentText' = SentText /\ seg' \in Texts /\ seg' = <<>>
        /\ Answering' /\ Asked' = Asked /\ Opening' = Opening
    BY <1>1, <2>1, <2>2, AnswerWaits
  <2>4. HttpBase'
    <3>1. outpt' # "start"
      BY <2>1
    <3> QED
      BY <1>1, <2>3, <3>1, OutLeaves
  <2>5. CASE outpt = "file"
    <3>1. filename \notin Scripts /\ SentText \o <<>> = Opening \o Asked
      BY <1>1, <1>3, <2>5, PhaseIs DEF InFile
    <3>2. SentText \o <<>> = SentText
      BY <2>3, ConcatEmptySeq DEF Texts
    <3>3. Page(filename) = Asked
      BY <2>2, <3>1, AskedIs
    <3>4. AtEnd'
      BY <1>1, <2>1, <2>3, <2>5, <3>1, <3>2, <3>3, Zenon DEF AtEnd, Answered
    <3> QED
      BY <2>4, <3>4 DEF HttpInv, Phase
  <2>6. CASE outpt = "include"
    <3>1. PICK c \in 1 .. Len(Asked) : InCall(c)
      BY <1>1, <2>6, PhaseIs
    <3>2. UpTo(<<>>, c) /\ filename \in Scripts /\ IsCall(Asked[c]) /\ scriptptr = From(Asked, c)
      BY <1>3, <2>6, <3>1 DEF InCall
    <3>3. UpTo(<<>>, c)'
      BY <2>3, <3>2, StillToDo
    <3>4. outpt' = "next"
      BY <2>1, <2>6
    <3>5. InCall(c)'
      BY <1>1, <2>1, <2>3, <3>2, <3>3, <3>4 DEF InCall
    <3>6. c \in 1 .. Len(Asked')
      BY <2>3, <3>1
    <3> QED
      BY <2>4, <3>5, <3>6, Zenon DEF HttpInv, Phase
  <2> QED
    BY <1>1, <2>5, <2>6
<1> QED
  BY <1>2, <1>3

(* What InScript and InCall say, with the page as a value                  *)
LEMMA ScriptIs ==
    ASSUME HttpInv, hcall = "out", outpt = "script"
    PROVE  \E p \in 0 .. Len(Asked) :
              /\ Answering /\ filename \in Scripts /\ filename \in DOMAIN Files /\ file = From(Asked, p)
              /\ p = Len(Asked) \/ Fresh(Asked, p)
              /\ UpTo(<<>>, p)
<1>1. PICK p \in 0 .. Len(Asked) : InScript(p)
  BY PhaseIs
<1> QED
  BY <1>1 DEF InScript, Answering

(* handle_script: a script call begins.                                    *)
LEMMA StartScriptInv == ASSUME HttpInv, StartScript PROVE HttpInv'
<1>1. /\ hcall = "out" /\ outpt = "script" /\ file # <<>> /\ IsCall(Head(file))
      /\ scriptptr' = Tail(file) /\ count' = 0 /\ seg' = seg /\ http' = http
      /\ Head(file) \in Includes => outpt' = "include" /\ file' = Files[Head(file)]
      /\ Head(file) \notin Includes => outpt' = Head(file) /\ file' = file
      /\ filename' = filename /\ UNCHANGED outRest
  BY Zenon DEF StartScript, Running, Goes
<1>2. PICK s : s = Asked
  OBVIOUS
<1>3. PICK p \in 0 .. Len(s) :
        /\ Answering /\ filename \in Scripts /\ filename \in DOMAIN Files /\ file = From(s, p)
        /\ p = Len(s) \/ Fresh(s, p)
        /\ UpTo(<<>>, p)
  BY <1>1, <1>2, ScriptIs
<1>4. s \in Texts /\ NoRow(s) /\ Len(s) \in Nat
  BY <1>2, <1>3, AskedIs
<1>5. PICK c : c = p + 1
  OBVIOUS
<1>6. c \in 1 .. Len(s) /\ Head(file) = s[c] /\ Tail(file) = From(s, c) /\ c - 1 = p
  <2>1. p # Len(s) /\ Head(From(s, p)) = s[p + 1] /\ Tail(From(s, p)) = From(s, p + 1)
    BY <1>1, <1>3, <1>4, NextUnit DEF Texts
  <2> QED
    BY <1>3, <1>4, <1>5, <2>1
<1>7. PICK w : w = Written(s)
  OBVIOUS
<1>8. w[p] \in Texts /\ w[c] = w[p] \o Shown(s, c)
  BY <1>3, <1>4, <1>6, <1>7, WrittenIs DEF IsWritten
<1>9. PICK u : u = Shown(s, c)
  OBVIOUS
<1>10. u \in Texts /\ NoRow(u)
  BY <1>4, <1>6, <1>9, ShownTyped
<1>11. /\ SentText \in Texts /\ SentText' = SentText /\ seg' \in Texts /\ seg' = <<>>
       /\ Answering' /\ Asked' = Asked /\ Opening' = Opening
  BY <1>1, <1>3, AnswerWaits
<1>12. UpTo(u, c)
  BY <1>2, <1>3, <1>7, <1>8, <1>9, <1>10, <1>11, MoreToDo
<1>13. UpTo(u, c)'
  BY <1>11, <1>12, StillToDo
<1>14. HttpBase'
  <2>1. outpt' # "start"
    BY <1>1, MarksApart DEF Functions
  <2> QED
    BY <1>1, <1>11, <2>1, OutLeaves
<1>15. /\ filename' \in Scripts /\ Asked' = s /\ IsCall(s[c]) /\ scriptptr' = From(s, c)
  BY <1>1, <1>2, <1>3, <1>6, <1>11
<1>16. CASE s[c] \in Includes
  <2>1. u = Files[s[c]]
    BY <1>1, <1>4, <1>6, <1>9, <1>16, CallShown
  <2>2. outpt' = "include" /\ file' = u
    BY <1>1, <1>6, <1>16, <2>1
  <2>3. InCall(c)'
    BY <1>10, <1>11, <1>13, <1>15, <2>2, Zenon DEF InCall, UpTo
  <2> QED
    BY <1>6, <1>14, <1>15, <2>3, Zenon DEF HttpInv, Phase
<1>17. CASE s[c] \notin Includes
  <2>1. u = IF s[c] = "net" THEN Numbers(NumStats) ELSE <<>>
    BY <1>1, <1>4, <1>6, <1>9, <1>17, CallShown
  <2>2. outpt' = s[c] /\ s[c] \in {"tcp", "net", "null"}
    BY <1>1, <1>6, <1>17, MarksApart DEF Functions
  <2>3. ASSUME s[c] = "net" PROVE count' \in 0 .. NumStats /\ UpTo(Numbers(NumStats - count), c)'
    <3>1. count' \in 0 .. NumStats /\ NumStats - count' = NumStats
      BY <1>1, FilesAssumption
    <3>2. Numbers(NumStats - count') = u
      BY <2>1, <2>3, <3>1
    <3> QED
      BY <1>13, <3>1, <3>2, Zenon DEF UpTo
  <2>4. ASSUME s[c] # "net" PROVE UpTo(<<>>, c)'
    BY <1>13, <2>1, <2>4
  <2>5. InCall(c)'
    <3>1. CASE s[c] = "net"
      BY <1>11, <1>15, <2>2, <2>3, <3>1, Zenon DEF InCall
    <3>2. CASE s[c] # "net"
      <4>1. outpt' \in {"tcp", "null", "next"}
        BY <2>2, <3>2
      <4> QED
        BY <1>11, <1>15, <2>4, <3>2, <4>1, Zenon DEF InCall
    <3> QED
      BY <3>1, <3>2
  <2> QED
    BY <1>6, <1>14, <1>15, <2>5, Zenon DEF HttpInv, Phase
<1> QED
  BY <1>16, <1>17

(* How far SendPart goes: at least one unit, and to no call                *)
Unmarked(s) ==
    LET marks == {i \in 2 .. Len(s) : s[i] \in Special}
    IN  IF marks = {} THEN Len(s) ELSE (CHOOSE i \in marks : \A j \in marks : i <= j) - 1
LEMMA PartEnds ==
    ASSUME NEW s \in Texts, s # <<>>, ~IsCall(Head(s))
    PROVE  Unmarked(s) \in 1 .. Len(s) /\ \A i \in 1 .. Unmarked(s) : ~IsCall(s[i])
<1> DEFINE marks == {i \in 2 .. Len(s) : s[i] \in Special}
           upto == Unmarked(s)
<1>0. upto = IF marks = {} THEN Len(s) ELSE (CHOOSE i \in marks : \A j \in marks : i <= j) - 1
  BY DEF Unmarked
<1> HIDE DEF upto
<1>1. Len(s) \in Nat /\ Len(s) # 0 /\ Head(s) = s[1]
  BY DEF Texts
<1>2. upto \in 1 .. Len(s) /\ \A i \in 2 .. upto : i \notin marks
  <2>1. CASE marks = {}
    <3> HIDE DEF marks
    <3> QED
      BY <1>0, <1>1, <2>1
  <2>2. CASE marks # {}
    <3>1. \E i \in marks : \A j \in marks : i <= j
      <4>1. marks \in SUBSET Nat
        OBVIOUS
      <4> HIDE DEF marks
      <4> QED
        BY <2>2, <4>1, LeastIn
    <3> DEFINE m == CHOOSE i \in marks : \A j \in marks : i <= j
    <3>2. m \in marks /\ \A j \in marks : m <= j
      <4> HIDE DEF marks
      <4> QED
        BY <3>1
    <3>3. upto = m - 1
      <4> HIDE DEF marks
      <4> QED
        BY <1>0, <2>2
    <3> HIDE DEF m
    <3>4. m \in 2 .. Len(s)
      BY <3>2
    <3>5. \A i \in 2 .. upto : ~(m <= i)
      BY <1>1, <3>3, <3>4
    <3>6. \A i \in 2 .. upto : i \notin marks
      <4> HIDE DEF marks
      <4> QED
        BY <3>2, <3>5
    <3> HIDE DEF marks
    <3> QED
      BY <1>1, <3>3, <3>4, <3>6
  <2> QED
    BY <2>1, <2>2
<1>3. ASSUME NEW i \in 1 .. upto PROVE ~IsCall(s[i])
  <2>1. CASE i = 1
    BY <1>1, <2>1
  <2>2. CASE i # 1
    <3>1. i \in 2 .. upto /\ i \in 2 .. Len(s)
      <4> HIDE DEF marks
      <4> QED
        BY <1>1, <1>2, <1>3, <2>2
    <3>2. s[i] \notin Special
      BY <1>2, <3>1
    <3> QED
      BY <3>2 DEF IsCall
  <2> QED
    BY <2>1, <2>2
<1>4. upto \in 1 .. Len(s)
  BY <1>2
<1> QED
  BY <1>3, <1>4 DEF upto

(* handle_script: the text up to the next call.                            *)
LEMMA SendPartInv == ASSUME HttpInv, SendPart PROVE HttpInv'
<1>0. PICK upto : upto = Unmarked(file)
  OBVIOUS
<1>1. /\ hcall = "out" /\ outpt = "script" /\ file # <<>> /\ ~IsCall(Head(file))
      /\ seg' = SubSeq(file, 1, Fewer(upto, HttpMss)) /\ file' = From(file, Fewer(upto, HttpMss))
      /\ hcall' = "no" /\ http' = http /\ outpt' = "script" /\ filename' = filename /\ UNCHANGED outRest
  <2>1. /\ seg' = SubSeq(file, 1, Fewer(Unmarked(file), HttpMss))
        /\ file' = From(file, Fewer(Unmarked(file), HttpMss)) /\ hcall' = "no" /\ http' = http
    BY DEF SendPart, GivesSeg, Unmarked
  <2>2. /\ hcall = "out" /\ outpt = "script" /\ file # <<>> /\ ~IsCall(Head(file))
        /\ outpt' = outpt /\ filename' = filename /\ UNCHANGED outRest
    BY DEF SendPart, Running
  <2> QED
    BY <1>0, <2>1, <2>2, Zenon
<1>2. PICK s : s = Asked
  OBVIOUS
<1>3. PICK p \in 0 .. Len(s) :
        /\ Answering /\ filename \in Scripts /\ filename \in DOMAIN Files /\ file = From(s, p)
        /\ p = Len(s) \/ Fresh(s, p)
        /\ UpTo(<<>>, p)
  BY <1>1, <1>2, ScriptIs
<1>4. s \in Texts /\ NoRow(s) /\ Len(s) \in Nat
  BY <1>2, <1>3, AskedIs
<1>5. PICK r : r = From(s, p)
  OBVIOUS
<1>6. /\ r \in Texts /\ NoRow(r) /\ RestIs(r, s, p) /\ file = r /\ r # <<>> /\ p # Len(s) /\ Fresh(s, p)
      /\ Len(r) = Len(s) - p
  <2>1. r \in Texts /\ NoRow(r)
    BY <1>3, <1>4, <1>5, CutPlain
  <2>2. RestIs(r, s, p)
    BY <1>3, <1>4, <1>5, RestBehind DEF Texts
  <2>3. file = r /\ r # <<>>
    BY <1>1, <1>3, <1>5
  <2>4. p # Len(s)
    BY <1>3, <1>4, <1>5, <2>3, NextUnit DEF Texts
  <2> QED
    BY <1>3, <2>1, <2>2, <2>3, <2>4 DEF RestIs
<1>7. upto \in 1 .. Len(r) /\ \A i \in 1 .. upto : ~IsCall(r[i])
  BY <1>0, <1>1, <1>6, PartEnds
<1>8. PICK n : n = Fewer(upto, HttpMss)
  OBVIOUS
<1>9. n \in 0 .. Len(r) /\ \A i \in 1 .. n : ~IsCall(r[i])
  <2>1. upto \in Nat /\ n \in 0 .. upto
    <3>1. upto \in Nat
      BY <1>7
    <3> QED
      BY <1>8, <3>1, SegmentSize
  <2> QED
    BY <1>6, <1>7, <2>1 DEF Texts
<1>10. PICK u : u = SubSeq(r, 1, n)
  OBVIOUS
<1>11. PICK q : q = p + n
  OBVIOUS
<1>12. seg' = u /\ file' = From(r, n)
  BY <1>1, <1>6, <1>8, <1>10
<1>13. n \in 0 .. Len(s) - p /\ q \in 0 .. Len(s) /\ \A i \in p + 1 .. q : ~IsCall(s[i])
  <2>1. n \in 0 .. Len(s) - p /\ q \in 0 .. Len(s) /\ p \in Nat /\ n \in Nat
    BY <1>4, <1>6, <1>9, <1>11
  <2>2. ASSUME NEW i \in p + 1 .. q PROVE ~IsCall(s[i])
    <3>1. PICK j : j = i - p
      OBVIOUS
    <3>2. j \in 1 .. n /\ j \in 1 .. Len(s) - p /\ p + j = i
      BY <1>4, <1>11, <2>1, <2>2, <3>1
    <3>3. r[j] = s[i]
      BY <1>6, <3>2 DEF RestIs
    <3> QED
      BY <1>9, <3>2, <3>3
  <2> QED
    BY <2>1, <2>2
<1>14. (\A i \in p + 1 .. q : Shown(s, i) = <<s[i]>>) /\ Fresh(s, q)
  BY <1>3, <1>4, <1>6, <1>11, <1>13, FreshLine
<1>15. PICK w : w = Written(s)
  OBVIOUS
<1>16. w[p] \in Texts /\ w[q] = w[p] \o u
  <2>1. w[p] \in Texts
    BY <1>3, <1>4, <1>15, WrittenIs DEF IsWritten
  <2> QED
    BY <1>3, <1>4, <1>5, <1>10, <1>11, <1>13, <1>14, <1>15, <2>1, WrittenPlain
<1>17. From(r, n) = From(s, q)
  BY <1>3, <1>4, <1>5, <1>11, <1>13, RestOfRest DEF Texts
<1>18. u \in Texts /\ NoRow(u)
  BY <1>6, <1>9, <1>10, CutPlain
<1>19. /\ SentText \in Texts /\ SentText' = SentText \o u
       /\ Answering' /\ Asked' = Asked /\ Opening' = Opening
  BY <1>1, <1>3, <1>12, <1>18, AnswerGrows, RowsNone, Zenon
<1>20. UpTo(<<>>, q)'
  <2>1. UpTo(u, q)
    BY <1>2, <1>3, <1>15, <1>16, <1>18, <1>19, MoreToDo
  <2> QED
    BY <1>18, <1>19, <2>1, AllDone
<1>21. HttpBase'
  <2>1. outpt' # "start" /\ hcall' # "out" /\ seg' \in Texts
    BY <1>1, <1>12, <1>18
  <2> QED
    BY <1>1, <2>1, OutLeaves
<1>22. InScript(q)'
  <2>1. Asked' = s /\ filename' \in Scripts /\ file' = From(s, q)
    BY <1>1, <1>2, <1>3, <1>12, <1>17, <1>19
  <2> QED
    BY <1>1, <1>14, <1>19, <1>20, <2>1, Zenon DEF InScript
<1>23. q \in 0 .. Len(Asked')
  BY <1>2, <1>13, <1>19
<1> QED
  BY <1>21, <1>22, <1>23, Zenon DEF HttpInv, Phase

(* handle_script: the file is done.                                        *)
LEMMA ScriptDoneInv == ASSUME HttpInv, ScriptDone PROVE HttpInv'
<1>1. /\ hcall = "out" /\ outpt = "script" /\ file = <<>> /\ outpt' = "end"
      /\ seg' = seg /\ http' = http /\ filename' = filename /\ UNCHANGED outRest
  BY DEF ScriptDone, Running, Goes
<1>2. PICK p \in 0 .. Len(Asked) :
        /\ Answering /\ filename \in Scripts /\ filename \in DOMAIN Files /\ file = From(Asked, p)
        /\ UpTo(<<>>, p)
  BY <1>1, ScriptIs
<1>3. p = Len(Asked)
  <2>1. Asked \in Seq(PageUnits)
    BY <1>2, AskedIs DEF Texts
  <2> QED
    BY <1>1, <1>2, <2>1, NextUnit
<1>4. /\ SentText \in Texts /\ SentText' = SentText /\ seg' \in Texts /\ seg' = <<>>
      /\ Answering' /\ Asked' = Asked /\ Opening' = Opening
  BY <1>1, <1>2, AnswerWaits
<1>5. SentText = Opening \o Page(filename)
  <2>1. SentText \o <<>> = SentText
    BY <1>4, ConcatEmptySeq DEF Texts
  <2>2. SentText \o <<>> = Opening \o Written(Asked)[p]
    BY <1>2 DEF UpTo
  <2>3. Page(filename) = Written(Asked)[p]
    BY <1>2, <1>3, AskedIs
  <2> QED
    BY <2>1, <2>2, <2>3, Zenon
<1>6. HttpBase'
  <2>1. outpt' # "start"
    BY <1>1
  <2> QED
    BY <1>1, <1>4, <2>1, OutLeaves
<1>7. AtEnd'
  BY <1>1, <1>4, <1>5, Zenon DEF AtEnd, Answered
<1> QED
  BY <1>6, <1>7 DEF HttpInv, Phase

(* What InCall says of the call that runs                                  *)
LEMMA CallIs ==
    ASSUME HttpInv, hcall = "out", outpt \in {"tcp", "null", "next", "net"}
    PROVE  \E c \in 1 .. Len(Asked) :
              /\ Answering /\ filename \in Scripts /\ filename \in DOMAIN Files
              /\ IsCall(Asked[c]) /\ scriptptr = From(Asked, c)
              /\ outpt # "net" => UpTo(<<>>, c)
              /\ outpt = "net" => count \in 0 .. NumStats /\ UpTo(Numbers(NumStats - count), c)
<1>1. PICK c \in 1 .. Len(Asked) : InCall(c)
  BY PhaseIs
<1>2. /\ Answering /\ filename \in Scripts /\ IsCall(Asked[c]) /\ scriptptr = From(Asked, c)
      /\ outpt # "net" => UpTo(<<>>, c)
      /\ outpt = "net" => count \in 0 .. NumStats /\ UpTo(Numbers(NumStats - count), c)
  BY <1>1 DEF InCall
<1> QED
  BY <1>2 DEF Answering

(* tcp_stats: a row, which does not count, or the end of the rows          *)
LEMMA TcpStatsInv == ASSUME HttpInv, TcpStats PROVE HttpInv'
<1>1. /\ hcall = "out" /\ outpt = "tcp" /\ scriptptr' = scriptptr /\ filename' = filename /\ UNCHANGED outRest
      /\ http' = http
      /\ \/ outpt' = "next" /\ seg' = seg
         \/ outpt' = "tcp" /\ seg' = <<"row">> /\ hcall' = "no"
  <2> DEFINE due == {i \in {0} \cup openconns : i >= count}
  <2>1. CASE due = {}
    BY <2>1 DEF TcpStats, Running, Goes
  <2>2. CASE due # {}
    BY <2>2 DEF TcpStats, Running, GivesSeg
  <2> QED
    BY <2>1, <2>2
<1>2. PICK c \in 1 .. Len(Asked) :
        /\ Answering /\ filename \in Scripts /\ IsCall(Asked[c]) /\ scriptptr = From(Asked, c)
        /\ UpTo(<<>>, c)
  BY <1>1, CallIs
<1>3. <<"row">> \in Texts /\ WithoutRows(<<"row">>) = <<>>
  <2>1. "row" \in PageUnits
    BY DEF PageUnits
  <2>2. <<"row">> \in Texts
    BY <2>1, OneUnit DEF Texts
  <2> QED
    BY <2>2, RowsNone
<1>4. /\ SentText \in Texts /\ SentText' = SentText /\ seg' \in Texts
      /\ Answering' /\ Asked' = Asked /\ Opening' = Opening
      /\ hcall' = "out" => seg' = <<>>
  <2>1. CASE seg' = seg
    BY <1>1, <1>2, <2>1, AnswerWaits
  <2>2. CASE seg' = <<"row">> /\ hcall' = "no"
    <3>1. /\ SentText \in Texts /\ SentText' = SentText \o WithoutRows(<<"row">>)
          /\ Answering' /\ Asked' = Asked /\ Opening' = Opening
      BY <1>1, <1>2, <1>3, <2>2, AnswerGrows, Zenon
    <3>2. SentText' = SentText
      BY <1>3, <3>1, ConcatEmptySeq DEF Texts
    <3> QED
      BY <1>3, <2>2, <3>1, <3>2
  <2> QED
    BY <1>1, <2>1, <2>2
<1>5. HttpBase'
  <2>1. outpt' # "start"
    BY <1>1
  <2> QED
    BY <1>1, <1>4, <2>1, OutLeaves
<1>6. UpTo(<<>>, c)'
  BY <1>2, <1>4, StillToDo
<1>7. InCall(c)'
  <2>1. outpt' \in {"tcp", "null", "next"} /\ filename' \in Scripts /\ scriptptr' = From(Asked, c)
    BY <1>1, <1>2
  <2> QED
    BY <1>2, <1>4, <1>6, <2>1, Zenon DEF InCall
<1>8. c \in 1 .. Len(Asked')
  BY <1>2, <1>4
<1> QED
  BY <1>5, <1>7, <1>8, Zenon DEF HttpInv, Phase

(* net_stats: a number for the next counter, or the end of the numbers     *)
LEMMA NetStatsInv == ASSUME HttpInv, NetStats PROVE HttpInv'
<1>1. /\ hcall = "out" /\ outpt = "net" /\ scriptptr' = scriptptr /\ filename' = filename /\ UNCHANGED outRest
      /\ http' = http
      /\ count = NumStats => outpt' = "next" /\ seg' = seg
      /\ count # NumStats => outpt' = "net" /\ seg' = <<"n">> /\ hcall' = "no" /\ count' = count + 1
  <2>1. CASE count = NumStats
    BY <2>1 DEF NetStats, Running, Goes
  <2>2. CASE count # NumStats
    BY <2>2 DEF NetStats, Running, GivesSeg
  <2> QED
    BY <2>1, <2>2
<1>2. PICK c \in 1 .. Len(Asked) :
        /\ Answering /\ filename \in Scripts /\ IsCall(Asked[c]) /\ scriptptr = From(Asked, c)
        /\ count \in 0 .. NumStats /\ UpTo(Numbers(NumStats - count), c)
  BY <1>1, CallIs
<1>3. CASE count = NumStats
  <2>1. Numbers(NumStats - count) = <<>>
    <3>1. NumStats - count = 0
      BY <1>2, <1>3, FilesAssumption
    <3>2. Numbers(0) \in Seq(PageUnits) /\ Len(Numbers(0)) = 0
      BY NumbersAre DEF Texts
    <3> QED
      BY <3>1, <3>2
  <2>2. /\ SentText \in Texts /\ SentText' = SentText /\ seg' \in Texts /\ seg' = <<>>
        /\ Answering' /\ Asked' = Asked /\ Opening' = Opening
    BY <1>1, <1>2, <1>3, AnswerWaits
  <2>3. HttpBase'
    <3>1. outpt' # "start"
      BY <1>1, <1>3
    <3> QED
      BY <1>1, <2>2, <3>1, OutLeaves
  <2>4. UpTo(<<>>, c)'
    <3>1. UpTo(<<>>, c)
      BY <1>2, <2>1
    <3> QED
      BY <2>2, <3>1, StillToDo
  <2>5. InCall(c)'
    <3>1. outpt' \in {"tcp", "null", "next"} /\ filename' \in Scripts /\ scriptptr' = From(Asked, c)
      BY <1>1, <1>2, <1>3
    <3> QED
      BY <1>2, <2>2, <2>4, <3>1, Zenon DEF InCall
  <2>6. c \in 1 .. Len(Asked')
    BY <1>2, <2>2
  <2> QED
    BY <2>3, <2>5, <2>6, Zenon DEF HttpInv, Phase
<1>4. CASE count # NumStats
  <2>1. PICK m : m = NumStats - count
    OBVIOUS
  <2>2. PICK k : k = NumStats - count'
    OBVIOUS
  <2>3. m \in Nat /\ k \in Nat /\ m = k + 1 /\ count' \in 0 .. NumStats
    BY <1>1, <1>2, <1>4, <2>1, <2>2, FilesAssumption
  <2>4. PICK u : u = <<"n">>
    OBVIOUS
  <2>5. PICK t : t = Numbers(k)
    OBVIOUS
  <2>6. u \in Texts /\ NoRow(u) /\ t \in Texts
    <3>1. "n" \in PageUnits /\ "n" # "row"
      BY DEF PageUnits
    <3>2. u \in Texts /\ NoRow(u)
      BY <2>4, <3>1, OneUnit DEF Texts, NoRow
    <3> QED
      BY <2>3, <2>5, <3>2, NumbersAre
  <2>7. Numbers(m) = u \o t
    BY <2>3, <2>4, <2>5, OneNumberMore
  <2>8. UpTo(u \o t, c)
    BY <1>2, <2>1, <2>7
  <2>9. seg' = u /\ hcall' = "no" /\ outpt' = "net"
    BY <1>1, <1>4, <2>4
  <2>10. /\ SentText \in Texts /\ SentText' = SentText \o u
         /\ Answering' /\ Asked' = Asked /\ Opening' = Opening
    BY <1>1, <1>2, <2>6, <2>9, AnswerGrows, RowsNone, Zenon
  <2>11. UpTo(t, c)'
    BY <2>6, <2>8, <2>10, PartDone
  <2>12. HttpBase'
    <3>1. outpt' # "start" /\ hcall' # "out" /\ seg' \in Texts
      BY <2>6, <2>9
    <3> QED
      BY <1>1, <3>1, OutLeaves
  <2>13. UpTo(Numbers(NumStats - count), c)'
    <3>1. Numbers(NumStats - count') = t
      BY <2>2, <2>5
    <3> QED
      BY <2>11, <3>1, Zenon DEF UpTo
  <2>14. InCall(c)'
    <3>1. outpt' = "net" /\ filename' \in Scripts /\ scriptptr' = From(Asked, c)
      BY <1>1, <1>2, <2>9
    <3> QED
      BY <1>2, <2>3, <2>10, <2>13, <3>1, Zenon DEF InCall
  <2>15. c \in 1 .. Len(Asked')
    BY <1>2, <2>10
  <2> QED
    BY <2>12, <2>14, <2>15, Zenon DEF HttpInv, Phase
<1> QED
  BY <1>3, <1>4

(* Where the line of a script ends: at its line end, or with the file      *)
LineLeft(s) ==
    LET ends == {i \in 1 .. Len(s) : s[i] = "nl"}
    IN  IF ends = {} THEN Len(s) ELSE CHOOSE i \in ends : \A j \in ends : i <= j
LEMMA ScriptLineEnds ==
    ASSUME NEW s \in Texts
    PROVE  /\ LineLeft(s) \in 0 .. Len(s)
           /\ \A k \in 1 .. LineLeft(s) - 1 : s[k] # "nl"
           /\ LineLeft(s) = Len(s) \/ (LineLeft(s) # 0 /\ s[LineLeft(s)] = "nl")
<1> DEFINE ends == {i \in 1 .. Len(s) : s[i] = "nl"}
           n == LineLeft(s)
<1>0. n = IF ends = {} THEN Len(s) ELSE CHOOSE i \in ends : \A j \in ends : i <= j
  BY DEF LineLeft
<1>1. Len(s) \in Nat
  BY DEF Texts
<1> HIDE DEF n
<1>2. CASE ends = {}
  <2>1. n = Len(s)
    <3> HIDE DEF ends
    <3> QED
      BY <1>0, <1>2
  <2>2. n \in 0 .. Len(s)
    BY <1>1, <2>1
  <2>3. \A k \in 1 .. n - 1 : k \in 1 .. Len(s)
    BY <1>1, <2>1
  <2>4. \A k \in 1 .. Len(s) : s[k] # "nl"
    BY <1>2
  <2> QED
    BY <2>1, <2>2, <2>3, <2>4 DEF n
<1>3. CASE ends # {}
  <2>1. \E i \in ends : \A j \in ends : i <= j
    <3>1. ends \in SUBSET Nat
      OBVIOUS
    <3> HIDE DEF ends
    <3> QED
      BY <1>3, <3>1, LeastIn
  <2>2. n \in ends /\ \A j \in ends : n <= j
    <3> HIDE DEF ends
    <3> QED
      BY <1>0, <1>3, <2>1
  <2>3. n \in 1 .. Len(s) /\ s[n] = "nl"
    BY <2>2
  <2>4. \A k \in 1 .. n - 1 : k \in 1 .. Len(s) /\ ~(n <= k)
    BY <1>1, <2>3
  <2>5. \A k \in 1 .. n - 1 : k \notin ends
    <3> HIDE DEF ends
    <3> QED
      BY <2>2, <2>4
  <2>6. \A k \in 1 .. n - 1 : s[k] # "nl"
    BY <2>4, <2>5
  <2>7. n \in 0 .. Len(s)
    BY <1>1, <2>3
  <2> QED
    <3>1. n # 0
      BY <2>3
    <3> QED
      BY <2>3, <2>6, <2>7, <3>1 DEF n
<1> QED
  BY <1>2, <1>3

(* next_scriptstate: the rest of the script's line is passed over.         *)
LEMMA NextScriptStateInv == ASSUME HttpInv, NextScriptState PROVE HttpInv'
<1>1. /\ hcall = "out" /\ outpt \in {"next", "null"} /\ outpt' = "script" /\ seg' = seg /\ http' = http
      /\ filename' = filename /\ UNCHANGED outRest
  BY DEF NextScriptState, Running, Goes
<1>2. file' = From(scriptptr, LineLeft(scriptptr))
  BY DEF NextScriptState, LineLeft
<1>3. PICK s : s = Asked
  OBVIOUS
<1>4. PICK c \in 1 .. Len(s) :
        /\ Answering /\ filename \in Scripts /\ filename \in DOMAIN Files
        /\ IsCall(s[c]) /\ scriptptr = From(s, c) /\ UpTo(<<>>, c)
  BY <1>1, <1>3, CallIs
<1>5. s \in Texts /\ NoRow(s) /\ Len(s) \in Nat /\ s = Files[filename] /\ c \in 0 .. Len(s)
  BY <1>3, <1>4, AskedIs
<1>6. PICK r : r = From(s, c)
  OBVIOUS
<1>7. r \in Texts /\ RestIs(r, s, c) /\ Len(r) = Len(s) - c
  <2>1. r \in Texts /\ RestIs(r, s, c)
    BY <1>5, <1>6, RestBehind DEF Texts
  <2> QED
    BY <2>1 DEF RestIs
<1>8. PICK n : n = LineLeft(r)
  OBVIOUS
<1>9. n \in 0 .. Len(r) /\ (\A k \in 1 .. n - 1 : r[k] # "nl") /\ (n = Len(r) \/ (n # 0 /\ r[n] = "nl"))
  BY <1>7, <1>8, ScriptLineEnds
<1>10. PICK q : q = c + n
  OBVIOUS
<1>11. /\ n \in 0 .. Len(s) - c /\ q \in c .. Len(s) /\ q \in 0 .. Len(s)
       /\ \A i \in 1 .. Len(s) - c : r[i] = s[c + i]
  BY <1>5, <1>7, <1>9, <1>10 DEF RestIs
<1>12. \A k \in c + 1 .. q - 1 : s[k] # "nl"
  <2> SUFFICES ASSUME NEW k \in c + 1 .. q - 1 PROVE s[k] # "nl"
    OBVIOUS
  <2>1. PICK j : j = k - c
    OBVIOUS
  <2>2. j \in 1 .. n - 1 /\ j \in 1 .. Len(s) - c /\ c + j = k
    BY <1>5, <1>10, <1>11, <2>1
  <2> QED
    BY <1>9, <1>11, <2>2
<1>13. q = Len(s) \/ s[q] = "nl"
  <2>1. CASE n = Len(r)
    BY <1>5, <1>7, <1>10, <2>1
  <2>2. CASE n # Len(r)
    <3>1. n \in 1 .. Len(s) - c /\ r[n] = "nl"
      BY <1>9, <1>11, <2>2
    <3>2. r[n] = s[c + n]
      BY <1>11, <3>1
    <3> QED
      BY <1>10, <3>1, <3>2
  <2> QED
    BY <2>1, <2>2
<1>14. (\A i \in c + 1 .. q : Shown(s, i) = <<>>) /\ (q = Len(s) \/ Fresh(s, q))
  BY <1>4, <1>5, <1>11, <1>12, <1>13, LineDone
<1>15. PICK w : w = Written(s)
  OBVIOUS
<1>16. w[q] = w[c]
  BY <1>5, <1>11, <1>14, <1>15, WrittenStays
<1>17. file' = From(s, q)
  BY <1>2, <1>4, <1>5, <1>6, <1>8, <1>10, <1>11, RestOfRest DEF Texts
<1>18. /\ SentText \in Texts /\ SentText' = SentText /\ seg' \in Texts /\ seg' = <<>>
       /\ Answering' /\ Asked' = Asked /\ Opening' = Opening
  BY <1>1, <1>4, AnswerWaits
<1>19. UpTo(<<>>, q)'
  <2>1. UpTo(<<>>, q)
    BY <1>3, <1>4, <1>15, <1>16, Zenon DEF UpTo
  <2> QED
    BY <1>18, <2>1, StillToDo
<1>20. HttpBase'
  <2>1. outpt' # "start"
    BY <1>1
  <2> QED
    BY <1>1, <1>18, <2>1, OutLeaves
<1>21. InScript(q)'
  <2>1. Asked' = s /\ filename' \in Scripts
    BY <1>1, <1>3, <1>4, <1>18
  <2> QED
    BY <1>1, <1>14, <1>17, <1>18, <1>19, <2>1, Zenon DEF InScript
<1>22. q \in 0 .. Len(Asked')
  BY <1>3, <1>11, <1>18
<1> QED
  BY <1>20, <1>21, <1>22, Zenon DEF HttpInv, Phase

(* PSOCK_CLOSE: the whole answer is sent and acknowledged.                 *)
LEMMA CloseOutputInv == ASSUME HttpInv, CloseOutput PROVE HttpInv'
<1>1. /\ hcall = "out" /\ outpt = "end" /\ http' = "closing" /\ hcall' = "no" /\ outpt' = "start"
      /\ seg' = seg /\ filename' = filename /\ UNCHANGED <<inpt, output, input, got>>
  BY DEF CloseOutput, Running, outRest
<1>2. HttpBase /\ AtEnd /\ Answering /\ Answered /\ AllSent # <<>>
  BY <1>1, PhaseIs DEF AtEnd, Answered, Answering
<1>3. /\ got \in Texts /\ seg \in Texts /\ seg = <<>> /\ output /\ inpt = "lines" /\ input = <<>>
  BY <1>1, <1>2 DEF HttpBase
<1>4. AllSent' = AllSent
  BY <1>1 DEF AllSent
<1>5. HttpBase'
  BY <1>1, <1>2, <1>3, <1>4 DEF HttpBase
<1>6. Answered'
  BY <1>1, <1>2, <1>4, Zenon DEF Answered, Answering, SentText, Opening
<1>7. NotBegun'
  BY <1>1, <1>6 DEF NotBegun
<1> QED
  BY <1>5, <1>7 DEF HttpInv, Phase

(* A new connection has sent nothing.                                      *)
LEMMA HttpStarts == HttpInit => HttpInv
<1> SUFFICES ASSUME HttpInit PROVE HttpInv
  OBVIOUS
<1>1. /\ http = "none" /\ hcall = "no" /\ inpt = "method" /\ outpt = "start" /\ output = FALSE
      /\ seg = <<>> /\ got = <<>>
  BY DEF HttpInit
<1>2. <<>> \in Texts /\ <<>> \o <<>> = <<>>
  BY ConcatEmptySeq DEF Texts
<1>3. AllSent = <<>>
  BY <1>1, <1>2, Zenon DEF AllSent
<1>4. HttpBase
  BY <1>1, <1>2, <1>3 DEF HttpBase
<1> QED
  BY <1>1, <1>3, <1>4, Zenon DEF HttpInv, Phase, NotBegun

(* Every step of the web server keeps the invariant.                       *)
LEMMA HttpGoesOn == HttpInv /\ [HttpNext]_httpVars => HttpInv'
<1> SUFFICES ASSUME HttpInv, [HttpNext]_httpVars PROVE HttpInv'
  OBVIOUS
<1>1. CASE HttpConnected
  BY <1>1, ConnectedInv
<1>2. CASE HttpRequest \/ HttpMore \/ HttpAcked \/ HttpPoll \/ HttpRexmit \/ HttpGone \/ OtherConn
  BY <1>2, OutsideInv
<1>3. CASE ReadWord
  BY <1>3, ReadWordInv
<1>4. CASE InputDone
  BY <1>4, InputDoneInv
<1>5. CASE OpenFile
  BY <1>5, OpenFileInv
<1>6. CASE SendType
  BY <1>6, SendTypeInv
<1>7. CASE SendFile
  BY <1>7, SendFileInv
<1>8. CASE StartScript
  BY <1>8, StartScriptInv
<1>9. CASE SendPart
  BY <1>9, SendPartInv
<1>10. CASE ScriptDone
  BY <1>10, ScriptDoneInv
<1>11. CASE TcpStats
  BY <1>11, TcpStatsInv
<1>12. CASE NetStats
  BY <1>12, NetStatsInv
<1>13. CASE NextScriptState
  BY <1>13, NextScriptStateInv
<1>14. CASE CloseOutput
  BY <1>14, CloseOutputInv
<1>15. CASE UNCHANGED httpVars
  <2>1. /\ UNCHANGED <<http, input, hcall, inpt, output, seg, got>> /\ UNCHANGED outState
    BY <1>15 DEF httpVars, outState
  <2>2. AllSent' = AllSent /\ outpt' = outpt
    BY <2>1 DEF AllSent, outState
  <2>3. HttpBase'
    BY <2>1, <2>2 DEF HttpInv, HttpBase
  <2>4. Phase'
    BY <2>1, <2>2, AnswerStays DEF HttpInv
  <2> QED
    BY <2>3, <2>4 DEF HttpInv
<1> QED
  BY <1>1, <1>2, <1>3, <1>4, <1>5, <1>6, <1>7, <1>8, <1>9, <1>10, <1>11, <1>12, <1>13, <1>14, <1>15
     DEF HttpNext, AppcallStep

(* A part of a page can be told by what follows it.                        *)
LEMMA BeginsWith ==
    ASSUME NEW S, NEW a \in Seq(S), NEW b \in Seq(S), NEW c, c = a \o b
    PROVE  Len(a) <= Len(c) /\ a = SubSeq(c, 1, Len(a))
<1>1. /\ c \in Seq(S) /\ Len(c) = Len(a) + Len(b) /\ Len(a) \in Nat /\ Len(b) \in Nat
      /\ \A i \in 1 .. Len(a) + Len(b) : c[i] = IF i <= Len(a) THEN a[i] ELSE b[i - Len(a)]
  BY ConcatProperties
<1>2. Len(a) \in 0 .. Len(c)
  BY <1>1
<1>3. /\ SubSeq(c, 1, Len(a)) \in Seq(S) /\ Len(SubSeq(c, 1, Len(a))) = Len(a)
      /\ \A i \in 1 .. Len(a) : SubSeq(c, 1, Len(a))[i] = c[i]
  BY <1>1, <1>2, CutIn
<1>4. \A i \in 1 .. Len(a) : a[i] = SubSeq(c, 1, Len(a))[i]
  BY <1>1, <1>3
<1>5. a = SubSeq(c, 1, Len(a))
  BY <1>3, <1>4, SameUnits
<1> QED
  BY <1>2, <1>5

(* Whatever the phase, what was sent is the beginning of the page.         *)
LEMMA SentBegins ==
    ASSUME HttpInv, AllSent # <<>>
    PROVE  /\ Answering /\ SentText \in Texts
           /\ \E rest \in Texts : SentText \o rest = Opening \o Page(filename)
<1>1. HttpBase /\ Phase
  BY DEF HttpInv
<1>2. Answering
  BY <1>1 DEF Phase, NotBegun, AtHeaders, InFile, AtEnd, InScript, InCall, Answered
<1>3. SentText \in Texts
  <2>1. got \in Texts /\ seg \in Texts
    BY <1>1 DEF HttpBase
  <2>2. AllSent \in Texts
    <3>1. Joins(got, seg, seg)
      BY <2>1, TextsJoin
    <3> QED
      BY <3>1 DEF AllSent, Joins
  <2> QED
    BY <2>2, RowsAdd DEF SentText
<1>4. filename \in DOMAIN Files
  BY <1>2 DEF Answering
<1>5. PICK s \in Texts : s = Asked
  BY <1>4, AskedIs
<1>6. /\ NoRow(s) /\ Len(s) \in Nat /\ IsWritten(Written(s), s)
      /\ filename \in Scripts => Page(filename) = Written(s)[Len(s)]
      /\ filename \notin Scripts => Page(filename) = s
  BY <1>4, <1>5, AskedIs
<1>7. PICK page \in Texts : page = Page(filename)
  <2>1. Written(s)[Len(s)] \in Texts
    BY <1>6 DEF IsWritten
  <2> QED
    BY <1>6, <2>1
<1>8. PICK o \in Texts : o = Opening
  BY <1>2, OpeningTyped
<1>9. PICK x \in Texts : x = SentText
  BY <1>3
<1>10. <<>> \in Texts
  BY DEF Texts
<1>11. CASE Answered
  <2>1. x \o <<>> = x
    BY ConcatEmptySeq DEF Texts
  <2>2. SentText \o <<>> = Opening \o Page(filename)
    BY <1>9, <1>11, <2>1 DEF Answered
  <2> QED
    BY <1>2, <1>3, <1>10, <2>2
<1>12. CASE AtHeaders
  <2>1. PICK u \in PageUnits : u = AllSent[1]
    BY <1>2 DEF Answering, PageUnits
  <2>2. PICK v \in PageUnits : v = "type"
    BY DEF PageUnits
  <2>3. <<u>> \in Texts /\ <<v>> \in Texts /\ <<u>> \o <<v>> = <<u, v>>
    BY OneUnit DEF Texts
  <2>4. x = <<u>> /\ o = <<u, v>>
    BY <1>8, <1>9, <1>12, <2>1, <2>2 DEF AtHeaders, Opening
  <2>5. (<<u>> \o <<v>>) \o page = <<u>> \o (<<v>> \o page) /\ <<v>> \o page \in Texts
    <3>1. PICK a \in Texts : a = <<u>>
      BY <2>3
    <3>2. PICK b \in Texts : b = <<v>>
      BY <2>3
    <3>3. Joins(a, b, page)
      BY TextsJoin
    <3> QED
      BY <3>1, <3>2, <3>3 DEF Joins
  <2>6. x \o (<<v>> \o page) = o \o page
    BY <2>3, <2>4, <2>5, Zenon
  <2> QED
    BY <1>2, <1>3, <1>7, <1>8, <1>9, <2>5, <2>6
<1>13. CASE InFile
  <2>1. file \in Texts /\ SentText \o file = Opening \o Page(filename)
    BY <1>5, <1>6, <1>13 DEF InFile
  <2> QED
    BY <1>2, <1>3, <2>1
<1>14. ASSUME NEW p \in 0 .. Len(s), NEW todo \in Texts, UpTo(todo, p), filename \in Scripts
       PROVE  \E rest \in Texts : SentText \o rest = Opening \o Page(filename)
  <2>1. PICK t \in Texts : Written(s)[Len(s)] = Written(s)[p] \o t
    BY <1>6, WrittenBegins
  <2>2. PICK y \in Texts : y = Written(s)[p]
    BY <1>6 DEF IsWritten
  <2>3. x \o todo = o \o y
    BY <1>5, <1>8, <1>9, <1>14, <2>2 DEF UpTo
  <2>4. page = y \o t
    BY <1>6, <1>7, <1>14, <2>1, <2>2
  <2>5. (x \o todo) \o t = x \o (todo \o t) /\ (o \o y) \o t = o \o (y \o t) /\ todo \o t \in Texts
    <3>1. todo \in Texts /\ x \in Texts /\ t \in Texts /\ o \in Texts /\ y \in Texts
      BY <1>14
    <3>2. Joins(x, todo, t)
      BY <3>1, TextsJoin
    <3>3. Joins(o, y, t)
      BY <3>1, TextsJoin
    <3> QED
      BY <3>2, <3>3 DEF Joins
  <2>6. x \o (todo \o t) = o \o page
    BY <2>3, <2>4, <2>5, Zenon
  <2> QED
    BY <1>7, <1>8, <1>9, <2>5, <2>6
<1>15. ASSUME NEW p \in 0 .. Len(Asked), InScript(p)
       PROVE  \E rest \in Texts : SentText \o rest = Opening \o Page(filename)
  <2>1. filename \in Scripts /\ UpTo(<<>>, p)
    BY <1>15 DEF InScript
  <2>2. p \in 0 .. Len(s)
    BY <1>5
  <2> QED
    BY <1>10, <1>14, <2>1, <2>2
<1>16. ASSUME NEW c \in 1 .. Len(Asked), InCall(c)
       PROVE  \E rest \in Texts : SentText \o rest = Opening \o Page(filename)
  <2>1. c \in 0 .. Len(s)
    BY <1>5, <1>6
  <2>2. filename \in Scripts /\ \E todo : UpTo(todo, c)
    BY <1>16 DEF InCall
  <2>3. PICK todo : UpTo(todo, c)
    BY <2>2
  <2>4. todo \in Texts
    BY <2>3 DEF UpTo
  <2> QED
    BY <1>14, <2>1, <2>2, <2>3, <2>4
<1>17. \/ Answered \/ AtHeaders \/ InFile \/ (\E p \in 0 .. Len(Asked) : InScript(p))
       \/ (\E c \in 1 .. Len(Asked) : InCall(c))
  BY <1>1 DEF Phase, NotBegun, AtEnd
<1> QED
  BY <1>2, <1>3, <1>11, <1>12, <1>13, <1>15, <1>16, <1>17

(* Where a generator has run: the status and the type have been received   *)
(* by then, and nothing is received in other bytes but a generated segment *)
(* that was sent again.                                                    *)
SentLen == Len(got) + Len(seg)
StaleInv ==
    /\ outpt = "headers" => SentLen >= 1
    /\ outpt \notin {"start", "headers"} => SentLen >= 2
    /\ how # "kept" => seg # <<>> /\ Len(got) >= 2
    /\ spoilt => Len(got) > 2

LEMMA Lengths == ASSUME HttpInv
    PROVE  /\ Len(got) \in Nat /\ Len(seg) \in Nat /\ Len(got \o seg) = SentLen
           /\ Len(<<>>) = 0 /\ seg # <<>> => Len(seg) >= 1
<1>1. got \in Seq(PageUnits) /\ seg \in Seq(PageUnits)
  BY DEF HttpInv, HttpBase, Texts
<1>2. Len(got \o seg) = Len(got) + Len(seg)
  BY <1>1, ConcatProperties
<1> QED
  BY <1>1, <1>2 DEF SentLen

(* A segment arrives, or not.                                              *)
LEMMA StaleArrives ==
    ASSUME HttpInv, StaleInv, outpt' = outpt, Delivered \/ UNCHANGED wire
    PROVE  StaleInv'
<1>1. CASE Delivered
  <2>1. /\ seg # <<>> /\ got' = got \o seg /\ seg' = <<>> /\ how' = "kept"
        /\ spoilt' => spoilt \/ how = "resent"
    BY <1>1 DEF Delivered
  <2>2. /\ Len(got') = SentLen /\ Len(seg') = 0 /\ SentLen = Len(got) + Len(seg) /\ Len(seg) >= 1
        /\ Len(got) \in Nat /\ Len(seg) \in Nat
    BY <2>1, Lengths DEF SentLen
  <2>3. SentLen' = SentLen
    BY <2>2 DEF SentLen
  <2>4. spoilt' => Len(got') > 2
    <3>1. spoilt \/ how = "resent" => Len(got) >= 2
      BY <2>2 DEF StaleInv
    <3> QED
      BY <2>1, <2>2, <3>1
  <2> QED
    BY <2>1, <2>3, <2>4 DEF StaleInv
<1>2. CASE UNCHANGED wire
  BY <1>2 DEF wire, StaleInv, SentLen
<1> QED
  BY <1>1, <1>2

(* The output thread hands over a segment of its files or of a generator.  *)
LEMMA StaleGiven ==
    ASSUME HttpInv, StaleInv, hcall = "out", HttpInv', NEW units, NEW kind, GivesSeg(units, kind),
           UNCHANGED <<got, spoilt>>,
           \/ outpt = "start" /\ outpt' = "headers" /\ kind = "kept" /\ units # <<>>
           \/ outpt = "headers" /\ kind = "kept" /\ units # <<>>
           \/ outpt \notin {"start", "headers"} /\ outpt' # "headers" /\ (kind = "kept" \/ units # <<>>)
    PROVE  StaleInv'
<1>1. seg' = units /\ how' = kind /\ seg = <<>> /\ got' = got /\ spoilt' = spoilt
  BY DEF GivesSeg, HttpInv, HttpBase
<1>2. Len(got) \in Nat /\ Len(seg) = 0 /\ SentLen = Len(got)
  BY <1>1, Lengths DEF SentLen
<1>3. Len(seg') \in Nat /\ (seg' # <<>> => Len(seg') >= 1)
  <2>1. seg' \in Seq(PageUnits)
    BY DEF HttpInv, HttpBase, Texts
  <2> QED
    BY <2>1
<1>4. SentLen' = Len(got) + Len(seg')
  BY <1>1 DEF SentLen
<1> QED
  BY <1>1, <1>2, <1>3, <1>4 DEF StaleInv

(* A step that hands over nothing.                                         *)
LEMMA StaleGoes ==
    ASSUME StaleInv, UNCHANGED <<seg, how, got, spoilt>>,
           \/ outpt' \in {outpt, "start"}
           \/ outpt \notin {"start", "headers"} /\ outpt' # "headers"
    PROVE  StaleInv'
BY DEF StaleInv, SentLen

LEMMA StaleStarts == HttpInit => StaleInv
<1> SUFFICES ASSUME HttpInit PROVE StaleInv
  OBVIOUS
<1>1. outpt = "start" /\ how = "kept" /\ spoilt = FALSE
  BY DEF HttpInit
<1> QED
  BY <1>1 DEF StaleInv

(* Every step of the web server keeps StaleInv.                            *)
LEMMA StaleGoesOn == HttpInv /\ HttpInv' /\ StaleInv /\ [HttpNext]_httpVars => StaleInv'
<1> SUFFICES ASSUME HttpInv, HttpInv', StaleInv, [HttpNext]_httpVars PROVE StaleInv'
  OBVIOUS
<1>1. CASE HttpConnected
  <2>1. outpt' = "start" /\ how' = "kept" /\ spoilt' = FALSE
    BY <1>1 DEF HttpConnected
  <2> QED
    BY <2>1 DEF StaleInv
<1>2. CASE HttpRequest \/ HttpMore \/ HttpAcked \/ HttpPoll \/ HttpGone \/ OtherConn \/ ReadWord \/ InputDone
  <2>1. outpt' = outpt
    BY <1>2 DEF HttpRequest, HttpMore, HttpData, HttpAcked, HttpPoll, HttpGone, OtherConn, ReadWord, InputDone, outState
  <2>2. Delivered \/ UNCHANGED wire
    BY <1>2, Zenon DEF HttpRequest, HttpMore, HttpData, HttpAcked, HttpPoll, HttpGone, OtherConn, ReadWord, InputDone
  <2> QED
    BY <2>1, <2>2, StaleArrives
<1>3. CASE HttpRexmit
  <2>1. UNCHANGED <<outpt, seg, got, spoilt>> /\ how' = IF how = "kept" THEN "kept" ELSE "resent"
    BY <1>3 DEF HttpRexmit, outState
  <2> QED
    BY <2>1 DEF StaleInv, SentLen
<1>4. CASE OpenFile \/ SendType
  <2>1. UNCHANGED <<got, spoilt>> /\ hcall = "out"
    BY <1>4 DEF OpenFile, SendType, outRest, Running
  <2>2. CASE OpenFile
    <3>1. PICK u : GivesSeg(<<u>>, "kept")
      BY <2>2 DEF OpenFile
    <3>2. outpt = "start" /\ outpt' = "headers" /\ <<u>> # <<>>
      BY <2>2 DEF OpenFile, Running
    <3> QED
      BY <2>1, <3>1, <3>2, StaleGiven
  <2>3. CASE SendType
    <3>1. outpt = "headers" /\ GivesSeg(<<"type">>, "kept") /\ <<"type">> # <<>>
      BY <2>3 DEF SendType, Running
    <3> QED
      BY <2>1, <3>1, StaleGiven
  <2> QED
    BY <1>4, <2>2, <2>3
<1>5. CASE SendFile
  <2>1. UNCHANGED <<got, spoilt>> /\ hcall = "out" /\ outpt \in {"file", "include"} /\ outpt' # "headers"
    BY <1>5 DEF SendFile, outRest, Running
  <2>2. CASE file # <<>>
    <3> DEFINE n == Fewer(Len(file), HttpMss)
    <3>1. GivesSeg(SubSeq(file, 1, n), "made")
      BY <1>5, <2>2 DEF SendFile
    <3>2. file \in Texts
      BY <2>1, PhaseIs DEF InFile, InCall, UpTo
    <3>3. Len(file) \in Nat \ {0}
      BY <2>2, <3>2 DEF Texts
    <3>4. n \in 1 .. Len(file)
      BY <3>3, FilesAssumption DEF Fewer
    <3>5. Len(SubSeq(file, 1, n)) = n
      BY <3>2, <3>4, CutIn DEF Texts
    <3>6. SubSeq(file, 1, n) # <<>>
      <4>1. Len(<<>>) = 0
        OBVIOUS
      <4> HIDE DEF n
      <4> QED
        BY <3>4, <3>5, <4>1
    <3> HIDE DEF n
    <3> QED
      BY <2>1, <3>1, <3>6, StaleGiven
  <2>3. CASE file = <<>>
    <3>1. UNCHANGED <<seg, how>>
      BY <1>5, <2>3 DEF SendFile, Goes
    <3> QED
      BY <2>1, <3>1, StaleGoes
  <2> QED
    BY <2>2, <2>3
<1>6. CASE SendPart
  <2>1. UNCHANGED <<got, spoilt>> /\ hcall = "out" /\ outpt = "script" /\ outpt' = outpt
    BY <1>6 DEF SendPart, outRest, Running
  <2>2. PICK u : GivesSeg(u, "kept")
    BY <1>6 DEF SendPart
  <2> QED
    BY <2>1, <2>2, StaleGiven
<1>7. CASE TcpStats \/ NetStats
  <2>1. UNCHANGED <<got, spoilt>> /\ hcall = "out" /\ outpt \in {"tcp", "net"} /\ outpt' # "headers"
    BY <1>7 DEF TcpStats, NetStats, outRest, Running
  <2>2. \/ UNCHANGED <<seg, how>>
        \/ GivesSeg(<<"row">>, "made")
        \/ GivesSeg(<<"n">>, "made")
    <3>1. CASE TcpStats
      BY <3>1 DEF TcpStats, Goes
    <3>2. CASE NetStats
      BY <3>2 DEF NetStats, Goes
    <3> QED
      BY <1>7, <3>1, <3>2
  <2>3. <<"row">> # <<>> /\ <<"n">> # <<>>
    OBVIOUS
  <2> QED
    BY <2>1, <2>2, <2>3, StaleGiven, StaleGoes
<1>8. CASE StartScript
  <2>1. UNCHANGED <<seg, how, got, spoilt>> /\ outpt = "script"
    BY <1>8 DEF StartScript, outRest, Running, Goes
  <2>2. outpt' # "headers"
    <3>1. Head(file) \in Functions \cup Includes
      BY <1>8 DEF StartScript, IsCall, Special
    <3>2. outpt' = "include" \/ outpt' \in Functions
      BY <1>8, <3>1 DEF StartScript
    <3> QED
      BY <3>2 DEF Functions
  <2> QED
    BY <2>1, <2>2, StaleGoes
<1>9. CASE ScriptDone \/ NextScriptState \/ CloseOutput
  <2>1. UNCHANGED <<seg, how, got, spoilt>> /\ outpt \notin {"start", "headers"} /\ outpt' # "headers"
    BY <1>9 DEF ScriptDone, NextScriptState, CloseOutput, outRest, Running, Goes
  <2> QED
    BY <2>1, StaleGoes
<1>10. CASE UNCHANGED httpVars
  <2>1. outpt' = outpt /\ UNCHANGED wire
    BY <1>10 DEF httpVars, wire
  <2> QED
    BY <2>1, StaleArrives
<1> QED
  BY <1>1, <1>2, <1>3, <1>4, <1>5, <1>6, <1>7, <1>8, <1>9, <1>10 DEF HttpNext, AppcallStep

(* What the client has got is the beginning of the page, all of it if the  *)
(* server closed after an answer.                                          *)
LEMMA PageFollows == HttpInv /\ StaleInv => PageIsServed
<1> SUFFICES ASSUME HttpInv, got # <<>> PROVE
        LET text == WithoutRows(got)
            whole == <<IF got[1] = "200" THEN "200" ELSE "404", "type">> \o Page(filename) IN
        /\ Len(text) <= Len(whole) /\ text = SubSeq(whole, 1, Len(text))
        /\ http = "closing" /\ inpt = "lines" => text = whole
  BY DEF PageIsServed, StaleInv
<1>1. got \in Texts /\ seg \in Texts
  BY DEF HttpInv, HttpBase
<1>2. AllSent # <<>> /\ AllSent[1] = got[1]
  <2>1. /\ Len(got) \in Nat \ {0} /\ Len(seg) \in Nat /\ Len(got \o seg) = Len(got) + Len(seg)
        /\ \A i \in 1 .. Len(got) + Len(seg) :
              (got \o seg)[i] = IF i <= Len(got) THEN got[i] ELSE seg[i - Len(got)]
    BY <1>1, ConcatProperties DEF Texts
  <2>2. 1 \in 1 .. Len(got) + Len(seg) /\ 1 <= Len(got) /\ Len(got \o seg) # 0
    BY <2>1
  <2> QED
    BY <2>1, <2>2 DEF AllSent
<1>3. Answering /\ SentText \in Texts
  BY <1>2, SentBegins
<1>4. PICK rest \in Texts : SentText \o rest = Opening \o Page(filename)
  BY <1>2, SentBegins
<1>5. PICK text \in Texts : text = WithoutRows(got)
  BY <1>1, RowsAdd
<1>6. PICK more \in Texts : more = WithoutRows(seg)
  BY <1>1, RowsAdd
<1>7. PICK whole : whole = <<IF got[1] = "200" THEN "200" ELSE "404", "type">> \o Page(filename)
  OBVIOUS
<1>8. whole = Opening \o Page(filename)
  <2>1. (IF got[1] = "200" THEN "200" ELSE "404") = AllSent[1]
    BY <1>2, <1>3 DEF Answering
  <2> QED
    BY <1>7, <2>1 DEF Opening
<1>9. SentText = text \o more
  BY <1>1, <1>5, <1>6, RowsAdd DEF SentText, AllSent
<1>10. whole = text \o (more \o rest) /\ more \o rest \in Texts
  <2>1. (text \o more) \o rest = text \o (more \o rest) /\ more \o rest \in Texts
    <3>1. Joins(text, more, rest)
      BY TextsJoin
    <3> QED
      BY <3>1 DEF Joins
  <2> QED
    BY <1>4, <1>8, <1>9, <2>1
<1>11. Len(text) <= Len(whole) /\ text = SubSeq(whole, 1, Len(text))
  BY <1>10, BeginsWith DEF Texts
<1>12. ASSUME http = "closing", inpt = "lines" PROVE text = whole
  <2>1. seg = <<>> /\ outpt = "start"
    BY <1>12 DEF HttpInv, HttpBase
  <2>2. Answered
    BY <1>2, <2>1 DEF HttpInv, Phase, NotBegun, AtHeaders, InFile, AtEnd, InScript, InCall
  <2>3. AllSent = got
    BY <1>1, <2>1, ConcatEmptySeq DEF AllSent, Texts
  <2> QED
    BY <1>5, <1>8, <2>2, <2>3 DEF Answered, SentText
<1> QED
  BY <1>5, <1>7, <1>11, <1>12, Zenon

(* httpd.c: a client gets the status, the type and the page of the file it *)
(* asked for, from its beginning and in order, with each include and each  *)
(* script replaced by what it comes to; a server that closes the           *)
(* connection after an answer has sent all of it; and other bytes, from a  *)
(* segment that was sent again, come only at places behind the type.       *)
THEOREM PageIsTheFile == FairApps => []PageIsServed
<1>1. AppsInit => HttpInv /\ StaleInv
  BY HttpStarts, StaleStarts DEF AppsInit
<1>2. HttpInv /\ StaleInv /\ [AppsNext]_appsVars => (HttpInv /\ StaleInv)'
  <2> SUFFICES ASSUME HttpInv, StaleInv, [AppsNext]_appsVars PROVE (HttpInv /\ StaleInv)'
    OBVIOUS
  <2>1. [HttpNext]_httpVars
    BY Zenon DEF AppsNext, appsVars
  <2>2. HttpInv'
    BY <2>1, HttpGoesOn
  <2> QED
    BY <2>1, <2>2, StaleGoesOn
<1>3. HttpInv /\ StaleInv => PageIsServed
  BY PageFollows
<1> QED
  BY <1>1, <1>2, <1>3, PTL DEF FairApps
==============================================================================
