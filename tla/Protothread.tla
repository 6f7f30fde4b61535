----------------------------- MODULE Protothread -----------------------------
(***************************************************************************)
(* Protothreads (pt.h over lc-switch.h): a function that leaves at a wait  *)
(* and, called again, goes on there.  One protothread, the parent, is      *)
(* called from outside and runs another, the child, inside its own calls.  *)
(***************************************************************************)
EXTENDS Integers, Sequences, SequencesExt

CONSTANTS
    Bodies,     \* pairs [parent, child] of sequences of statements
    MaxCalls    \* bound on the calls of the parent

\* "spawn" is PT_SPAWN, "run" is PT_WAIT_THREAD of a child nobody initialises, as PSOCK_SEND has it.
Statements == {"plain", "wait", "yield", "yield_until", "restart", "exit", "spawn", "run"}

\* PT_SCHEDULE takes a thread that yields for one that has ended: no child of psock.c or
\* httpd.c yields, and none runs a child of its own here.
ASSUME BodiesAssumption ==
    \A b \in Bodies : /\ b.parent \in Seq(Statements)
                      /\ b.child \in Seq({"plain", "wait", "restart", "exit"})

VARIABLES
    fn,         \* the two functions, [parent, child]
    lc,         \* struct pt of each: 0, or the statement whose LC_SET came last
    frames,     \* the calls that run, innermost first
    entries,    \* how often the parent was called
    passed,     \* ghost: the statements each has passed since its beginning
    fromStart   \* ghost: the child began at its beginning after the parent came to its statement

ptVars == <<fn, lc, frames, entries, passed, fromStart>>

\* A call: where it is, whether it came there by the switch, PT_YIELD_FLAG, and what a
\* child has returned to it.
Frame(t, at, jumped) == [thread |-> t, at |-> at, jumped |-> jumped, yieldFlag |-> 1, got |-> "none"]
\* PT_BEGIN, LC_RESUME
Begin(t, l) == IF l = 0 THEN Frame(t, 1, FALSE) ELSE Frame(t, l, TRUE)

PtInit == /\ fn \in Bodies /\ lc = [parent |-> 0, child |-> 0]
          /\ frames = <<>> /\ entries = 0 /\ passed = lc /\ fromStart = FALSE

Top == Head(frames)
Me == Top.thread
Here(s) == /\ frames # <<>> /\ Top.at <= Len(fn[Me]) /\ fn[Me][Top.at] = s /\ UNCHANGED <<fn, entries>>

\* LC_SET
LcSet == lc' = [lc EXCEPT ![Me] = Top.at]
\* A statement is over; the next one is reached without the switch.
Pass == /\ frames' = <<[Frame(Me, Top.at + 1, FALSE) EXCEPT !.yieldFlag = Top.yieldFlag]>> \o Tail(frames)
        /\ passed' = [passed EXCEPT ![Me] = Top.at] /\ UNCHANGED fromStart
\* return: the caller is the parent, in its statement, or outside.
LeaveWith(code) == frames' = IF Len(frames) = 1 THEN <<>> ELSE <<[frames[2] EXCEPT !.got = code]>>
Block(code) == LeaveWith(code) /\ UNCHANGED <<passed, fromStart>>
\* PT_INIT and return
Leave(code) == LeaveWith(code) /\ lc' = [lc EXCEPT ![Me] = 0] /\ passed' = [passed EXCEPT ![Me] = 0] /\ UNCHANGED fromStart

Call == /\ frames = <<>> /\ entries < MaxCalls
        /\ frames' = <<Begin("parent", lc.parent)>> /\ entries' = entries + 1
        /\ UNCHANGED <<fn, lc, passed, fromStart>>

\* A new connection: psock_init initialises both, httpd_appcall only the parent, since
\* its child is initialised when it is spawned.
Reinit == /\ frames = <<>> /\ entries > 0 /\ lc.parent # 0
          /\ LET both == Contains(fn.parent, "run") IN
             /\ lc' = [parent |-> 0, child |-> IF both THEN 0 ELSE lc.child]
             /\ passed' = [parent |-> 0, child |-> IF both THEN 0 ELSE passed.child]
          /\ UNCHANGED <<fn, frames, entries, fromStart>>

Plain == Here("plain") /\ Pass /\ UNCHANGED lc
WaitUntil == Here("wait") /\ LcSet /\ (Pass \/ Block("WAITING"))
\* PT_YIELD_FLAG = 0 stands before the LC_SET: it is 1 again when the switch leads here.
YieldFlag == IF Top.jumped THEN Top.yieldFlag ELSE 0
Yield == Here("yield") /\ LcSet /\ IF YieldFlag = 0 THEN Block("YIELDED") ELSE Pass
YieldUntil == /\ Here("yield_until") /\ LcSet
              /\ Block("YIELDED") \/ (YieldFlag # 0 /\ Pass)
Restart == Here("restart") /\ Leave("WAITING")
Exit == Here("exit") /\ Leave("EXITED")
\* Faulty variant: PT_END without its PT_INIT.
EndWithoutInit == /\ frames # <<>> /\ Top.at = Len(fn[Me]) + 1
                  /\ Block("ENDED") /\ UNCHANGED <<fn, entries, lc>>

End == /\ frames # <<>> /\ Top.at = Len(fn[Me]) + 1
       /\ Leave("ENDED") /\ UNCHANGED <<fn, entries>>

\* PT_SPAWN and PT_WAIT_THREAD: LC_SET, then the child is called.
CallChild(s) ==
    /\ Here(s) /\ Top.got = "none"
    /\ LET child == IF s = "spawn" /\ ~Top.jumped THEN 0 ELSE lc.child IN
       /\ lc' = [parent |-> Top.at, child |-> child]
       /\ frames' = <<Begin("child", child)>> \o frames
       /\ fromStart' = ((Top.jumped /\ fromStart) \/ child = 0)
       /\ passed' = IF child = 0 THEN [passed EXCEPT !.child = 0] ELSE passed
Spawn == CallChild("spawn")
WaitThread == CallChild("run")
\* PT_SCHEDULE of what the child returned
ChildReturned == /\ Here("spawn") \/ Here("run")
                 /\ Top.got # "none" /\ UNCHANGED lc
                 /\ IF Top.got = "WAITING" THEN Block("WAITING") ELSE Pass

PtNext == \/ Call \/ Reinit \/ Plain \/ WaitUntil \/ Yield \/ YieldUntil \/ Restart \/ Exit \/ End
          \/ Spawn \/ WaitThread \/ ChildReturned
PtSpec == PtInit /\ [][PtNext]_ptVars

-----------------------------------------------------------------------------
\* Whatever is entered by the switch, statements are passed in the order of the body.
InOrder == frames # <<>> => passed[Me] = Top.at - 1
\* The parent goes on only when the child, from its beginning on, has been run to its end
\* for this statement, not when an earlier connection left it half way (pt.h:176-250).
ChildRanWhole == frames # <<>> /\ Top.got \notin {"none", "WAITING"} =>
                     /\ fromStart /\ passed.child = 0 /\ lc.child = 0
                     /\ Top.got \in {"ENDED", "EXITED"}
ProtothreadSafe == InOrder /\ ChildRanWhole
=============================================================================
