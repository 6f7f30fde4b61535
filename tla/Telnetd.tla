------------------------------ MODULE Telnetd -------------------------------
(***************************************************************************)
(* The telnet server telnetd.c with its shell and the block pool memb.c.   *)
(* All connections share one struct s: those of earlier clients, whose     *)
(* ends come later, too.  A line is its block of the pool; the client's    *)
(* bytes are units, a word of the command language being one.              *)
(***************************************************************************)
EXTENDS Integers, Sequences, FiniteSets

CONSTANTS
    NUMLINES,       \* TELNETD_CONF_NUMLINES, the size of the pool and of s.lines
    PerSegment,     \* lines that fit into one segment
    TelnetBuf,      \* sizeof(s.buf), in units
    Inputs,         \* what the client may send in one segment
    TelnetConns     \* UIP_CONNS

NoLine == 0
Units == {"word", "?", "exit", "cr", "nl", "iac", "will", "do"}
ASSUME TelnetAssumption ==
    /\ NUMLINES \in Nat \ {0} /\ PerSegment \in Nat \ {0} /\ TelnetBuf \in Nat \ {0}
    /\ Inputs \subseteq Seq(Units) /\ TelnetConns \in Nat \ {0}

VARIABLES
    tn,         \* the struct s: state, buf, lines, numsent
    pool,       \* linemem.count
    up,         \* a client's connection is established
    old,        \* how many connections that are not are in LAST_ACK ("over"), in FIN_WAIT_1 or
                \* FIN_WAIT_2 ("closing"), in CLOSING or TIME_WAIT ("waiting")
    onway,      \* lines in transit, not acknowledged
    patient,    \* client discipline: it types nothing while output is on its way
    polite,     \* client discipline: it does not type "exit" with its FIN, and after "exit" it
                \* answers the FIN of the server and breaks nothing off
    alone,      \* client discipline: the next one comes when the connection before is no more
    lost        \* ghost: lines were freed for an acknowledgement that did not cover them

tnVars == <<tn, pool, up, old, onway, patient, polite, alone, lost>>
Ending == {"over", "closing", "waiting"}
LineNo == 1 .. NUMLINES

\* memb_alloc and memb_free
FreeBlocks(m) == {b \in LineNo : m[b] = 0}
FirstFree(m) == CHOOSE b \in FreeBlocks(m) : \A x \in FreeBlocks(m) : b <= x
MembAlloc(m) == [m EXCEPT ![FirstFree(m)] = @ + 1]
MembFree(m, blocks) == [b \in LineNo |-> IF b \in blocks /\ m[b] > 0 THEN m[b] - 1 ELSE m[b]]

\* shell_prompt, shell_output and sendopt: alloc_line, then sendline.  r is [s, m].
OutputLine(r) ==
    LET room == {i \in LineNo : r.s.lines[i] = NoLine}
        b    == FirstFree(r.m)
    IN  IF FreeBlocks(r.m) = {} \/ room = {} THEN r
        ELSE [s |-> [r.s EXCEPT !.lines[CHOOSE i \in room : \A j \in room : i <= j] = b],
              m |-> MembAlloc(r.m)]
Output(r, n) == LET after[i \in 0 .. n] == IF i = 0 THEN r ELSE OutputLine(after[i - 1]) IN after[n]

\* shell_input: parse goes by the beginning of the buffer; then the prompt.  What lies behind
\* an end of line is not looked at, unless the line is empty.
ShellInput(r) ==
    LET first == IF r.s.buf = <<>> THEN "nl" ELSE r.s.buf[1]
        shown == CASE first = "exit" -> [r EXCEPT !.s.state = "CLOSE"]
                   [] first = "?" -> Output(r, 5)
                   [] OTHER -> Output(r, 1)
    IN  [Output(shown, 1) EXCEPT !.s.buf = <<>>]
GetChar(r, u) ==
    IF u = "cr" THEN r
    ELSE IF u = "nl" \/ Len(r.s.buf) = TelnetBuf - 1 THEN ShellInput(r)
    ELSE [r EXCEPT !.s.buf = Append(@, u)]

\* newdata, for one unit
TelnetUnit(r, u) ==
    CASE r.s.state = "NORMAL" -> IF u = "iac" THEN [r EXCEPT !.s.state = "IAC"] ELSE GetChar(r, u)
      [] r.s.state = "IAC" -> IF u = "iac" THEN [GetChar(r, u) EXCEPT !.s.state = "NORMAL"]
                              ELSE [r EXCEPT !.s.state = IF u \in {"will", "do"} THEN u ELSE "NORMAL"]
      [] r.s.state \in {"will", "do"} -> [OutputLine(r) EXCEPT !.s.state = "NORMAL"]
      [] r.s.state = "CLOSE" -> r
TelnetNewdata(r, data) ==
    LET after[i \in 0 .. Len(data)] == IF i = 0 THEN r ELSE TelnetUnit(after[i - 1], data[i])
    IN  after[Len(data)]

\* Faulty variant: nothing is freed.
TelnetClosedKeeps(r) == r

\* closed frees the lines and leaves s.lines as it is; acked frees the first numsent.
TelnetClosed(r) == [r EXCEPT !.m = MembFree(@, {r.s.lines[i] : i \in LineNo})]
TelnetAcked(r) ==
    LET n == r.s.numsent IN
    [s |-> [r.s EXCEPT !.numsent = 0,
                       !.lines = [i \in LineNo |-> IF i + n <= NUMLINES THEN @[i + n] ELSE NoLine]],
     m |-> MembFree(r.m, {r.s.lines[i] : i \in 1 .. n})]

\* senddata packs lines until one does not fit or the list ends.
Packed(s) == CHOOSE n \in 0 .. NUMLINES :
    /\ n <= PerSegment /\ \A i \in 1 .. n : s.lines[i] # NoLine
    /\ n = PerSegment \/ n = NUMLINES \/ s.lines[n + 1] = NoLine
TelnetSenddata(r) == [r EXCEPT !.s.numsent = Packed(r.s)]

-----------------------------------------------------------------------------
\* telnetd_init
TelnetInit == /\ tn = [state |-> "NORMAL", buf |-> <<>>, lines |-> [i \in LineNo |-> NoLine], numsent |-> 0]
              /\ pool = [b \in LineNo |-> 0] /\ up = FALSE /\ old = [e \in Ending |-> 0] /\ onway = 0
              /\ patient \in BOOLEAN /\ polite \in BOOLEAN /\ alone \in BOOLEAN /\ lost = FALSE

State == [s |-> tn, m |-> pool]
Becomes(r) == tn' = r.s /\ pool' = r.m /\ UNCHANGED <<patient, polite, alone>>
NoneEnding == \A e \in Ending : old[e] = 0
Leaves(e) == up' = FALSE /\ onway' = 0 /\ old' = [old EXCEPT ![e] = @ + 1]

\* uip_connected: shell_start writes three lines.
TelnetConnect ==
    /\ ~up /\ up' = TRUE /\ old["over"] + old["closing"] + old["waiting"] < TelnetConns
    /\ alone => NoneEnding
    /\ LET fresh == [tn EXCEPT !.lines = [i \in LineNo |-> NoLine], !.buf = <<>>, !.state = "NORMAL"]
           r == TelnetSenddata(Output([s |-> fresh, m |-> pool], 3))
       IN  Becomes(r) /\ onway' = r.s.numsent
    /\ UNCHANGED <<old, lost>>

\* A call in STATE_CLOSE does nothing but uip_close, whatever it is for.
Normal(r) == [r EXCEPT !.s.state = "NORMAL"]
\* What is left to do at uip_closed, uip_aborted and uip_timedout
AppEnd(r) == IF r.s.state = "CLOSE" THEN Normal(r) ELSE TelnetClosed(r)
TelnetClose ==
    /\ up /\ tn.state = "CLOSE" /\ Becomes(Normal(State)) /\ UNCHANGED lost
    /\ \/ Leaves("closing")
       \/ onway > 0 /\ UNCHANGED <<up, old, onway>>  \* uip_rexmit: uip_process looks at no flag then

\* A call for data, an acknowledgement, a retransmission or a poll
TelnetCall(ack, data) ==
    /\ up /\ tn.state # "CLOSE"
    /\ LET acked == IF ack THEN TelnetAcked(State) ELSE State
           r     == TelnetSenddata(TelnetNewdata(acked, data))
       IN  /\ Becomes(r)
           /\ onway' = IF ack \/ onway = 0 THEN r.s.numsent ELSE onway
    /\ lost' = (lost \/ (ack /\ tn.numsent > onway))
    /\ UNCHANGED <<up, old>>
TelnetData == \E data \in Inputs, ack \in {onway > 0, FALSE} :
                  (patient /\ onway > 0 => ack) /\ TelnetCall(ack, data)
TelnetAck == onway > 0 /\ TelnetCall(TRUE, <<>>)
TelnetOther == TelnetCall(FALSE, <<>>)      \* uip_rexmit and uip_poll

\* The client's FIN, with data and the acknowledgement of what is on its way: without that
\* it is dropped.
TelnetFin ==
    /\ up /\ Leaves("over") /\ UNCHANGED lost
    /\ \/ tn.state = "CLOSE" /\ Becomes(Normal(State))
       \/ /\ tn.state # "CLOSE"
          /\ \E data \in {<<>>} \cup Inputs :
                LET freed == TelnetClosed(State)
                    r     == TelnetNewdata(IF onway > 0 THEN TelnetAcked(freed) ELSE freed, data)
                IN  /\ polite => r.s.state # "CLOSE"
                    /\ Becomes(IF onway > 0 \/ data # <<>> THEN TelnetSenddata(r) ELSE r)

\* uip_aborted and uip_timedout
TelnetBreaks == /\ up /\ (polite => tn.state # "CLOSE")
                /\ up' = FALSE /\ onway' = 0 /\ Becomes(AppEnd(State)) /\ UNCHANGED <<old, lost>>

\* The calls for connections that end: one at the client's acknowledgement of the FIN from
\* LAST_ACK or at its own FIN after that of the server; or at a reset or timeout.
TelnetLate == \E e \in Ending :
    /\ old[e] > 0 /\ Becomes(AppEnd(State)) /\ UNCHANGED <<up, onway, lost>>
    /\ \/ old' = [old EXCEPT ![e] = @ - 1]
       \/ e = "closing" /\ old' = [old EXCEPT !["closing"] = @ - 1, !["waiting"] = @ + 1]
\* FIN_WAIT_2 and TIME_WAIT end by their timer, without a call.
TelnetSilent == \E e \in {"waiting"} \cup (IF polite THEN {} ELSE {"closing"}) :
    /\ old[e] > 0 /\ old' = [old EXCEPT ![e] = @ - 1]
    /\ UNCHANGED <<tn, pool, up, onway, patient, polite, alone, lost>>

TelnetNext == \/ TelnetConnect \/ TelnetClose \/ TelnetData \/ TelnetAck \/ TelnetOther
              \/ TelnetFin \/ TelnetBreaks \/ TelnetLate \/ TelnetSilent
TelnetSpec == TelnetInit /\ [][TelnetNext]_tnVars

-----------------------------------------------------------------------------
InUse == {tn.lines[i] : i \in LineNo} \ {NoLine}
\* When clients come one after the other, the lines of a session are allocated, each once,
\* although each end of a connection may be told twice; with polite ones every other block is
\* free, and all are when nobody is there, so that no session takes memory with it.  With
\* patient ones no line is freed unseen (telnetd_appcall, closed, acked).
LinesAccounted ==
    /\ alone /\ up =>
          /\ \A b \in InUse : pool[b] = 1
          /\ \A i, j \in LineNo : tn.lines[i] = tn.lines[j] /\ i # j => tn.lines[i] = NoLine
    /\ alone /\ polite /\ (up \/ old["closing"] > 0) => {b \in LineNo : pool[b] > 0} = InUse
    /\ alone /\ polite /\ ~up /\ NoneEnding => \A b \in LineNo : pool[b] = 0
    /\ patient => ~lost
=============================================================================
