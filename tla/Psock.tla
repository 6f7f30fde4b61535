-------------------------------- MODULE Psock -------------------------------
(***************************************************************************)
(* Protosockets (psock.c): a protothread that sends and reads over one TCP *)
(* connection, resumed once per call of the application function.  A call  *)
(* is a sequence of steps here, one per evaluation of a wait condition, so *)
(* that a protothread runs through several operations in one call.         *)
(*                                                                         *)
(* data_acked(s) & send_data(s) is evaluated from left to right, which C   *)
(* leaves to the compiler and the code relies on.                          *)
(***************************************************************************)
EXTENDS Integers, Sequences, FiniteSets

CONSTANTS
    Mss,        \* uip_mss(), in units of data
    BufSize,    \* size of the input buffer
    Programs    \* the protothreads: [ops, loss], whether their packets may get lost

Op(name, n) == [op |-> name, len |-> n]
Ops == [op : {"send", "generate", "read"}, len : Nat]

\* Reads a line and sends more than two segments, and no packet gets lost.
LongSend == {[ops |-> <<Op("read", 3), Op("send", 5), Op("send", 1)>>, loss |-> FALSE]}

ASSUME PsockAssumption ==
    /\ Mss \in Nat \ {0} /\ BufSize \in Nat \ {0}
    /\ \A p \in Programs : p.ops \in Seq(Ops) /\ p.loss \in BOOLEAN

VARIABLES
    program,
    pc, waits,      \* the operation the protothread is in, and whether it has begun it
    ps,             \* the struct psock: state, sendptr, sendlen, readptr, readlen
    line,           \* the input buffer
    appdata,        \* what lies at uip_appdata
    flags,          \* uip_flags during a call of the application, {} outside
    outgoing,       \* what uip_send was called with in this call
    transit,        \* data sent and not acknowledged
    arrived,        \* transit has been received by the peer
    delivered,      \* what the peer has received
    peer,           \* what the peer has sent: lines, and units of the current one
    lines           \* ghost: the lines the protothread has read

psVars == <<program, pc, waits, ps, line, appdata, flags, outgoing, transit, arrived,
            delivered, peer, lines>>

Byte(i, j) == [op |-> i, at |-> j]
Junk == [i \in 1 .. Mss |-> Byte(0, 0)]
Piece(i, from, n) == [j \in 1 .. n |-> Byte(i, from + j)]
Smaller(a, b) == IF a < b THEN a ELSE b
Finished == pc > Len(program.ops)
Now == program.ops[pc]

\* psock_init; a connection is set up and the protothread runs for the first time.
PsockInit ==
    /\ program \in Programs /\ pc = 1 /\ waits = FALSE
    /\ ps = [state |-> "NONE", sendptr |-> 0, sendlen |-> 0, readptr |-> 0, readlen |-> 0]
    /\ line = <<>> /\ appdata = Junk /\ flags = {"connected"} /\ outgoing = <<>>
    /\ transit = <<>> /\ arrived = FALSE /\ delivered = <<>>
    /\ peer = [line |-> 1, unit |-> 0] /\ lines = <<>>

\* data_acked: the struct afterwards and whether it returns 1
Outcome(s, ok) == [s |-> s, ok |-> ok]
\* Faulty variant: data that was sent is taken for acknowledged.
DataAckedUnasked(s) ==
    IF s.state = "DATA_SENT"
    THEN LET n == Smaller(s.sendlen, Mss) IN
         Outcome([s EXCEPT !.state = "ACKED", !.sendlen = @ - n, !.sendptr = @ + n], TRUE)
    ELSE Outcome(s, FALSE)

DataAcked(s) ==
    IF s.state = "DATA_SENT" /\ "ack" \in flags
    THEN LET n == Smaller(s.sendlen, Mss) IN
         Outcome([s EXCEPT !.state = "ACKED", !.sendlen = @ - n, !.sendptr = @ + n], TRUE)
    ELSE Outcome(s, FALSE)

\* send_data
SendsNow(s) == s.state # "DATA_SENT" \/ "rexmit" \in flags
SendData(s) == IF SendsNow(s) THEN Outcome([s EXCEPT !.state = "DATA_SENT"], TRUE)
               ELSE Outcome(s, FALSE)
\* What send_data gives to uip_send: a generator's data lies at uip_appdata already.
Sends(s) == LET n == Smaller(s.sendlen, Mss) IN
    IF ~SendsNow(s) \/ n = 0 THEN outgoing
    ELSE IF Now.op = "generate" THEN SubSeq(appdata, 1, n) ELSE Piece(pc, s.sendptr, n)

-----------------------------------------------------------------------------
Continues == /\ flags # {} /\ ~Finished
             /\ UNCHANGED <<program, transit, arrived, delivered, peer>>

\* uip_process after the application function has returned: appsend, apprexmit.
Return(data) ==
    /\ flags' = {} /\ outgoing' = <<>>
    /\ IF data # <<>> /\ (transit = <<>> \/ "rexmit" \in flags)
       THEN transit' = data /\ UNCHANGED arrived
       ELSE UNCHANGED <<transit, arrived>>
    /\ UNCHANGED <<program, delivered, peer>>

NextOp == pc' = pc + 1 /\ waits' = FALSE

\* psock_send and psock_generator_send up to their loops
BeginSend ==
    /\ Continues /\ ~waits /\ Now.op \in {"send", "generate"}
    /\ IF Now.op = "send" /\ Now.len = 0 THEN NextOp /\ UNCHANGED <<ps, appdata>>
       ELSE /\ ps' = [ps EXCEPT !.state = "NONE", !.sendlen = Now.len, !.sendptr = 0]
            /\ appdata' = IF Now.op = "generate" THEN Piece(pc, 0, Now.len) ELSE appdata
            /\ waits' = TRUE /\ UNCHANGED pc
    /\ UNCHANGED <<line, flags, outgoing, lines>>

\* Their loops: when the wait is over the condition may be evaluated again in the same call.
WaitSend ==
    /\ flags # {} /\ ~Finished /\ waits /\ Now.op \in {"send", "generate"}
    /\ LET acked == DataAcked(ps)
           sent  == SendData(acked.s)
           data  == Sends(acked.s)
       IN  /\ IF ~(acked.ok /\ sent.ok)
              THEN ps' = sent.s /\ Return(data) /\ UNCHANGED <<pc, waits>>
              ELSE /\ IF sent.s.sendlen > 0
                      THEN ps' = sent.s /\ UNCHANGED <<pc, waits>>
                      ELSE ps' = [sent.s EXCEPT !.state = "NONE"] /\ NextOp
                   /\ outgoing' = data /\ UNCHANGED flags
                   /\ UNCHANGED <<program, transit, arrived, delivered, peer>>
           /\ appdata' = IF data # outgoing THEN data ELSE appdata
    /\ UNCHANGED <<line, lines>>

\* psock_readto up to its loop
BeginRead ==
    /\ Continues /\ ~waits /\ Now.op = "read"
    /\ line' = <<>> /\ waits' = TRUE
    /\ UNCHANGED <<pc, ps, appdata, flags, outgoing, lines>>

IsEnd(b) == b.op < 0 /\ b.at = 0
\* buf_bufto: up to the first end marker of what is unread
Upto == LET ends == {i \in 1 .. ps.readlen : ps.readptr + i <= Len(appdata)
                                             /\ IsEnd(appdata[ps.readptr + i])} IN
    IF ends = {} THEN ps.readlen ELSE CHOOSE i \in ends : \A j \in ends : i <= j
At(i) == IF i <= Len(appdata) THEN appdata[i] ELSE Byte(0, 0)
Taken(n) == [i \in 1 .. n |-> At(ps.readptr + i)]

ReadTo ==
    /\ Continues /\ waits /\ Now.op = "read" /\ ps.readlen > 0
    /\ LET data == Taken(Upto)
           full == line \o SubSeq(data, 1, Smaller(BufSize - Len(line), Len(data)))
       IN  /\ ps' = [ps EXCEPT !.readptr = @ + Upto, !.readlen = @ - Upto]
           /\ IF IsEnd(data[Upto])
              THEN /\ lines' = Append(lines, full) /\ line' = <<>> /\ NextOp
              ELSE line' = full /\ UNCHANGED <<lines, pc, waits>>
    /\ UNCHANGED <<appdata, flags, outgoing>>

\* psock_newdata, once the state READ has been dealt with
NewData == ps.state # "READ" /\ "new" \in flags

\* PT_WAIT_UNTIL(psock_newdata(psock)) when nothing is left unread
WaitNewData ==
    /\ flags # {} /\ ~Finished /\ waits /\ Now.op = "read" /\ ps.readlen = 0
    /\ \/ /\ ps.state = "READ"
          /\ ps' = [ps EXCEPT !.state = "BLOCKED_NEWDATA"] /\ Return(outgoing)
       \/ ps.state # "READ" /\ ~NewData /\ Return(outgoing) /\ UNCHANGED ps
       \/ /\ NewData /\ Continues
          /\ ps' = [ps EXCEPT !.state = "READ", !.readptr = 0, !.readlen = Len(appdata)]
          /\ UNCHANGED <<flags, outgoing>>
    /\ UNCHANGED <<pc, waits, line, appdata, lines>>

\* The protothread is over: the application closes and is not called again.
EndOfThread == /\ Finished /\ flags # {} /\ Return(outgoing)
               /\ UNCHANGED <<pc, waits, ps, line, appdata, lines>>

-----------------------------------------------------------------------------
(* The connection and the peer (external).  The peer sends a line, in one  *)
(* or two segments, when it has received all that goes before the read;    *)
(* its segments acknowledge what it has received.                          *)
AppCall(f, data) ==
    /\ flags = {} /\ ~Finished
    /\ flags' = f /\ appdata' = data
    /\ transit' = IF "ack" \in f THEN <<>> ELSE transit
    /\ arrived' = IF "ack" \in f THEN FALSE ELSE arrived
    /\ UNCHANGED <<program, pc, waits, ps, line, outgoing, delivered, lines>>

Reads == {i \in 1 .. Len(program.ops) : program.ops[i].op = "read"}
Turn(k) == CHOOSE i \in Reads : Cardinality({j \in Reads : j <= i}) = k
AckIfAny == IF transit # <<>> THEN {"ack"} ELSE {}
OutputOf(i) == IF program.ops[i].op = "read" THEN {} ELSE {Byte(i, j) : j \in 1 .. program.ops[i].len}
Received(i) == OutputOf(i) \subseteq {delivered[j] : j \in 1 .. Len(delivered)}

PeerSends ==
    /\ ~Finished /\ peer.line <= Cardinality(Reads)
    /\ LET i == Turn(peer.line)
           n == program.ops[i].len
           all == [j \in 1 .. n |-> Byte(-peer.line, IF j = n THEN 0 ELSE j)]
       IN  /\ \A j \in 1 .. i - 1 : Received(j) /\ (program.ops[j].op = "read" => pc > j)
           /\ \E to \in peer.unit + 1 .. n :
                 /\ AppCall({"new"} \cup AckIfAny, SubSeq(all, peer.unit + 1, to))
                 /\ peer' = IF to = n THEN [line |-> peer.line + 1, unit |-> 0]
                            ELSE [peer EXCEPT !.unit = to]

PeerReceives == /\ transit # <<>> /\ ~arrived /\ flags = {}
                /\ arrived' = TRUE /\ delivered' = delivered \o transit
                /\ UNCHANGED <<program, pc, waits, ps, line, appdata, flags, outgoing, transit, peer, lines>>
PeerAcks == transit # <<>> /\ arrived /\ AppCall({"ack"}, Junk) /\ UNCHANGED peer
Rexmit == transit # <<>> /\ program.loss /\ AppCall({"rexmit"}, Junk) /\ UNCHANGED peer
Poll == transit = <<>> /\ AppCall({"poll"}, Junk) /\ UNCHANGED peer

PsockNext == \/ BeginSend \/ WaitSend \/ BeginRead \/ ReadTo \/ WaitNewData \/ EndOfThread
             \/ PeerSends \/ PeerReceives \/ PeerAcks \/ Rexmit \/ Poll
PsockSpec == PsockInit /\ [][PsockNext]_psVars

-----------------------------------------------------------------------------
\* psock.h: PSOCK_SEND blocks until all data has been sent and is known to have been
\* received by the remote end; nothing else and nothing twice reaches it.
SendBlocksUntilReceived ==
    /\ \A i \in 1 .. pc - 1 : Received(i)
    /\ \A i, j \in 1 .. Len(delivered) : i < j =>
          \/ delivered[i].op < delivered[j].op
          \/ delivered[i].op = delivered[j].op /\ delivered[i].at < delivered[j].at

\* Every PSOCK_READTO returns the peer's next line (as much as the buffer takes).
ReadsNextLine ==
    \A k \in 1 .. Len(lines) :
        LET n == program.ops[Turn(k)].len IN
        lines[k] = [j \in 1 .. Smaller(BufSize, n) |-> Byte(-k, IF j = n THEN 0 ELSE j)]

\* Both directions, over any cutting into segments, losses and retransmissions (psock.c).
PsockSafe == SendBlocksUntilReceived /\ ReadsNextLine
=============================================================================
