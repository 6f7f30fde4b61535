------------------------------- MODULE UipTcp -------------------------------
(***************************************************************************)
(* The TCP part of uip_process (uip.c): the table of connections, passive  *)
(* and active open, retransmission, data in both directions, the four ways *)
(* of closing and TIME_WAIT, between an application and remote sessions.   *)
(*                                                                         *)
(* The network may lose, repeat, delay and reorder: a segment a remote has *)
(* sent may arrive at any later time any number of times (SegmentsOf), and *)
(* so may every segment uIP has sent (wire).  Sequence numbers count from  *)
(* the SYN of each side, and every segment of the application is one byte  *)
(* long.  The countdown to a retransmission is a choice of the timer call. *)
(***************************************************************************)
EXTENDS Integers, Sequences, FiniteSets

CONSTANTS
    Slot,               \* uip_conns, 1 .. UIP_CONNS
    Session,            \* connections of remote hosts, as the remote side sees them
    NoSession,          \* the remote side of a slot never used
    Client,             \* the sessions that the remote host opens
    Addr,               \* remote address and port of each session
    FirstPort, PortLimit, \* uip_connect hands out FirstPort .. PortLimit - 1 (4096, 32000)
    ListenPort,         \* the port the application listens to
    MAXRTX, MAXSYNRTX,  \* UIP_MAXRTX, UIP_MAXSYNRTX
    TIMEOUT,            \* UIP_TIME_WAIT_TIMEOUT
    Load                \* bounds: sessions that take place, bytes each side sends, slots not taken by
                        \* others, ways in which a side ends a session, whether uip_stop is used

ASSUME TcpAssumption ==
    /\ IsFiniteSet(Slot) /\ Slot = 1 .. Cardinality(Slot)
    /\ NoSession \notin Session /\ Client \subseteq Session
    /\ \A s, t \in Client : Addr[s] = Addr[t] => s = t     \* a host uses a port once
    /\ {FirstPort, PortLimit, ListenPort} \subseteq Nat /\ ListenPort < FirstPort
    /\ FirstPort + Cardinality(Slot) < PortLimit
    /\ 0 < ListenPort /\ MAXSYNRTX \in Nat /\ MAXRTX \in Nat /\ TIMEOUT \in Nat \ {0, 1}
    /\ \A l \in Load : 1 .. l.slots \subseteq Slot /\ l.bytes \in Nat

VARIABLES
    conns,  \* uip_conns
    lastport,
    app,    \* per slot: what the application was told, got, and sent and saw acknowledged
    rem,    \* per session: state of the remote side
    wire,   \* per session: the segments uIP sent to it, apart from bare acknowledgements
    load    \* the bound of this behaviour

tcpVars == <<conns, lastport, app, rem, wire, load>>

Closing == {"FIN_WAIT_1", "FIN_WAIT_2", "CLOSING", "TIME_WAIT", "LAST_ACK"}
Rto == 1                \* the timer value an acknowledgement leaves behind

FreshConn == [st |-> "CLOSED", stopped |-> FALSE, lport |-> 0, peer |-> NoSession,
              snd |-> 0, rcv |-> 0, len |-> 0, nrtx |-> 0, timer |-> 0]
FreshApp  == [view |-> "none", got |-> <<>>, acked |-> 0]

TcpInit ==
    /\ conns = [c \in Slot |-> FreshConn]
    /\ lastport = FirstPort
    /\ app = [c \in Slot |-> FreshApp]
    /\ rem = [s \in Session |-> [phase |-> "idle", lport |-> IF s \in Client THEN ListenPort ELSE 0, sent |-> 0,
                                 fin |-> FALSE, rst |-> FALSE, rcv |-> 0, got |-> <<>>]]
    /\ wire = [s \in Session |-> {}]
    /\ load \in Load

Packet(kind, seq, item) == [kind |-> kind, seq |-> seq, item |-> item]
Emit(s, p) == wire' = [wire EXCEPT ![s] = @ \cup {p}]
-----------------------------------------------------------------------------
(* Opening.                                                                *)

Unused == {c \in 1 .. load.slots : conns[c].st = "CLOSED"}
Waiting == {c \in 1 .. load.slots : conns[c].st = "TIME_WAIT"}

\* The slot for a new connection: the first CLOSED one, else the oldest in
\* TIME_WAIT (the first of those with the largest timer).
IsFreeSlot(c) ==
    \/ c \in Unused /\ \A d \in Unused : c <= d
    \/ /\ Unused = {} /\ c \in Waiting
       /\ \A d \in Waiting : \/ conns[d].timer < conns[c].timer
                             \/ conns[d].timer = conns[c].timer /\ c <= d

Steps == 1 .. (PortLimit - FirstPort)
PortAfter(n) == FirstPort + ((lastport - FirstPort + n) % (PortLimit - FirstPort))
\* Faulty variant: a connection that is being opened does not hold its port.
InUseOnceUp(p) == \E c \in Slot : /\ conns[c].st \notin {"CLOSED", "SYN_SENT"}
                                  /\ conns[c].lport = p
InUse(p) == \E c \in Slot : conns[c].st # "CLOSED" /\ conns[c].lport = p
\* The next port, in turn, that no connection uses.
NextPort == LET n == CHOOSE n \in Steps : /\ ~InUse(PortAfter(n))
                                          /\ \A m \in 1 .. n - 1 : InUse(PortAfter(m))
            IN  PortAfter(n)

Attached(s) == \E c \in Slot : conns[c].st # "CLOSED" /\ conns[c].peer = s

\* uip_connect: the SYN goes out with the first timer call.  Without a slot only
\* the port is used up.  When the ports come around to one that an earlier session with
\* the same server had, the segments of that one have left the network (NetworkForgets).
UipConnect(s) ==
    /\ s \notin Client /\ rem[s].phase = "idle" /\ s \in load.sessions
    /\ \A t \in Session \ Client : Addr[t] = Addr[s] /\ ~Attached(t) => rem[t].lport # NextPort
    /\ lastport' = NextPort
    /\ \/ \E c \in Slot :
            /\ IsFreeSlot(c)
            /\ conns' = [conns EXCEPT ![c] = [FreshConn EXCEPT !.st = "SYN_SENT",
                            !.lport = NextPort, !.peer = s, !.rcv = conns[c].rcv, !.len = 1]]
            /\ app' = [app EXCEPT ![c] = FreshApp]
            /\ rem' = [rem EXCEPT ![s].phase = "listen", ![s].lport = NextPort]
       \/ /\ Unused = {} /\ Waiting = {}
          /\ UNCHANGED <<conns, app, rem>>
    /\ UNCHANGED <<wire, load>>

\* The connection in slot c has the ports and the address of session s.
Matches(c, s) == /\ conns[c].st # "CLOSED" /\ conns[c].lport = rem[s].lport
                 /\ conns[c].peer # NoSession /\ Addr[conns[c].peer] = Addr[s]

\* The segments the remote side of s may have in the network.  No SYN outlives
\* the connection it opened: uIP's initial sequence number, which counts timer
\* calls, would not tell the old acknowledgements from new ones.
SegmentsOf(s) ==
    LET r    == rem[s]
        seen == r.rcv >= 1
        seg(f, q, a, n) == [flags |-> f, seq |-> q, ack |-> a, n |-> n]
    IN  IF r.phase = "gone" THEN {} ELSE
        (IF s \in Client /\ (r.phase = "syn" \/ \E c \in Slot : Matches(c, s) /\ r.phase # "idle")
         THEN {seg({"SYN"}, 0, 0, 0)} ELSE {})
        \cup (IF s \notin Client /\ seen THEN {seg({"SYN", "ACK"}, 0, 1, 0)} ELSE {})
        \cup {seg({"ACK"}, 1, a, 0) : a \in 1 .. r.rcv}
        \cup {seg({"ACK"}, qn[1], a, qn[2]) : a \in 1 .. r.rcv,
                    qn \in {x \in (1 .. r.sent) \X (1 .. r.sent) : x[1] + x[2] <= r.sent + 1}}
        \cup (IF r.fin THEN {seg({"FIN", "ACK"}, r.sent + 1 - n, a, n) :
                                    a \in 1 .. r.rcv, n \in 0 .. r.sent} ELSE {})
        \cup (IF r.rst THEN {seg({"RST"}, 0, 0, 0)} ELSE {})

\* found_listen: a SYN that matches no connection takes a slot; without a
\* slot, or for any other segment, uIP drops it or answers with a reset.
InputListen(s, g) ==
    /\ ~\E c \in Slot : Matches(c, s)
    /\ \/ /\ g.flags = {"SYN"} /\ rem[s].lport = ListenPort
          /\ \E c \in Slot :
                /\ IsFreeSlot(c)
                /\ conns' = [conns EXCEPT ![c] = [FreshConn EXCEPT !.st = "SYN_RCVD",
                                !.lport = rem[s].lport, !.peer = s, !.rcv = g.seq + 1, !.len = 1]]
                /\ app' = [app EXCEPT ![c] = FreshApp]
          /\ Emit(s, Packet("SYN", 0, 0))
       \/ /\ g.flags # {"SYN"} /\ "RST" \notin g.flags
          /\ Emit(s, Packet("RST", g.ack, 0))
          /\ UNCHANGED <<conns, app>>
    /\ UNCHANGED <<lastport, rem, load>>
-----------------------------------------------------------------------------
(* The application.  It is called with flags (here: after its record a has *)
(* been updated) and answers by sending, closing, aborting, stopping or    *)
(* restarting the flow, or not at all.  It sends or closes only when none  *)
(* of its bytes is unacknowledged, and repeats byte acked + 1 when asked.  *)

\* appsend: what follows from the answer.  k is the connection, a the record
\* of the application after the event.
AppAnswers(c, k, a) ==
    LET done(k2, a2) == /\ conns' = [conns EXCEPT ![c] = k2]
                        /\ app' = [app EXCEPT ![c] = a2]
        k0 == [k EXCEPT !.nrtx = 0]
    IN  \/ done(k0, a) /\ UNCHANGED wire
        \/ /\ "abort" \in load.ends                                                 \* uip_abort
           /\ done([k EXCEPT !.st = "CLOSED"], [a EXCEPT !.view = "ended"])
           /\ Emit(k.peer, Packet("RST", k.snd, 0))
        \/ /\ k.len = 0 /\ "close" \in load.ends                                    \* uip_close
           /\ done([k0 EXCEPT !.st = "FIN_WAIT_1", !.stopped = FALSE, !.len = 1],
                   [a EXCEPT !.view = "closing"])
           /\ Emit(k.peer, Packet("FIN", k.snd, 0))
        \/ /\ k.len = 0 /\ a.acked < load.bytes                                     \* uip_send
           /\ done([k0 EXCEPT !.len = 1], a)
           /\ Emit(k.peer, Packet("DATA", k.snd, a.acked + 1))
        \/ /\ ~k.stopped /\ load.stops                                              \* uip_stop
           /\ done([k0 EXCEPT !.stopped = TRUE], a) /\ UNCHANGED wire
        \/ /\ k.stopped                                                             \* uip_restart
           /\ done([k0 EXCEPT !.stopped = FALSE], a) /\ UNCHANGED wire

\* The application is told the connection's end, once or again.
End(c, k) == /\ conns' = [conns EXCEPT ![c] = k]
             /\ app' = [app EXCEPT ![c].view = "ended"]

\* Faulty variant: any acknowledgement will do.
AcksAny(k, g) == k.len > 0 /\ "ACK" \in g.flags

\* The segment acknowledges what is outstanding.
Acks(k, g) == k.len > 0 /\ "ACK" \in g.flags /\ g.ack = k.snd + k.len
AfterAck(k, g) == IF Acks(k, g) THEN [k EXCEPT !.snd = @ + k.len, !.len = 0, !.timer = Rto] ELSE k

\* A segment that takes up sequence space is processed only in sequence.
InSequence(k, g) ==
    \/ k.st = "SYN_SENT" /\ g.flags = {"SYN", "ACK"}
    \/ g.n = 0 /\ g.flags \cap {"SYN", "FIN"} = {}
    \/ g.seq = k.rcv

Bytes(g) == [i \in 1 .. g.n |-> g.seq + i - 1]  \* the data of a segment: its sequence numbers
-----------------------------------------------------------------------------
(* Input to the connection in slot c, one action per state.                *)

\* Any RST ends the connection.
InputReset(c, g) ==
    /\ "RST" \in g.flags
    /\ End(c, [conns[c] EXCEPT !.st = "CLOSED"])
    /\ UNCHANGED wire

\* Out of sequence: answered with an acknowledgement, which changes nothing.
InputOutOfSequence(c, g) ==
    /\ "RST" \notin g.flags /\ ~InSequence(conns[c], g)
    /\ UNCHANGED <<conns, app, wire>>

Accepted(c, st, g) == conns[c].st = st /\ "RST" \notin g.flags /\ InSequence(conns[c], g)

InputSynRcvd(c, g) ==
    LET k == AfterAck(conns[c], g) IN
    /\ Accepted(c, "SYN_RCVD", g)
    /\ IF Acks(conns[c], g)
       THEN AppAnswers(c, [k EXCEPT !.st = "ESTABLISHED", !.rcv = @ + g.n],
                       [app[c] EXCEPT !.view = "open", !.got = Bytes(g)])
       ELSE UNCHANGED <<conns, app, wire>>

\* Anything but the right SYNACK ends the attempt.
InputSynSent(c, g) ==
    LET k == AfterAck(conns[c], g) IN
    /\ Accepted(c, "SYN_SENT", g)
    /\ IF Acks(conns[c], g) /\ g.flags = {"SYN", "ACK"}
       THEN AppAnswers(c, [k EXCEPT !.st = "ESTABLISHED", !.rcv = g.seq + 1],
                       [app[c] EXCEPT !.view = "open"])
       ELSE /\ End(c, [k EXCEPT !.st = "CLOSED"])
            /\ Emit(k.peer, Packet("RST", g.ack, 0))

\* ESTABLISHED: FIN first, unless the application stopped the flow; then data
\* and acknowledgement, and the application is called when there was either.
InputEstablished(c, g) ==
    LET k   == AfterAck(conns[c], g)
        a   == IF Acks(conns[c], g) THEN [app[c] EXCEPT !.acked = @ + 1] ELSE app[c]
        new == g.n > 0 /\ ~k.stopped
    IN
    /\ Accepted(c, "ESTABLISHED", g)
    /\ \/ /\ "FIN" \in g.flags /\ ~k.stopped
          /\ IF k.len # 0
             THEN UNCHANGED <<conns, app, wire>>
             ELSE /\ conns' = [conns EXCEPT ![c] = [k EXCEPT !.rcv = @ + g.n + 1, !.len = 1,
                                                        !.st = "LAST_ACK", !.nrtx = 0]]
                  /\ app' = [app EXCEPT ![c] = [a EXCEPT !.got = @ \o Bytes(g), !.view = "ended"]]
                  /\ Emit(k.peer, Packet("FIN", k.snd, 0))
       \/ /\ "FIN" \notin g.flags \/ k.stopped
          /\ IF new \/ Acks(conns[c], g)
             THEN AppAnswers(c, IF new THEN [k EXCEPT !.rcv = @ + g.n] ELSE k,
                             IF new THEN [a EXCEPT !.got = @ \o Bytes(g)] ELSE a)
             ELSE UNCHANGED <<conns, app, wire>>

InputLastAck(c, g) ==
    /\ Accepted(c, "LAST_ACK", g)
    /\ IF Acks(conns[c], g) THEN End(c, [AfterAck(conns[c], g) EXCEPT !.st = "CLOSED"])
                            ELSE UNCHANGED <<conns, app>>
    /\ UNCHANGED wire

InputFinWait1(c, g) ==
    LET k == [AfterAck(conns[c], g) EXCEPT !.rcv = @ + g.n] IN
    /\ Accepted(c, "FIN_WAIT_1", g)
    /\ IF "FIN" \in g.flags
       THEN End(c, IF Acks(conns[c], g)
                   THEN [k EXCEPT !.st = "TIME_WAIT", !.timer = 0, !.rcv = @ + 1]
                   ELSE [k EXCEPT !.st = "CLOSING", !.rcv = @ + 1])
       ELSE /\ conns' = [conns EXCEPT ![c] =
                            IF Acks(conns[c], g) THEN [k EXCEPT !.st = "FIN_WAIT_2"] ELSE k]
            /\ UNCHANGED app
    /\ UNCHANGED wire

InputFinWait2(c, g) ==
    LET k == [AfterAck(conns[c], g) EXCEPT !.rcv = @ + g.n] IN
    /\ Accepted(c, "FIN_WAIT_2", g)
    /\ IF "FIN" \in g.flags
       THEN End(c, [k EXCEPT !.st = "TIME_WAIT", !.timer = 0, !.rcv = @ + 1])
       ELSE conns' = [conns EXCEPT ![c] = k] /\ UNCHANGED app
    /\ UNCHANGED wire

InputClosing(c, g) ==
    /\ Accepted(c, "CLOSING", g)
    /\ conns' = [conns EXCEPT ![c] = IF Acks(@, g)
                    THEN [AfterAck(@, g) EXCEPT !.st = "TIME_WAIT", !.timer = 0] ELSE @]
    /\ UNCHANGED <<app, wire>>

InputTimeWait(c, g) == Accepted(c, "TIME_WAIT", g) /\ UNCHANGED <<conns, app, wire>>

\* uip_input for a TCP segment: the first connection that matches gets it.
UipInput(s, g) ==
    \/ InputListen(s, g)
    \/ \E c \in Slot :
        /\ Matches(c, s) /\ \A d \in Slot : Matches(d, s) => c <= d
        /\ \/ InputReset(c, g) \/ InputOutOfSequence(c, g)
           \/ InputSynRcvd(c, g) \/ InputSynSent(c, g) \/ InputEstablished(c, g)
           \/ InputLastAck(c, g) \/ InputFinWait1(c, g) \/ InputFinWait2(c, g)
           \/ InputClosing(c, g) \/ InputTimeWait(c, g)
        /\ UNCHANGED <<lastport, rem, load>>
-----------------------------------------------------------------------------
(* uip_periodic: the timer call for slot c.                                *)

\* Faulty variant: FIN_WAIT_2 waits for the remote.
TimerClosesTimeWait(c) ==
    /\ conns[c].st = "TIME_WAIT"
    /\ conns' = [conns EXCEPT ![c].timer = @ + 1,
                              ![c].st = IF conns[c].timer + 1 = TIMEOUT THEN "CLOSED" ELSE @]
    /\ UNCHANGED <<lastport, app, rem, wire, load>>

\* TIME_WAIT and FIN_WAIT_2 end by themselves.
TimerCloses(c) ==
    /\ conns[c].st \in {"TIME_WAIT", "FIN_WAIT_2"}
    /\ conns' = [conns EXCEPT ![c].timer = @ + 1,
                              ![c].st = IF conns[c].timer + 1 = TIMEOUT THEN "CLOSED" ELSE @]
    /\ UNCHANGED <<lastport, app, rem, wire, load>>

RexmitDue(c) == conns[c].st \notin {"CLOSED", "TIME_WAIT", "FIN_WAIT_2"} /\ conns[c].len # 0

GivesUp(c) == \/ conns[c].nrtx = MAXRTX
              \/ conns[c].st \in {"SYN_SENT", "SYN_RCVD"} /\ conns[c].nrtx = MAXSYNRTX

\* Faulty variant: the application is not called.
TimerTimedOutSilent(c) ==
    /\ RexmitDue(c) /\ GivesUp(c)
    /\ conns' = [conns EXCEPT ![c].st = "CLOSED"]
    /\ Emit(conns[c].peer, Packet("RST", conns[c].snd, 0))
    /\ UNCHANGED <<lastport, app, rem, load>>

\* Too many retransmissions: the application is told and the remote is reset.
TimerTimedOut(c) ==
    /\ RexmitDue(c) /\ GivesUp(c)
    /\ End(c, [conns[c] EXCEPT !.st = "CLOSED"])
    /\ Emit(conns[c].peer, Packet("RST", conns[c].snd, 0))
    /\ UNCHANGED <<lastport, rem, load>>

\* Retransmission; the application is asked for its data again.
TimerRexmit(c) ==
    LET k == conns[c] IN
    /\ RexmitDue(c) /\ ~GivesUp(c)
    /\ conns' = [conns EXCEPT ![c].nrtx = @ + 1]
    /\ Emit(k.peer, CASE k.st \in {"SYN_RCVD", "SYN_SENT"} -> Packet("SYN", k.snd, 0)
                      [] k.st = "ESTABLISHED" -> Packet("DATA", k.snd, app[c].acked + 1)
                      [] OTHER -> Packet("FIN", k.snd, 0))
    /\ UNCHANGED <<lastport, app, rem, load>>

\* Nothing outstanding: the application is polled.
TimerPoll(c) ==
    /\ conns[c].st = "ESTABLISHED" /\ conns[c].len = 0
    /\ AppAnswers(c, conns[c], app[c])
    /\ UNCHANGED <<lastport, rem, load>>

UipPeriodic(c) == TimerCloses(c) \/ TimerTimedOut(c) \/ TimerRexmit(c) \/ TimerPoll(c)
-----------------------------------------------------------------------------
(* The remote sessions: ordinary TCP endpoints, as far as uIP can tell.    *)

RemoteOpen(s) == /\ s \in Client \cap load.sessions /\ rem[s].phase = "idle"
                 /\ rem' = [rem EXCEPT ![s].phase = "syn"]
                 /\ UNCHANGED <<conns, lastport, app, wire, load>>

\* A segment of uIP arrives that the remote was waiting for.
RemoteTakes(s, p) ==
    LET r == rem[s] IN
    /\ p \in wire[s] /\ ~r.rst
    /\ \/ p.kind = "SYN" /\ r.phase \in {"syn", "listen"}
          /\ rem' = [rem EXCEPT ![s].phase = "up", ![s].rcv = 1]
       \/ p.kind = "DATA" /\ r.phase = "up" /\ p.seq = r.rcv
          /\ rem' = [rem EXCEPT ![s].rcv = @ + 1, ![s].got = Append(@, p.item)]
       \/ p.kind = "FIN" /\ r.phase = "up" /\ p.seq = r.rcv
          /\ rem' = [rem EXCEPT ![s].rcv = @ + 1, ![s].phase = "half"]
       \/ p.kind = "RST" /\ r.phase \in {"syn", "listen", "up", "half"}
          /\ rem' = [rem EXCEPT ![s].phase = "dead"]
    /\ UNCHANGED <<conns, lastport, app, wire, load>>

RemoteSends(s) ==
    /\ rem[s].phase \in {"up", "half"} /\ ~rem[s].fin /\ ~rem[s].rst
    /\ \/ rem[s].sent < load.bytes /\ rem' = [rem EXCEPT ![s].sent = @ + 1]
       \/ "fin" \in load.ends /\ rem' = [rem EXCEPT ![s].fin = TRUE]
       \/ "reset" \in load.ends /\ rem' = [rem EXCEPT ![s].rst = TRUE]
    /\ UNCHANGED <<conns, lastport, app, wire, load>>

\* A session that uIP opened is over on both sides, and so are its segments.
NetworkForgets(s) == /\ s \notin Client /\ rem[s].phase \in {"half", "dead"} /\ ~Attached(s)
                     /\ rem' = [rem EXCEPT ![s].phase = "gone", ![s].lport = 0]
                     /\ UNCHANGED <<conns, lastport, app, wire, load>>

TcpNext ==
    \/ \E s \in Session : UipConnect(s) \/ RemoteOpen(s) \/ RemoteSends(s) \/ NetworkForgets(s)
    \/ \E s \in Session : \E p \in wire[s] : RemoteTakes(s, p)
    \/ \E s \in Session : \E g \in SegmentsOf(s) : UipInput(s, g)
    \/ \E c \in Slot : UipPeriodic(c)

TcpSpec == TcpInit /\ [][TcpNext]_tcpVars

\* The periodic timer of the uIP task keeps calling; nothing is assumed of the
\* network, the remote hosts and the application.
FairTcpSpec == TcpSpec /\ \A c \in Slot :
    WF_tcpVars(TimerCloses(c)) /\ WF_tcpVars(TimerTimedOut(c)) /\ WF_tcpVars(TimerRexmit(c))
-----------------------------------------------------------------------------
TcpTypeOK ==
    /\ \A c \in Slot :
        /\ conns[c].st \in Closing \cup {"CLOSED", "SYN_RCVD", "SYN_SENT", "ESTABLISHED"}
        /\ conns[c].len \in 0 .. 1 /\ conns[c].nrtx \in 0 .. MAXRTX /\ conns[c].timer \in 0 .. TIMEOUT
        /\ app[c].view \in {"none", "open", "closing", "ended"} /\ app[c].acked \in 0 .. load.bytes
    /\ \A s \in Session : rem[s].rcv \in 0 .. load.bytes + 2

\* Two connections in use never have the same local port and remote address, so
\* that a segment belongs to one connection, whatever slots are reused and
\* however connections are opened (the demultiplexing and uip_connect).
OneConnectionPerTuple ==
    \A c, d \in Slot : \A s \in Session :
        /\ Matches(c, s) => conns[c].peer = s
        /\ Matches(c, s) /\ Matches(d, s) => c = d

\* The application knows which connections are up: a connection is ESTABLISHED
\* exactly while the application was told CONNECTED and neither closed or
\* aborted it nor was told of its end (every UIP_APPCALL of uip_process).
ApplicationKnows ==
    \A c \in Slot : conns[c].st = "ESTABLISHED" <=> app[c].view = "open"

\* What the application got is what the remote sent, in order and once; and
\* while the connection is up uIP acknowledges just what the application got
\* (rcv_nxt, the sequence check and uip_stop).
DeliveredInOrder ==
    \A c \in Slot :
        /\ app[c].got = [i \in 1 .. Len(app[c].got) |-> i]
        /\ app[c].view = "open" => conns[c].rcv = 1 + Len(app[c].got)

\* The remote gets the bytes of the application in order and once, and a byte
\* reported as acknowledged has arrived (len, snd_nxt and the retransmission).
SentInOrder ==
    /\ \A s \in Session : rem[s].got = [i \in 1 .. Len(rem[s].got) |-> i]
    /\ \A c \in Slot : app[c].view # "none" => app[c].acked <= Len(rem[conns[c].peer].got)

\* The slots as one property: values in range, and a segment belongs to one connection.
TcpSafe == TcpTypeOK /\ OneConnectionPerTuple

\* Both directions are streams, over loss, duplicates and reordering.
BytesInOrder == DeliveredInOrder /\ SentInOrder

\* A connection that is being closed ends, and its slot is free or taken again,
\* whatever the remote does or does not answer (the limit on retransmissions and
\* the timeout of TIME_WAIT and FIN_WAIT_2).
ClosingEnds == \A c \in Slot : conns[c].st \in Closing ~> conns[c].st \notin Closing
=============================================================================
