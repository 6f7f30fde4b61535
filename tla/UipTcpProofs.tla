----------------------------- MODULE UipTcpProofs ----------------------------
(***************************************************************************)
(* TCP for any number of connection slots, sessions, ports and bytes, over *)
(* a network that loses, repeats, delays and reorders: a segment belongs   *)
(* to one connection, the application knows which connections are up, and  *)
(* both directions are streams.                                            *)
(***************************************************************************)
EXTENDS UipTcp, UipNetProofs

ConnState == Closing \cup {"CLOSED", "SYN_RCVD", "SYN_SENT", "ESTABLISHED"}
ConnRec == [st : ConnState, stopped : BOOLEAN,
            lport : Nat, peer : Session \cup {NoSession}, snd : Nat, rcv : Nat,
            len : 0 .. 1, nrtx : 0 .. MAXRTX, timer : 0 .. TIMEOUT]
AppRec == [view : {"none", "open", "closing", "ended"}, got : Seq(Nat), acked : Nat]
RemRec == [phase : {"idle", "syn", "listen", "up", "half", "dead", "gone"}, lport : Nat, sent : Nat,
           fin : BOOLEAN, rst : BOOLEAN, rcv : Nat, got : Seq(Nat)]
Away == {"idle", "gone"}     \* a session that has no port of uIP
USE DEF Away
PacketRec == [kind : {"SYN", "DATA", "FIN", "RST"}, seq : Nat, item : Nat]

Opening == {"SYN_RCVD", "SYN_SENT"}

(* The bytes that were passed on are the first ones, in order.             *)
Counts(q) == q = [i \in 1 .. Len(q) |-> i]

(* What a slot shows by itself: before the connection is up neither side   *)
(* has had a byte; while it is up the sequence numbers are those of the    *)
(* bytes that the application got and saw acknowledged.                    *)
ConnOk(k, a) ==
    /\ k \in ConnRec /\ a \in AppRec
    /\ k.st = "ESTABLISHED" <=> a.view = "open"
    /\ Counts(a.got)
    /\ a.acked <= load.bytes /\ (a.view = "none" => a.acked = 0)
    /\ k.st # "CLOSED" => k.timer < TIMEOUT
    /\ k.st # "CLOSED" \/ a.view # "none" => k.peer \in Session
    /\ k.st \in Opening => k.snd = 0 /\ k.len = 1 /\ a.view = "none" /\ a.acked = 0 /\ a.got = <<>>
    /\ k.st = "SYN_RCVD" => k.rcv = 1
    /\ k.st = "ESTABLISHED" => /\ k.snd = a.acked + 1 /\ k.rcv = 1 + Len(a.got)
                               /\ k.len = 1 => a.acked < load.bytes

NoFin(s) == \A p \in wire[s] : p.kind # "FIN"

(* What it shows beside the remote side of its session: a connection that  *)
(* got through the handshake has a remote that did, and uIP has sent no    *)
(* FIN before the connection is being closed.                              *)
LinkOk(k, a) ==
    /\ a.view # "none" => a.acked <= Len(rem[k.peer].got)
    /\ k.st # "CLOSED" => k.lport = rem[k.peer].lport /\ rem[k.peer].phase \notin Away
    /\ k.st \notin Opening \cup {"CLOSED"} => rem[k.peer].rcv >= 1
    /\ k.st \in Opening \cup {"ESTABLISHED"} => NoFin(k.peer)

(* The remote side, and what uIP sent to it: a data segment with sequence  *)
(* number n holds byte n, and the remote got the first bytes in order.     *)
RemOk(s) ==
    /\ s \in Client => rem[s].lport = ListenPort
    /\ s \notin Client => IF rem[s].phase \in Away THEN rem[s].lport = 0 ELSE rem[s].lport >= FirstPort
    /\ Counts(rem[s].got) /\ Len(rem[s].got) <= load.bytes
    /\ rem[s].phase \in {"idle", "syn", "listen"} => rem[s].rcv = 0
    /\ rem[s].rcv = 0 => rem[s].got = <<>> /\ NoFin(s)
    /\ rem[s].phase = "up" => rem[s].rcv = 1 + Len(rem[s].got)
    /\ rem[s].rcv <= 2 + Len(rem[s].got)
    /\ NoFin(s) => rem[s].rcv <= 1 + Len(rem[s].got)
    /\ \A p \in wire[s] : p.kind = "DATA" => p.item = p.seq /\ p.item \in 1 .. load.bytes

Open(c) == conns[c].st # "CLOSED"

TablesOk ==
    /\ conns \in [Slot -> ConnRec] /\ app \in [Slot -> AppRec]
    /\ rem \in [Session -> RemRec] /\ wire \in [Session -> SUBSET PacketRec]
    /\ lastport \in FirstPort .. PortLimit - 1 /\ load \in Load

OneSlotEach == \A c, d \in Slot : Open(c) /\ Open(d) /\ conns[c].peer = conns[d].peer => c = d

(* Sessions with one server that uIP opened have different ports.          *)
PortsApart ==
    \A s, t \in Session \ Client :
        /\ Addr[s] = Addr[t] /\ rem[s].lport = rem[t].lport
        /\ rem[s].phase \notin Away /\ rem[t].phase \notin Away
        => s = t

TcpInv ==
    /\ TablesOk
    /\ \A c \in Slot : ConnOk(conns[c], app[c])
    /\ \A c \in Slot : LinkOk(conns[c], app[c])
    /\ OneSlotEach
    /\ PortsApart
    /\ \A s \in Session : RemOk(s)

-----------------------------------------------------------------------------
(* A segment that has the addresses and ports of a connection is of its    *)
(* session.                                                                *)
LEMMA MatchIsPeer ==
    ASSUME TcpInv, NEW c \in Slot, NEW s \in Session, Matches(c, s)
    PROVE  conns[c].peer = s /\ Open(c)
<1> DEFINE t == conns[c].peer
<1>1. Open(c) /\ conns[c].lport = rem[s].lport /\ Addr[t] = Addr[s]
  BY DEF Matches, Open
<1>2. t \in Session
  BY <1>1 DEF TcpInv, ConnOk, Open
<1>3. rem[t].lport = rem[s].lport /\ rem[t].phase \notin Away
  BY <1>1 DEF TcpInv, LinkOk, Open
<1>4. RemOk(t) /\ RemOk(s)
  BY <1>2 DEF TcpInv
<1>5. rem[s].lport \in Nat
  BY DEF TcpInv, TablesOk, RemRec
<1> HIDE DEF t
<1>6. CASE t \in Client /\ s \in Client
  BY <1>1, <1>6, TcpAssumption DEF t
<1>7. CASE t \in Client /\ s \notin Client
  <2>1. rem[t].lport = ListenPort /\ (rem[s].lport = 0 \/ rem[s].lport >= FirstPort)
    BY <1>4, <1>7 DEF RemOk
  <2> QED
    BY <1>3, <1>5, <2>1, TcpAssumption
<1>8. CASE t \notin Client /\ s \in Client
  <2>1. rem[s].lport = ListenPort /\ rem[t].lport >= FirstPort
    BY <1>3, <1>4, <1>8 DEF RemOk
  <2> QED
    BY <1>3, <1>5, <2>1, TcpAssumption
<1>9. CASE t \notin Client /\ s \notin Client
  <2>1. rem[t].lport >= FirstPort
    BY <1>3, <1>4, <1>9 DEF RemOk
  <2>2. rem[s].phase \notin Away
    BY <1>3, <1>4, <1>9, <2>1, TcpAssumption DEF RemOk
  <2> QED
    BY <1>1, <1>2, <1>3, <1>9, <2>2 DEF TcpInv, PortsApart, t
<1> QED
  BY <1>1, <1>6, <1>7, <1>8, <1>9 DEF t

(* An open slot belongs to a session, and is the one that its segments     *)
(* find.                                                                   *)
LEMMA PeerMatches ==
    ASSUME TcpInv, NEW c \in Slot, Open(c)
    PROVE  conns[c].peer \in Session /\ Matches(c, conns[c].peer)
<1>1. conns[c].peer \in Session
  BY DEF TcpInv, ConnOk, Open
<1>2. conns[c].lport = rem[conns[c].peer].lport
  BY DEF TcpInv, LinkOk, Open
<1> QED
  BY <1>1, <1>2, TcpAssumption DEF Matches, Open

(* The invariant says all that the runs check.                             *)
LEMMA TcpInvImplies ==
    TcpInv => TcpSafe /\ ApplicationKnows /\ BytesInOrder
<1> SUFFICES ASSUME TcpInv
             PROVE  TcpSafe /\ ApplicationKnows /\ BytesInOrder
  OBVIOUS
<1>1. TcpTypeOK
  <2>1. \A c \in Slot :
            /\ conns[c].st \in Closing \cup {"CLOSED", "SYN_RCVD", "SYN_SENT", "ESTABLISHED"}
            /\ conns[c].len \in 0 .. 1 /\ conns[c].nrtx \in 0 .. MAXRTX /\ conns[c].timer \in 0 .. TIMEOUT
    BY DEF TcpInv, TablesOk, ConnRec, ConnState
  <2>2. load.bytes \in Nat
    BY TcpAssumption DEF TcpInv, TablesOk
  <2>3. ASSUME NEW c \in Slot
        PROVE  app[c].view \in {"none", "open", "closing", "ended"} /\ app[c].acked \in 0 .. load.bytes
    <3>1. app[c] \in AppRec /\ app[c].acked <= load.bytes
      BY DEF TcpInv, ConnOk
    <3> QED
      BY <2>2, <3>1 DEF AppRec
  <2>4. ASSUME NEW s \in Session
        PROVE  rem[s].rcv \in 0 .. load.bytes + 2
    <3>1. rem[s].rcv \in Nat /\ Len(rem[s].got) \in Nat
      BY DEF TcpInv, TablesOk, RemRec
    <3>2. rem[s].rcv <= 2 + Len(rem[s].got) /\ Len(rem[s].got) <= load.bytes
      BY DEF TcpInv, RemOk
    <3> QED
      BY <2>2, <3>1, <3>2
  <2> QED
    BY <2>1, <2>3, <2>4 DEF TcpTypeOK
<1>2. OneConnectionPerTuple
  BY MatchIsPeer DEF OneConnectionPerTuple, TcpInv, OneSlotEach
<1>3. ApplicationKnows
  BY DEF ApplicationKnows, TcpInv, ConnOk
<1>4. DeliveredInOrder
  BY DEF DeliveredInOrder, TcpInv, ConnOk, Counts
<1>5. SentInOrder
  BY DEF SentInOrder, TcpInv, RemOk, LinkOk, Counts
<1> QED
  BY <1>1, <1>2, <1>3, <1>4, <1>5 DEF TcpSafe, BytesInOrder

-----------------------------------------------------------------------------
(* Steps of one connection.  k and a are what the slot and the application *)
(* become, E is what uIP sends.                                            *)
PacketOk(s, p) ==
    /\ p \in PacketRec
    /\ p.kind = "DATA" => p.item = p.seq /\ p.item \in 1 .. load.bytes
    /\ p.kind = "FIN" => rem[s].rcv >= 1

SlotMove(c, k, a, E) ==
    /\ ConnOk(k, a) /\ k.peer = conns[c].peer /\ k.lport = conns[c].lport
    /\ a.view # "none" => a.acked <= Len(rem[k.peer].got)
    /\ k.st \notin Opening \cup {"CLOSED"} => rem[k.peer].rcv >= 1
    /\ k.st \in Opening \cup {"ESTABLISHED"} =>
          conns[c].st \in Opening \cup {"ESTABLISHED"} /\ \A p \in E : p.kind # "FIN"
    /\ \A p \in E : PacketOk(conns[c].peer, p)

(* What it takes for a change of one slot, with segments sent, to keep the *)
(* invariant.                                                              *)
LEMMA SlotStep ==
    ASSUME TcpInv, NEW c \in Slot, Open(c), NEW k, NEW a, NEW E, SlotMove(c, k, a, E),
           conns' = [conns EXCEPT ![c] = k], app' = [app EXCEPT ![c] = a],
           wire' = [wire EXCEPT ![conns[c].peer] = @ \cup E],
           UNCHANGED <<lastport, rem, load>>
    PROVE  TcpInv'
<1> DEFINE P == conns[c].peer
<1>1. /\ k \in ConnRec /\ a \in AppRec /\ conns' \in [Slot -> ConnRec] /\ app' \in [Slot -> AppRec]
      /\ \A d \in Slot : conns'[d] = (IF d = c THEN k ELSE conns[d])
      /\ \A d \in Slot : app'[d] = (IF d = c THEN a ELSE app[d])
  BY DEF TcpInv, TablesOk, SlotMove, ConnOk
<1>2. P \in Session
  BY PeerMatches
<1>3. /\ wire' \in [Session -> SUBSET PacketRec]
      /\ \A s \in Session : wire'[s] = IF s = P THEN wire[s] \cup E ELSE wire[s]
  <2>1. E \subseteq PacketRec
    BY DEF SlotMove, PacketOk
  <2> HIDE DEF P
  <2> QED
    BY <1>2, <2>1 DEF TcpInv, TablesOk, P
<1>4. TablesOk'
  BY <1>1, <1>3 DEF TcpInv, TablesOk
<1>5. ASSUME NEW d \in Slot
      PROVE  ConnOk(conns[d], app[d])'
  <2>1. ConnOk(k, a) /\ ConnOk(conns[d], app[d])
    BY DEF TcpInv, SlotMove
  <2>2. CASE d = c
    <3>1. conns'[d] = k /\ app'[d] = a
      BY <1>1, <2>2
    <3> QED
      BY <2>1, <3>1 DEF ConnOk
  <2>3. CASE d # c
    <3>1. conns'[d] = conns[d] /\ app'[d] = app[d]
      BY <1>1, <2>3
    <3> QED
      BY <2>1, <3>1 DEF ConnOk
  <2> QED
    BY <2>2, <2>3
<1>6. ASSUME NEW d \in Slot
      PROVE  LinkOk(conns[d], app[d])'
  <2>1. LinkOk(conns[d], app[d])
    BY DEF TcpInv
  <2>2. CASE d = c
    <3>1. conns'[d] = k /\ app'[d] = a /\ k.peer = P /\ k.lport = conns[c].lport
      BY <1>1, <2>2 DEF SlotMove
    <3>2. a.view # "none" => a.acked <= Len(rem[P].got)
      BY <3>1 DEF SlotMove
    <3>3. k.lport = rem[P].lport /\ rem[P].phase \notin Away
      BY <2>1, <2>2, <3>1 DEF LinkOk, Open
    <3>4. k.st \notin Opening \cup {"CLOSED"} => rem[P].rcv >= 1
      BY <3>1 DEF SlotMove
    <3>5. k.st \in Opening \cup {"ESTABLISHED"} => NoFin(P)'
      <4> SUFFICES ASSUME k.st \in Opening \cup {"ESTABLISHED"}
                   PROVE  NoFin(P)'
        OBVIOUS
      <4>1. NoFin(P) /\ \A p \in E : p.kind # "FIN"
        BY <2>1, <2>2 DEF LinkOk, SlotMove
      <4>2. wire'[P] = wire[P] \cup E /\ P' = P
        BY <1>1, <1>2, <1>3, <3>1, <2>2
      <4> HIDE DEF P
      <4> QED
        BY <4>1, <4>2 DEF NoFin
    <3>6. P' = P
      BY <2>2, <3>1
    <3> HIDE DEF P
    <3> QED
      BY <3>1, <3>2, <3>3, <3>4, <3>5, <3>6 DEF LinkOk, NoFin
  <2>3. CASE d # c
    <3>1. conns'[d] = conns[d] /\ app'[d] = app[d]
      BY <1>1, <2>3
    <3>2. ASSUME Open(d)
          PROVE  wire'[conns[d].peer] = wire[conns[d].peer]
      <4>1. conns[d].peer \in Session
        BY <3>2, PeerMatches
      <4>2. conns[d].peer # P
        BY <2>3, <3>2 DEF TcpInv, OneSlotEach
      <4> QED
        BY <1>3, <4>1, <4>2
    <3> QED
      BY <2>1, <3>1, <3>2 DEF LinkOk, NoFin, Open, Opening
  <2> QED
    BY <2>2, <2>3
<1>7. OneSlotEach'
  <2>1. \A d \in Slot : Open(d)' => Open(d) /\ conns'[d].peer = conns[d].peer
    BY <1>1 DEF Open, SlotMove
  <2> QED
    BY <2>1 DEF TcpInv, OneSlotEach
<1>8. PortsApart'
  BY DEF TcpInv, PortsApart
<1>9. ASSUME NEW s \in Session
      PROVE  RemOk(s)'
  <2>1. RemOk(s)
    BY DEF TcpInv
  <2>2. wire[s] \subseteq wire'[s] /\ \A p \in wire'[s] : p \in wire[s] \/ PacketOk(s, p)
    BY <1>3 DEF SlotMove
  <2>3. NoFin(s)' => NoFin(s)
    BY <2>2 DEF NoFin
  <2>4. rem[s].rcv = 0 /\ NoFin(s) => NoFin(s)'
    BY <2>2 DEF NoFin, PacketOk
  <2>5. \A p \in wire'[s] : p.kind = "DATA" => p.item = p.seq /\ p.item \in 1 .. load.bytes
    BY <2>1, <2>2 DEF RemOk, PacketOk
  <2> HIDE DEF P
  <2> QED
    BY <2>1, <2>3, <2>4, <2>5 DEF RemOk
<1> QED
  BY <1>4, <1>5, <1>6, <1>7, <1>8, <1>9 DEF TcpInv

(* The same for a step that sends nothing, and for one that sends p.       *)
LEMMA QuietStep ==
    ASSUME TcpInv, NEW c \in Slot, Open(c), NEW k, NEW a, SlotMove(c, k, a, {}),
           conns' = [conns EXCEPT ![c] = k], app' = [app EXCEPT ![c] = a],
           UNCHANGED <<wire, lastport, rem, load>>
    PROVE  TcpInv'
<1>1. wire' = [wire EXCEPT ![conns[c].peer] = @ \cup {}]
  BY DEF TcpInv, TablesOk
<1> QED
  BY <1>1, SlotStep

(* The same for a change that sends one segment.                           *)
LEMMA SendingStep ==
    ASSUME TcpInv, NEW c \in Slot, Open(c), NEW k, NEW a, NEW p, SlotMove(c, k, a, {p}),
           conns' = [conns EXCEPT ![c] = k], app' = [app EXCEPT ![c] = a],
           Emit(conns[c].peer, p), UNCHANGED <<lastport, rem, load>>
    PROVE  TcpInv'
BY SlotStep DEF Emit

-----------------------------------------------------------------------------
(* What the answer of the application to an event of an open connection    *)
(* leaves behind.                                                          *)
Told(c, k, a) ==
    /\ ConnOk(k, a) /\ k.st = "ESTABLISHED"
    /\ k.peer = conns[c].peer /\ k.lport = conns[c].lport
    /\ a.acked <= Len(rem[k.peer].got) /\ rem[k.peer].rcv >= 1
    /\ conns[c].st \in Opening \cup {"ESTABLISHED"}

(* The application is called and its answer (data, close, abort, nothing)  *)
(* is carried out.                                                         *)
LEMMA AnswerIsOk ==
    ASSUME TcpInv, NEW c \in Slot, Open(c), NEW k, NEW a, Told(c, k, a),
           AppAnswers(c, k, a), UNCHANGED <<lastport, rem, load>>
    PROVE  TcpInv'
<1>1. /\ k \in ConnRec /\ a \in AppRec /\ ConnOk(k, a) /\ a.view = "open" /\ k.st = "ESTABLISHED"
      /\ k.peer = conns[c].peer /\ k.peer \in Session /\ k.snd = a.acked + 1 /\ rem[k.peer].rcv >= 1
  BY DEF Told, ConnOk
<1>2. load.bytes \in Nat
  BY TcpAssumption DEF TcpInv, TablesOk
<1>3. k.snd \in Nat /\ a.acked \in Nat /\ MAXRTX \in Nat
  BY <1>1, TcpAssumption DEF ConnRec, AppRec
<1> DEFINE k0 == [k EXCEPT !.nrtx = 0]
<1>4. /\ Told(c, k0, a) /\ k0 \in ConnRec
      /\ k0.st = k.st /\ k0.peer = k.peer /\ k0.lport = k.lport /\ k0.snd = k.snd
      /\ k0.rcv = k.rcv /\ k0.timer = k.timer /\ k0.len = k.len
  BY <1>1, <1>3, SMTT(20) DEF Told, ConnOk, ConnRec
<1>0. Told(c, k, a) /\ AppAnswers(c, k, a)
  OBVIOUS
<1>g. ConnOk(k0, a)
  BY <1>4 DEF Told
<1> HIDE DEF k0
<1>5. CASE conns' = [conns EXCEPT ![c] = k0] /\ app' = [app EXCEPT ![c] = a] /\ UNCHANGED wire
  <2>1. SlotMove(c, k0, a, {})
    BY <1>4 DEF SlotMove, Told
  <2> QED
    BY <1>5, <2>1, QuietStep
<1>6. CASE /\ conns' = [conns EXCEPT ![c] = [k EXCEPT !.st = "CLOSED"]]
           /\ app' = [app EXCEPT ![c] = [a EXCEPT !.view = "ended"]]
           /\ Emit(k.peer, Packet("RST", k.snd, 0))
  <2> DEFINE k1 == [k EXCEPT !.st = "CLOSED"]
             a1 == [a EXCEPT !.view = "ended"]
  <2>2. PacketOk(conns[c].peer, Packet("RST", k.snd, 0))
    BY <1>3 DEF PacketOk, PacketRec, Packet
  <2>3. /\ k1 \in ConnRec /\ k1.peer = k.peer /\ k1.lport = k.lport /\ k1.st = "CLOSED"
        /\ a1 \in AppRec /\ a1.acked = a.acked /\ a1.got = a.got /\ a1.view = "ended"
    <3>1. "CLOSED" \in ConnState
      BY DEF ConnState
    <3> QED
      BY <1>1, <3>1 DEF ConnRec, AppRec
  <2> HIDE DEF k1, a1
  <2>1. ConnOk(k1, a1)
    BY <1>1, <2>3 DEF ConnOk, Opening
  <2>4. SlotMove(c, k1, a1, {Packet("RST", k.snd, 0)})
    BY <1>1, <2>1, <2>2, <2>3 DEF SlotMove, Told, Opening
  <2> QED
    BY <1>1, <1>6, <2>4, SendingStep DEF k1, a1
<1>7. CASE /\ k.len = 0
           /\ conns' = [conns EXCEPT ![c] = [k0 EXCEPT !.st = "FIN_WAIT_1", !.stopped = FALSE, !.len = 1]]
           /\ app' = [app EXCEPT ![c] = [a EXCEPT !.view = "closing"]]
           /\ Emit(k.peer, Packet("FIN", k.snd, 0))
  <2> DEFINE k1 == [k0 EXCEPT !.st = "FIN_WAIT_1", !.stopped = FALSE, !.len = 1]
             a1 == [a EXCEPT !.view = "closing"]
  <2>2. PacketOk(conns[c].peer, Packet("FIN", k.snd, 0))
    BY <1>1, <1>3 DEF PacketOk, PacketRec, Packet
  <2>3. /\ k1 \in ConnRec /\ k1.peer = k.peer /\ k1.lport = k.lport /\ k1.st = "FIN_WAIT_1"
        /\ k1.timer = k.timer
        /\ a1 \in AppRec /\ a1.acked = a.acked /\ a1.got = a.got /\ a1.view = "closing"
    <3>0. "FIN_WAIT_1" \in ConnState
      BY DEF ConnState, Closing
    <3> DEFINE k2 == [k0 EXCEPT !.st = "FIN_WAIT_1"]
               k3 == [k2 EXCEPT !.stopped = FALSE]
    <3>a. k2 \in ConnRec /\ k2.st = "FIN_WAIT_1"
      BY <1>4, <3>0 DEF ConnRec
    <3>b. k3 \in ConnRec /\ k3.st = "FIN_WAIT_1"
      <4> HIDE DEF k2
      <4> QED
        BY <3>a DEF ConnRec
    <3>1. k1 \in ConnRec /\ k1.st = "FIN_WAIT_1"
      <4>1. k1 = [k3 EXCEPT !.len = 1]
        BY <1>4 DEF ConnRec
      <4> HIDE DEF k1, k3
      <4> QED
        BY <4>1, <3>b DEF ConnRec
    <3>2. k1.peer = k.peer /\ k1.lport = k.lport /\ k1.timer = k.timer
      BY <1>1, <1>4 DEF ConnRec
    <3>3. a1 \in AppRec /\ a1.acked = a.acked /\ a1.got = a.got /\ a1.view = "closing"
      BY <1>1 DEF AppRec
    <3> QED
      BY <3>1, <3>2, <3>3
  <2> HIDE DEF k1, a1
  <2>1. ConnOk(k1, a1)
    BY <1>1, <2>3 DEF ConnOk, Opening
  <2>4. SlotMove(c, k1, a1, {Packet("FIN", k.snd, 0)})
    BY <1>1, <2>1, <2>2, <2>3 DEF SlotMove, Told, Opening
  <2> QED
    BY <1>1, <1>7, <2>4, SendingStep DEF k1, a1
<1>8. CASE /\ k.len = 0 /\ a.acked < load.bytes
           /\ conns' = [conns EXCEPT ![c] = [k0 EXCEPT !.len = 1]] /\ app' = [app EXCEPT ![c] = a]
           /\ Emit(k.peer, Packet("DATA", k.snd, a.acked + 1))
  <2> DEFINE k1 == [k0 EXCEPT !.len = 1]
  <2>2. PacketOk(conns[c].peer, Packet("DATA", k.snd, a.acked + 1))
    BY <1>1, <1>2, <1>3, <1>8 DEF PacketOk, PacketRec, Packet
  <2>3. /\ k1 \in ConnRec /\ k1.peer = k.peer /\ k1.lport = k.lport /\ k1.st = "ESTABLISHED"
        /\ k1.timer = k.timer /\ k1.snd = k.snd /\ k1.rcv = k.rcv
    BY <1>1, <1>4 DEF ConnRec
  <2>4. Packet("DATA", k.snd, a.acked + 1).kind # "FIN"
    BY DEF Packet
  <2> HIDE DEF k1
  <2>1. ConnOk(k1, a)
    BY <1>1, <1>8, <2>3 DEF ConnOk, Opening
  <2>5. SlotMove(c, k1, a, {Packet("DATA", k.snd, a.acked + 1)})
    BY <1>1, <2>1, <2>2, <2>3, <2>4 DEF SlotMove, Told
  <2> QED
    BY <1>1, <1>8, <2>5, SendingStep DEF k1
<1>9. ASSUME NEW b \in BOOLEAN, conns' = [conns EXCEPT ![c] = [k0 EXCEPT !.stopped = b]],
             app' = [app EXCEPT ![c] = a], UNCHANGED wire
      PROVE  TcpInv'
  <2> DEFINE k1 == [k0 EXCEPT !.stopped = b]
  <2>1. /\ k1 \in ConnRec /\ k1.peer = k.peer /\ k1.lport = k.lport /\ k1.st = "ESTABLISHED"
        /\ k1.timer = k.timer /\ k1.snd = k.snd /\ k1.rcv = k.rcv /\ k1.len = k.len
    BY <1>1, <1>4 DEF ConnRec
  <2> HIDE DEF k1
  <2>2. ConnOk(k1, a)
    BY <1>1, <2>1 DEF ConnOk, Opening
  <2>3. SlotMove(c, k1, a, {})
    BY <1>1, <2>1, <2>2 DEF SlotMove, Told
  <2> QED
    BY <1>9, <2>3, QuietStep DEF k1
<1> QED
  BY <1>5, <1>6, <1>7, <1>8, <1>9 DEF AppAnswers, k0

-----------------------------------------------------------------------------
(* A connection that ends, or moves on while it is being closed.           *)
Ending(c, k) ==
    /\ k \in ConnRec /\ k.peer = conns[c].peer /\ k.lport = conns[c].lport
    /\ k.st \notin Opening \cup {"ESTABLISHED"}
    /\ k.st # "CLOSED" => k.timer < TIMEOUT /\ rem[conns[c].peer].rcv >= 1

(* A connection comes to its end: closed, aborted, timed out or reset.     *)
LEMMA EndIsOk ==
    ASSUME TcpInv, NEW c \in Slot, Open(c), NEW k, Ending(c, k), End(c, k),
           UNCHANGED <<lastport, rem, load>>,
           \/ UNCHANGED wire
           \/ \E n \in Nat : Emit(conns[c].peer, Packet("RST", n, 0))
    PROVE  TcpInv'
<1> DEFINE a == [app[c] EXCEPT !.view = "ended"]
<1>1. conns' = [conns EXCEPT ![c] = k] /\ app' = [app EXCEPT ![c] = a]
  BY DEF End
<1>2. app[c] \in AppRec /\ ConnOk(conns[c], app[c]) /\ LinkOk(conns[c], app[c])
  BY DEF TcpInv, TablesOk
<1>3. conns[c].peer \in Session /\ Len(rem[conns[c].peer].got) \in Nat
  <2>1. conns[c].peer \in Session
    BY PeerMatches
  <2> QED
    BY <2>1 DEF TcpInv, TablesOk, RemRec
<1>4. a \in AppRec /\ a.view = "ended" /\ a.got = app[c].got /\ a.acked = app[c].acked
  BY <1>2 DEF AppRec
<1> HIDE DEF a
<1>5. ConnOk(k, a)
  BY <1>2, <1>3, <1>4 DEF ConnOk, Ending, Opening
<1>6. a.acked <= Len(rem[k.peer].got)
  <2>1. k.peer = conns[c].peer
    BY DEF Ending
  <2>2. CASE app[c].view = "none"
    <3>1. a.acked = 0
      BY <1>2, <1>4, <2>2 DEF ConnOk
    <3> QED
      BY <1>3, <2>1, <3>1
  <2>3. CASE app[c].view # "none"
    BY <1>2, <1>4, <2>1, <2>3 DEF LinkOk
  <2> QED
    BY <2>2, <2>3
<1>7. CASE UNCHANGED wire
  <2>1. SlotMove(c, k, a, {})
    BY <1>5, <1>6 DEF SlotMove, Ending
  <2> QED
    BY <1>1, <1>7, <2>1, QuietStep
<1>8. ASSUME NEW n \in Nat, Emit(conns[c].peer, Packet("RST", n, 0))
      PROVE  TcpInv'
  <2>1. PacketOk(conns[c].peer, Packet("RST", n, 0))
    BY DEF PacketOk, PacketRec, Packet
  <2>2. SlotMove(c, k, a, {Packet("RST", n, 0)})
    BY <1>5, <1>6, <2>1 DEF SlotMove, Ending
  <2> QED
    BY <1>1, <1>8, <2>2, SendingStep
<1> QED
  BY <1>7, <1>8

(* A slot that is closing goes from one state of closing to the next.      *)
LEMMA MoveIsOk ==
    ASSUME TcpInv, NEW c \in Slot, conns[c].st \in Closing, NEW k, Ending(c, k),
           conns' = [conns EXCEPT ![c] = k], UNCHANGED <<app, wire, lastport, rem, load>>
    PROVE  TcpInv'
<1>1. app' = [app EXCEPT ![c] = app[c]] /\ Open(c)
  BY DEF TcpInv, TablesOk, Open, Closing
<1>2. app[c] \in AppRec /\ ConnOk(conns[c], app[c]) /\ LinkOk(conns[c], app[c])
  BY DEF TcpInv, TablesOk
<1>3. conns[c].peer \in Session
  BY <1>1, PeerMatches
<1>4. ConnOk(k, app[c])
  BY <1>2, <1>3 DEF ConnOk, Ending, Closing, Opening
<1>5. SlotMove(c, k, app[c], {})
  <2>1. k.peer = conns[c].peer
    BY DEF Ending
  <2>2. app[c].view # "none" => app[c].acked <= Len(rem[k.peer].got)
    BY <1>2, <2>1 DEF LinkOk
  <2> QED
    BY <1>4, <2>1, <2>2 DEF SlotMove, Ending
<1> QED
  BY <1>1, <1>5, QuietStep

(* Changes of a connection and of the application's record.                *)
ConnWith(k, st, r) == [k EXCEPT !.st = st, !.rcv = r]

(* Fields of a slot after tcpstateflags and rcv_nxt are set.               *)
LEMMA ConnSet ==
    ASSUME NEW k \in ConnRec, NEW st \in ConnState, NEW r \in Nat
    PROVE  LET k1 == ConnWith(k, st, r) IN
           /\ k1 \in ConnRec /\ k1.st = st /\ k1.rcv = r /\ k1.snd = k.snd /\ k1.len = k.len
           /\ k1.timer = k.timer /\ k1.peer = k.peer /\ k1.lport = k.lport /\ k1.stopped = k.stopped
<1> DEFINE k2 == [k EXCEPT !.st = st]
           k1 == [k EXCEPT !.st = st, !.rcv = r]
<1>1. k2 \in ConnRec
  BY DEF ConnRec
<1>2. k1 = [k2 EXCEPT !.rcv = r]
  BY DEF ConnRec
<1>3. [k2 EXCEPT !.rcv = r] \in ConnRec
  <2> HIDE DEF k2
  <2> QED
    BY <1>1 DEF ConnRec
<1>4. /\ k1.st = st /\ k1.rcv = r /\ k1.snd = k.snd /\ k1.len = k.len /\ k1.timer = k.timer
      /\ k1.peer = k.peer /\ k1.lport = k.lport /\ k1.stopped = k.stopped
  BY DEF ConnRec
<1> QED
  BY <1>2, <1>3, <1>4 DEF ConnWith

View == {"none", "open", "closing", "ended"}

AppWith(a, v, q) == [a EXCEPT !.got = q, !.view = v]

(* Fields of the application's record after it was told something.         *)
LEMMA AppSet ==
    ASSUME NEW a \in AppRec, NEW v \in View, NEW q \in Seq(Nat)
    PROVE  LET a1 == AppWith(a, v, q) IN
           a1 \in AppRec /\ a1.view = v /\ a1.got = q /\ a1.acked = a.acked
<1> DEFINE a2 == [a EXCEPT !.got = q]
           a1 == [a EXCEPT !.got = q, !.view = v]
<1>1. a2 \in AppRec
  BY DEF AppRec
<1>2. a1 = [a2 EXCEPT !.view = v]
  BY DEF AppRec
<1>3. [a2 EXCEPT !.view = v] \in AppRec
  <2> HIDE DEF a2
  <2> QED
    BY <1>1 DEF AppRec, View
<1>4. a1.view = v /\ a1.got = q /\ a1.acked = a.acked
  BY DEF AppRec
<1> QED
  BY <1>2, <1>3, <1>4 DEF AppWith

(* What is left to do of a connection in which a segment acknowledges the  *)
(* outstanding byte, SYN or FIN.                                           *)
LEMMA AfterAckIs ==
    ASSUME NEW k \in ConnRec, NEW g, k.timer < TIMEOUT \/ k.st = "CLOSED"
    PROVE  LET k1 == AfterAck(k, g) IN
           /\ k1 \in ConnRec /\ (k1.timer < TIMEOUT \/ k1.st = "CLOSED")
           /\ k1.st = k.st /\ k1.peer = k.peer /\ k1.lport = k.lport
           /\ k1.rcv = k.rcv /\ k1.stopped = k.stopped
           /\ Acks(k, g) => /\ k.len = 1 /\ k1.snd = k.snd + 1 /\ k1.len = 0
                            /\ "ACK" \in g.flags /\ g.ack = k.snd + 1
           /\ ~Acks(k, g) => k1 = k
<1>1. CASE ~Acks(k, g)
  BY <1>1 DEF AfterAck
<1>2. CASE Acks(k, g)
  <2> DEFINE k1 == [k EXCEPT !.snd = @ + k.len, !.len = 0, !.timer = Rto]
  <2>1. AfterAck(k, g) = k1
    BY <1>2 DEF AfterAck
  <2>2. k.len = 1 /\ "ACK" \in g.flags /\ g.ack = k.snd + 1
    BY <1>2 DEF Acks, ConnRec
  <2>3. TIMEOUT \in Nat \ {0, 1}
    BY TcpAssumption
  <2>4. Rto \in 0 .. TIMEOUT /\ Rto < TIMEOUT
    BY <2>3 DEF Rto
  <2>5. k1 \in ConnRec
    <3> DEFINE n == k.snd + k.len
               k2 == [k EXCEPT !.snd = n]
               k3 == [k2 EXCEPT !.len = 0]
    <3>1. n \in Nat
      BY <2>2 DEF ConnRec
    <3>2. k2 \in ConnRec
      <4> HIDE DEF n
      <4> QED
        BY <3>1 DEF ConnRec
    <3>3. k3 \in ConnRec
      <4> HIDE DEF k2
      <4> QED
        BY <3>2 DEF ConnRec
    <3>4. k1 = [k3 EXCEPT !.timer = Rto]
      BY DEF ConnRec
    <3> HIDE DEF k1, k3
    <3> QED
      BY <2>4, <3>3, <3>4 DEF ConnRec
  <2>6. /\ k1.timer = Rto /\ k1.st = k.st /\ k1.peer = k.peer /\ k1.lport = k.lport
        /\ k1.rcv = k.rcv /\ k1.stopped = k.stopped /\ k1.snd = k.snd + 1 /\ k1.len = 0
    BY <2>2 DEF ConnRec
  <2> HIDE DEF k1
  <2> QED
    BY <1>2, <2>1, <2>2, <2>4, <2>5, <2>6
<1> QED
  BY <1>1, <1>2

(* A segment of a remote acknowledges what it got, at most; its SYN comes  *)
(* with no data, and alone only before uIP answered or to the connection   *)
(* that it opened.                                                         *)
SegmentOk(s, g) ==
    /\ g.seq \in Nat /\ g.ack \in Nat /\ g.n \in Nat
    /\ "ACK" \in g.flags => g.ack <= rem[s].rcv /\ rem[s].rcv >= 1
    /\ "SYN" \in g.flags => g.seq = 0 /\ g.n = 0
    /\ g.flags = {"SYN"} => /\ s \in Client
                            /\ rem[s].phase = "syn" \/ \E c \in Slot : Matches(c, s)

(* What may arrive of a session was sent by its remote host.               *)
LEMMA SegmentsAreOk ==
    ASSUME TcpInv, NEW s \in Session, NEW g \in SegmentsOf(s)
    PROVE  SegmentOk(s, g)
<1>1. rem[s].rcv \in Nat /\ rem[s].sent \in Nat
  BY DEF TcpInv, TablesOk, RemRec
<1> DEFINE seg(f, q, a, n) == [flags |-> f, seq |-> q, ack |-> a, n |-> n]
<1>2. ASSUME NEW f, NEW q \in Nat, NEW a \in 1 .. rem[s].rcv, NEW n \in Nat,
             g = seg(f, q, a, n), "SYN" \notin f
      PROVE  SegmentOk(s, g)
  BY <1>1, <1>2 DEF SegmentOk
<1>3. CASE g \in (IF s \in Client /\ (rem[s].phase = "syn" \/ \E c \in Slot : Matches(c, s) /\ rem[s].phase # "idle")
                  THEN {seg({"SYN"}, 0, 0, 0)} ELSE {})
  BY <1>3 DEF SegmentOk
<1>4. CASE g \in (IF s \notin Client /\ rem[s].rcv >= 1 THEN {seg({"SYN", "ACK"}, 0, 1, 0)} ELSE {})
  BY <1>4 DEF SegmentOk
<1>5. CASE g \in {seg({"ACK"}, 1, a, 0) : a \in 1 .. rem[s].rcv}
  <2>1. PICK a \in 1 .. rem[s].rcv : g = seg({"ACK"}, 1, a, 0)
    BY <1>5
  <2> QED
    BY <1>2, <2>1
<1>6. CASE g \in {seg({"ACK"}, qn[1], a, qn[2]) : a \in 1 .. rem[s].rcv,
                    qn \in {x \in (1 .. rem[s].sent) \X (1 .. rem[s].sent) : x[1] + x[2] <= rem[s].sent + 1}}
  <2>1. PICK a \in 1 .. rem[s].rcv, qn \in (1 .. rem[s].sent) \X (1 .. rem[s].sent) :
            g = seg({"ACK"}, qn[1], a, qn[2])
    BY <1>6
  <2>2. qn[1] \in Nat /\ qn[2] \in Nat
    BY <1>1
  <2> QED
    BY <1>2, <2>1, <2>2
<1>7. CASE g \in (IF rem[s].fin THEN {seg({"FIN", "ACK"}, rem[s].sent + 1 - n, a, n) :
                                    a \in 1 .. rem[s].rcv, n \in 0 .. rem[s].sent} ELSE {})
  <2>1. PICK a \in 1 .. rem[s].rcv, n \in 0 .. rem[s].sent :
            g = seg({"FIN", "ACK"}, rem[s].sent + 1 - n, a, n)
    BY <1>7
  <2>2. rem[s].sent + 1 - n \in Nat /\ n \in Nat
    BY <1>1
  <2> QED
    BY <1>2, <2>1, <2>2
<1>8. CASE g \in (IF rem[s].rst THEN {seg({"RST"}, 0, 0, 0)} ELSE {})
  BY <1>8 DEF SegmentOk
<1> QED
  BY <1>3, <1>4, <1>5, <1>6, <1>7, <1>8 DEF SegmentsOf

(* Data that arrives in sequence goes on where the last left off.          *)
LEMMA BytesFollow ==
    ASSUME NEW q \in Seq(Nat), Counts(q), NEW g, g.n \in Nat, g.seq \in Nat,
           g.n = 0 \/ g.seq = 1 + Len(q)
    PROVE  /\ q \o Bytes(g) \in Seq(Nat) /\ Counts(q \o Bytes(g))
           /\ Len(q \o Bytes(g)) = Len(q) + g.n
<1> DEFINE b == Bytes(g)
           r == q \o b
<1>1. /\ b = [i \in 1 .. g.n |-> g.seq + i - 1] /\ Len(b) = g.n /\ b \in Seq(Nat)
      /\ \A i \in 1 .. g.n : b[i] = g.seq + i - 1
  <2>1. b = [i \in 1 .. g.n |-> g.seq + i - 1]
    BY DEF Bytes
  <2>2. \A i \in 1 .. g.n : g.seq + i - 1 \in Nat
    OBVIOUS
  <2> HIDE DEF b
  <2> QED
    <3>1. b \in [1 .. g.n -> Nat]
      BY <2>1, <2>2
    <3>2. b \in Seq(Nat) /\ Len(b) = g.n
      BY <3>1
    <3> QED
      BY <2>1, <3>2
<1> HIDE DEF b
<1>2. r \in Seq(Nat) /\ Len(r) = Len(q) + g.n /\ Len(q) \in Nat
  BY <1>1
<1>3. ASSUME NEW i \in 1 .. Len(r)
      PROVE  r[i] = i
  <2>1. CASE i <= Len(q)
    <3>1. r[i] = q[i]
      BY <1>1, <1>2, <2>1
    <3>2. q[i] = i
      BY <1>2, <2>1 DEF Counts
    <3> QED
      BY <3>1, <3>2
  <2>2. CASE i > Len(q)
    <3>1. r[i] = b[i - Len(q)] /\ i - Len(q) \in 1 .. g.n
      BY <1>1, <1>2, <2>2
    <3>2. b[i - Len(q)] = g.seq + (i - Len(q)) - 1
      BY <1>1, <3>1
    <3> QED
      BY <1>2, <3>1, <3>2, SMTT(20)
  <2> QED
    BY <1>2, <2>1, <2>2
<1> HIDE DEF r
<1>4. r = [i \in 1 .. Len(r) |-> i]
  BY <1>2, <1>3
<1> QED
  BY <1>2, <1>4 DEF Counts, r, b

-----------------------------------------------------------------------------
(* A segment arrives at the connection in slot c, one lemma per state.     *)
Arrival(c, s, g) ==
    /\ c \in Slot /\ s \in Session /\ Matches(c, s) /\ SegmentOk(s, g)
    /\ UNCHANGED <<lastport, rem, load>>

(* Steps that change nothing keep the invariant.                           *)
LEMMA StutterIsOk ==
    ASSUME TcpInv, UNCHANGED tcpVars
    PROVE  TcpInv'
BY DEF tcpVars, TcpInv, TablesOk, ConnOk, LinkOk, NoFin, OneSlotEach, Open, PortsApart, RemOk

(* What is known when a segment has found its slot.                        *)
LEMMA ArrivalIs ==
    ASSUME TcpInv, NEW c, NEW s, NEW g, Arrival(c, s, g)
    PROVE  /\ conns[c].peer = s /\ Open(c) /\ conns[c] \in ConnRec /\ conns[c].timer < TIMEOUT
           /\ ConnOk(conns[c], app[c]) /\ LinkOk(conns[c], app[c]) /\ app[c] \in AppRec
           /\ RemOk(s) /\ rem[s] \in RemRec
<1>1. c \in Slot /\ s \in Session /\ Matches(c, s)
  BY DEF Arrival
<1>2. conns[c].peer = s /\ Open(c)
  BY <1>1, MatchIsPeer
<1>3. conns[c] \in ConnRec /\ app[c] \in AppRec /\ rem[s] \in RemRec
  BY <1>1 DEF TcpInv, TablesOk
<1>4. ConnOk(conns[c], app[c]) /\ LinkOk(conns[c], app[c]) /\ RemOk(s)
  BY <1>1 DEF TcpInv
<1>5. conns[c].timer < TIMEOUT
  BY <1>2, <1>4 DEF ConnOk, Open
<1> QED
  BY <1>2, <1>3, <1>4, <1>5

(* A RST closes the connection and tells the application.                  *)
LEMMA ResetIsOk ==
    ASSUME TcpInv, NEW c, NEW s, NEW g, Arrival(c, s, g), InputReset(c, g)
    PROVE  TcpInv'
<1> DEFINE k == [conns[c] EXCEPT !.st = "CLOSED"]
<1>1. c \in Slot /\ UNCHANGED <<lastport, rem, load>> /\ Open(c) /\ conns[c] \in ConnRec
  BY ArrivalIs DEF Arrival
<1>2. "CLOSED" \in ConnState
  BY DEF ConnState
<1>3. k \in ConnRec /\ k.peer = conns[c].peer /\ k.lport = conns[c].lport /\ k.st = "CLOSED"
  BY <1>1, <1>2 DEF ConnRec
<1>4. End(c, k) /\ UNCHANGED wire
  BY DEF InputReset
<1> HIDE DEF k
<1>5. Ending(c, k)
  BY <1>3 DEF Ending, Opening
<1> QED
  BY <1>1, <1>4, <1>5, EndIsOk

(* Segments in SYN_RCVD: the handshake ends, perhaps with data.            *)
LEMMA SynRcvdIsOk ==
    ASSUME TcpInv, NEW c, NEW s, NEW g, Arrival(c, s, g), InputSynRcvd(c, g)
    PROVE  TcpInv'
<1> DEFINE k0 == AfterAck(conns[c], g)
           k  == [k0 EXCEPT !.st = "ESTABLISHED", !.rcv = @ + g.n]
           a  == [app[c] EXCEPT !.view = "open", !.got = Bytes(g)]
<1>1. /\ c \in Slot /\ SegmentOk(s, g) /\ UNCHANGED <<lastport, rem, load>>
      /\ conns[c].st = "SYN_RCVD" /\ InSequence(conns[c], g)
  BY DEF Arrival, InputSynRcvd, Accepted
<1>2. CASE ~Acks(conns[c], g)
  <2>1. UNCHANGED tcpVars
    BY <1>1, <1>2 DEF InputSynRcvd, tcpVars
  <2> QED
    BY <2>1, StutterIsOk
<1>3. CASE Acks(conns[c], g)
  <2>1. AppAnswers(c, k, a)
    BY <1>3 DEF InputSynRcvd
  <2>2. /\ conns[c].peer = s /\ Open(c) /\ conns[c] \in ConnRec /\ conns[c].timer < TIMEOUT
        /\ ConnOk(conns[c], app[c]) /\ app[c] \in AppRec /\ Len(rem[s].got) \in Nat
    BY ArrivalIs DEF RemRec
  <2>3. /\ k0 \in ConnRec /\ (k0.timer < TIMEOUT \/ k0.st = "CLOSED") /\ k0.st = conns[c].st
        /\ k0.peer = conns[c].peer /\ k0.lport = conns[c].lport /\ k0.rcv = conns[c].rcv
        /\ k0.snd = conns[c].snd + 1 /\ k0.len = 0 /\ "ACK" \in g.flags
    BY <1>3, <2>2, AfterAckIs
  <2>4. conns[c].rcv = 1 /\ conns[c].snd = 0 /\ app[c].acked = 0 /\ app[c].got = <<>>
    BY <1>1, <2>2 DEF ConnOk, Opening
  <2>5. g.n \in Nat /\ g.seq \in Nat /\ rem[s].rcv >= 1
    BY <1>1, <2>3 DEF SegmentOk
  <2>6. g.n = 0 \/ g.seq = 1
    BY <1>1, <2>4 DEF InSequence
  <2>7. Bytes(g) \in Seq(Nat) /\ Counts(Bytes(g)) /\ Len(Bytes(g)) = g.n
    <3> DEFINE q == <<>>
    <3>1. q \in Seq(Nat) /\ Counts(q) /\ Len(q) = 0
      BY DEF Counts
    <3>2. q \o Bytes(g) \in Seq(Nat) /\ Counts(q \o Bytes(g)) /\ Len(q \o Bytes(g)) = g.n
      <4> HIDE DEF q
      <4>1. g.n = 0 \/ g.seq = 1 + Len(q)
        BY <2>6, <3>1
      <4>2. Len(q \o Bytes(g)) = Len(q) + g.n /\ q \o Bytes(g) \in Seq(Nat) /\ Counts(q \o Bytes(g))
        BY <2>5, <3>1, <4>1, BytesFollow
      <4> QED
        BY <2>5, <3>1, <4>2
    <3>3. Bytes(g) \in Seq(Nat)
      <4>1. \A i \in 1 .. g.n : g.seq + i - 1 \in Nat
        BY <2>5
      <4>2. Bytes(g) \in [1 .. g.n -> Nat]
        BY <4>1 DEF Bytes
      <4> QED
        BY <2>5, <4>2
    <3>4. q \o Bytes(g) = Bytes(g)
      BY <3>3
    <3> HIDE DEF q
    <3> QED
      BY <3>2, <3>4
  <2>8. "ESTABLISHED" \in ConnState
    BY DEF ConnState
  <2> DEFINE n == k0.rcv + g.n
  <2>9. n \in Nat /\ n = 1 + g.n
    BY <2>3, <2>4, <2>5
  <2>10. /\ k \in ConnRec /\ k.st = "ESTABLISHED" /\ k.rcv = n /\ k.snd = 1 /\ k.len = 0
         /\ k.timer = k0.timer /\ k.peer = s /\ k.lport = conns[c].lport
    <3> HIDE DEF k0
    <3>1. k = ConnWith(k0, "ESTABLISHED", n)
      BY DEF ConnWith
    <3> QED
      BY <2>2, <2>3, <2>4, <2>8, <2>9, <3>1, ConnSet
  <2>11. a \in AppRec /\ a.view = "open" /\ a.got = Bytes(g) /\ a.acked = 0
    <3> DEFINE b  == Bytes(g)
               a1 == [app[c] EXCEPT !.view = "open"]
    <3>1. a1 \in AppRec /\ a1.view = "open" /\ a1.acked = 0
      BY <2>2, <2>4 DEF AppRec
    <3>2. b \in Seq(Nat)
      BY <2>7
    <3>3. a = [a1 EXCEPT !.got = b]
      BY <2>2 DEF AppRec
    <3> HIDE DEF a1, b
    <3>4. [a1 EXCEPT !.got = b] \in AppRec
      BY <3>1, <3>2 DEF AppRec
    <3>5. a.view = "open" /\ a.got = b /\ a.acked = 0
      BY <3>1, <3>3 DEF AppRec
    <3> QED
      BY <3>3, <3>4, <3>5 DEF b
  <2>12. load.bytes \in Nat
    BY TcpAssumption DEF TcpInv, TablesOk
  <2>13. k.timer < TIMEOUT /\ conns[c].st \in Opening /\ s \in Session
    BY <1>1, <2>2, <2>3, <2>10 DEF Opening, Arrival
  <2> HIDE DEF k, a, n
  <2>14. ConnOk(k, a)
    BY <2>7, <2>9, <2>10, <2>11, <2>12, <2>13 DEF ConnOk, Opening
  <2>15. Told(c, k, a)
    BY <2>2, <2>5, <2>10, <2>11, <2>13, <2>14 DEF Told
  <2> QED
    BY <1>1, <2>1, <2>2, <2>15, AnswerIsOk
<1> QED
  BY <1>2, <1>3

(* Segments in SYN_SENT: the answer to uip_connect, or something else,     *)
(* which resets.                                                           *)
LEMMA SynSentIsOk ==
    ASSUME TcpInv, NEW c, NEW s, NEW g, Arrival(c, s, g), InputSynSent(c, g)
    PROVE  TcpInv'
<1> DEFINE k0 == AfterAck(conns[c], g)
           up == Acks(conns[c], g) /\ g.flags = {"SYN", "ACK"}
<1>1. /\ c \in Slot /\ s \in Session /\ SegmentOk(s, g) /\ UNCHANGED <<lastport, rem, load>>
      /\ conns[c].st = "SYN_SENT"
  BY DEF Arrival, InputSynSent, Accepted
<1>2. /\ conns[c].peer = s /\ Open(c) /\ conns[c] \in ConnRec /\ conns[c].timer < TIMEOUT
      /\ ConnOk(conns[c], app[c]) /\ app[c] \in AppRec /\ Len(rem[s].got) \in Nat
  BY ArrivalIs DEF RemRec
<1>3. /\ k0 \in ConnRec /\ (k0.timer < TIMEOUT \/ k0.st = "CLOSED") /\ k0.st = conns[c].st
      /\ k0.peer = conns[c].peer /\ k0.lport = conns[c].lport
      /\ Acks(conns[c], g) => k0.snd = conns[c].snd + 1 /\ k0.len = 0 /\ "ACK" \in g.flags
  BY <1>2, AfterAckIs
<1>4. "ESTABLISHED" \in ConnState /\ "CLOSED" \in ConnState
  BY DEF ConnState
<1>5. CASE up
  <2> DEFINE k  == [k0 EXCEPT !.st = "ESTABLISHED", !.rcv = g.seq + 1]
             a  == [app[c] EXCEPT !.view = "open"]
  <2>1. AppAnswers(c, k, a)
    BY <1>5 DEF InputSynSent
  <2>2. conns[c].snd = 0 /\ app[c].acked = 0 /\ app[c].got = <<>>
    BY <1>1, <1>2 DEF ConnOk, Opening
  <2>3. g.seq = 0 /\ g.seq + 1 = 1 /\ rem[s].rcv >= 1
    BY <1>1, <1>5 DEF SegmentOk
  <2>4. /\ k \in ConnRec /\ k.st = "ESTABLISHED" /\ k.rcv = 1 /\ k.snd = 1 /\ k.len = 0
        /\ k.timer = k0.timer /\ k.peer = s /\ k.lport = conns[c].lport
    <3> HIDE DEF k0
    <3>1. k = ConnWith(k0, "ESTABLISHED", 1)
      BY <2>3 DEF ConnWith
    <3>2. k0.snd = 1 /\ k0.len = 0 /\ k0.peer = s /\ k0.lport = conns[c].lport /\ k0 \in ConnRec
      BY <1>2, <1>3, <1>5, <2>2
    <3> HIDE DEF k
    <3> QED
      BY <1>4, <3>1, <3>2, ConnSet
  <2>5. a \in AppRec /\ a.view = "open" /\ a.got = <<>> /\ a.acked = 0
    BY <1>2, <2>2 DEF AppRec
  <2>6. load.bytes \in Nat
    BY TcpAssumption DEF TcpInv, TablesOk
  <2>7. k.timer < TIMEOUT /\ conns[c].st \in Opening
    BY <1>1, <1>3, <2>4 DEF Opening
  <2> HIDE DEF k, a
  <2>8. Counts(a.got) /\ k.rcv = 1 + Len(a.got)
    BY <2>4, <2>5 DEF Counts
  <2>9. ConnOk(k, a)
    BY <1>1, <2>4, <2>5, <2>6, <2>7, <2>8 DEF ConnOk, Opening
  <2>10. Told(c, k, a)
    BY <1>2, <2>3, <2>4, <2>5, <2>7, <2>9 DEF Told
  <2> QED
    BY <1>1, <1>2, <2>1, <2>10, AnswerIsOk
<1>6. CASE ~up
  <2> DEFINE k  == [k0 EXCEPT !.st = "CLOSED"]
  <2>1. End(c, k) /\ Emit(conns[c].peer, Packet("RST", g.ack, 0))
    BY <1>3, <1>6 DEF InputSynSent
  <2>2. g.ack \in Nat
    BY <1>1 DEF SegmentOk
  <2>3. k \in ConnRec /\ k.peer = conns[c].peer /\ k.lport = conns[c].lport /\ k.st = "CLOSED"
    <3> HIDE DEF k0
    <3> QED
      BY <1>3, <1>4 DEF ConnRec
  <2> HIDE DEF k
  <2>4. Ending(c, k)
    BY <2>3 DEF Ending, Opening
  <2> QED
    BY <1>1, <1>2, <2>1, <2>2, <2>4, EndIsOk
<1> QED
  BY <1>5, <1>6

(* Segments in ESTABLISHED: data, acknowledgements and a FIN.              *)
LEMMA EstablishedIsOk ==
    ASSUME TcpInv, NEW c, NEW s, NEW g, Arrival(c, s, g), InputEstablished(c, g)
    PROVE  TcpInv'
<1> DEFINE k   == AfterAck(conns[c], g)
           a   == IF Acks(conns[c], g) THEN [app[c] EXCEPT !.acked = @ + 1] ELSE app[c]
           new == g.n > 0 /\ ~k.stopped
<1>1. /\ c \in Slot /\ s \in Session /\ SegmentOk(s, g) /\ UNCHANGED <<lastport, rem, load>>
      /\ conns[c].st = "ESTABLISHED" /\ InSequence(conns[c], g)
  BY DEF Arrival, InputEstablished, Accepted
<1>2. /\ conns[c].peer = s /\ Open(c) /\ conns[c] \in ConnRec /\ conns[c].timer < TIMEOUT
      /\ ConnOk(conns[c], app[c]) /\ LinkOk(conns[c], app[c]) /\ app[c] \in AppRec
      /\ RemOk(s) /\ Len(rem[s].got) \in Nat /\ rem[s].rcv \in Nat
  BY ArrivalIs DEF RemRec
<1>3. /\ k \in ConnRec /\ (k.timer < TIMEOUT \/ k.st = "CLOSED") /\ k.st = conns[c].st
      /\ k.peer = conns[c].peer /\ k.lport = conns[c].lport /\ k.rcv = conns[c].rcv
      /\ Acks(conns[c], g) => /\ conns[c].len = 1 /\ k.snd = conns[c].snd + 1 /\ k.len = 0
                              /\ "ACK" \in g.flags /\ g.ack = conns[c].snd + 1
      /\ ~Acks(conns[c], g) => k = conns[c]
  BY <1>2, AfterAckIs
<1>4. /\ conns[c].snd = app[c].acked + 1 /\ conns[c].rcv = 1 + Len(app[c].got)
      /\ app[c].view = "open" /\ Counts(app[c].got) /\ app[c].acked <= load.bytes
      /\ conns[c].len = 1 => app[c].acked < load.bytes
  BY <1>1, <1>2 DEF ConnOk
<1>5. /\ rem[s].rcv >= 1 /\ rem[s].rcv <= 1 + Len(rem[s].got) /\ app[c].acked <= Len(rem[s].got)
  <2>1. NoFin(s) /\ rem[s].rcv >= 1 /\ app[c].acked <= Len(rem[s].got)
    BY <1>1, <1>2, <1>4 DEF LinkOk, Opening
  <2> QED
    BY <1>2, <2>1 DEF RemOk
<1>6. load.bytes \in Nat
  BY TcpAssumption DEF TcpInv, TablesOk
<1>7. /\ a \in AppRec /\ a.view = "open" /\ a.got = app[c].got
      /\ a.acked = IF Acks(conns[c], g) THEN app[c].acked + 1 ELSE app[c].acked
  <2>1. app[c].acked + 1 \in Nat
    BY <1>2 DEF AppRec
  <2> QED
    BY <1>2, <1>4, <2>1 DEF AppRec
<1>8. /\ k.snd = a.acked + 1 /\ a.acked <= load.bytes /\ a.acked <= Len(rem[s].got)
      /\ k.len = 1 => a.acked < load.bytes
  <2>1. app[c].acked \in Nat
    BY <1>2 DEF AppRec
  <2>2. CASE Acks(conns[c], g)
    <3>1. g.ack <= rem[s].rcv /\ g.ack \in Nat
      BY <1>1, <1>3, <2>2 DEF SegmentOk
    <3>2. a.acked = app[c].acked + 1 /\ k.snd = conns[c].snd + 1 /\ k.len = 0 /\ g.ack = conns[c].snd + 1
      BY <1>3, <1>7, <2>2
    <3> HIDE DEF k, a
    <3> QED
      BY <1>2, <1>3, <1>4, <1>5, <1>6, <2>1, <2>2, <3>1, <3>2, SMTT(20)
  <2>3. CASE ~Acks(conns[c], g)
    <3>1. a.acked = app[c].acked /\ k = conns[c]
      BY <1>3, <1>7, <2>3
    <3> HIDE DEF k, a
    <3> QED
      BY <1>4, <1>5, <3>1
  <2> QED
    BY <2>2, <2>3
<1> HIDE DEF k, a
<1>9. Told(c, k, a)
  <2>1. ConnOk(k, a)
    BY <1>1, <1>2, <1>3, <1>4, <1>7, <1>8 DEF ConnOk, Opening
  <2> QED
    BY <1>1, <1>2, <1>3, <1>5, <1>8, <2>1 DEF Told
<1>10. g.n \in Nat /\ g.seq \in Nat /\ (g.n = 0 \/ g.seq = 1 + Len(a.got)) /\ a.got \in Seq(Nat)
  <2>1. g.n \in Nat /\ g.seq \in Nat
    BY <1>1 DEF SegmentOk
  <2>2. g.n = 0 \/ g.seq = conns[c].rcv
    BY <1>1 DEF InSequence
  <2> QED
    BY <1>4, <1>7, <2>1, <2>2 DEF AppRec
<1> DEFINE q == a.got \o Bytes(g)
<1>11. q \in Seq(Nat) /\ Counts(q) /\ Len(q) = Len(a.got) + g.n /\ Len(a.got) \in Nat
  <2> DEFINE b == a.got
  <2>1. b \in Seq(Nat) /\ Counts(b) /\ g.n \in Nat /\ g.seq \in Nat /\ (g.n = 0 \/ g.seq = 1 + Len(b))
    BY <1>4, <1>7, <1>10
  <2> HIDE DEF b
  <2>2. b \o Bytes(g) \in Seq(Nat) /\ Counts(b \o Bytes(g)) /\ Len(b \o Bytes(g)) = Len(b) + g.n
    BY <2>1, BytesFollow
  <2>3. Len(b) \in Nat
    BY <2>1
  <2> QED
    BY <2>2, <2>3 DEF b
<1> HIDE DEF q
<1>12. ASSUME UNCHANGED <<conns, app, wire>>
       PROVE  TcpInv'
  <2>1. UNCHANGED tcpVars
    BY <1>1, <1>12 DEF tcpVars
  <2> QED
    BY <2>1, StutterIsOk
<1>13. ASSUME k.len = 0,
              conns' = [conns EXCEPT ![c] = [k EXCEPT !.rcv = @ + g.n + 1, !.len = 1,
                                                        !.st = "LAST_ACK", !.nrtx = 0]],
              app' = [app EXCEPT ![c] = [a EXCEPT !.got = @ \o Bytes(g), !.view = "ended"]],
              Emit(k.peer, Packet("FIN", k.snd, 0))
       PROVE  TcpInv'
  <2> DEFINE n  == k.rcv + g.n + 1
             k2 == [k EXCEPT !.rcv = n, !.len = 1, !.st = "LAST_ACK", !.nrtx = 0]
             a2 == AppWith(a, "ended", q)
  <2>1. app' = [app EXCEPT ![c] = a2]
    BY <1>13 DEF AppWith, q
  <2>2. a2 \in AppRec /\ a2.view = "ended" /\ a2.got = q /\ a2.acked = a.acked
    BY <1>7, <1>11, AppSet DEF View
  <2>3. n \in Nat /\ MAXRTX \in Nat /\ "LAST_ACK" \in ConnState
    BY <1>3, <1>10, TcpAssumption DEF ConnRec, ConnState, Closing
  <2>4. k2 \in ConnRec
    <3> DEFINE k3 == [k EXCEPT !.rcv = n]
               k4 == [k3 EXCEPT !.len = 1]
               k5 == [k4 EXCEPT !.st = "LAST_ACK"]
    <3>1. k3 \in ConnRec
      <4> HIDE DEF n
      <4> QED
        BY <1>3, <2>3 DEF ConnRec
    <3>2. k4 \in ConnRec
      <4> HIDE DEF k3
      <4> QED
        BY <3>1 DEF ConnRec
    <3>3. k5 \in ConnRec
      <4> HIDE DEF k4
      <4> QED
        BY <2>3, <3>2 DEF ConnRec
    <3>4. k2 = [k5 EXCEPT !.nrtx = 0]
      BY <1>3 DEF ConnRec
    <3> HIDE DEF k5, k2
    <3> QED
      BY <2>3, <3>3, <3>4 DEF ConnRec
  <2>5. k2.st = "LAST_ACK" /\ k2.timer = k.timer /\ k2.peer = k.peer /\ k2.lport = k.lport
    BY <1>3 DEF ConnRec
  <2>6. conns' = [conns EXCEPT ![c] = k2]
    BY <1>13
  <2>7. k.snd \in Nat /\ PacketOk(s, Packet("FIN", k.snd, 0))
    BY <1>3, <1>5 DEF ConnRec, PacketOk, PacketRec, Packet
  <2> HIDE DEF k2, a2
  <2>8. ConnOk(k2, a2)
    BY <1>1, <1>2, <1>3, <1>8, <1>11, <2>2, <2>4, <2>5 DEF ConnOk, Opening
  <2>9. SlotMove(c, k2, a2, {Packet("FIN", k.snd, 0)})
    BY <1>2, <1>3, <1>5, <1>8, <2>2, <2>5, <2>7, <2>8 DEF SlotMove, Opening
  <2> DEFINE p == Packet("FIN", k.snd, 0)
  <2>10. Emit(conns[c].peer, p) /\ SlotMove(c, k2, a2, {p})
    BY <1>3, <1>13, <2>9
  <2> HIDE DEF p
  <2> QED
    BY <1>1, <1>2, <2>1, <2>6, <2>10, SendingStep
<1>14. ASSUME AppAnswers(c, IF new THEN [k EXCEPT !.rcv = @ + g.n] ELSE k,
                         IF new THEN [a EXCEPT !.got = @ \o Bytes(g)] ELSE a)
       PROVE  TcpInv'
  <2>1. CASE ~new
    BY <1>1, <1>2, <1>9, <1>14, <2>1, AnswerIsOk
  <2>2. CASE new
    <3> DEFINE n  == k.rcv + g.n
               k2 == [k EXCEPT !.rcv = n]
               a2 == [a EXCEPT !.got = q]
    <3>1. AppAnswers(c, k2, a2)
      BY <1>14, <2>2 DEF q
    <3>2. n \in Nat /\ n = 1 + Len(q)
      BY <1>3, <1>4, <1>7, <1>10, <1>11, SMTT(20) DEF ConnRec
    <3>3. /\ k2 \in ConnRec /\ k2.rcv = n /\ k2.st = k.st /\ k2.snd = k.snd /\ k2.len = k.len
          /\ k2.timer = k.timer /\ k2.peer = k.peer /\ k2.lport = k.lport
      <4> HIDE DEF n
      <4> QED
        BY <1>3, <3>2 DEF ConnRec
    <3>4. a2 \in AppRec /\ a2.view = "open" /\ a2.got = q /\ a2.acked = a.acked
      BY <1>7, <1>11 DEF AppRec
    <3> HIDE DEF k2, a2, n
    <3>5. ConnOk(k2, a2)
      BY <1>1, <1>2, <1>3, <1>8, <1>11, <3>2, <3>3, <3>4 DEF ConnOk, Opening
    <3>6. Told(c, k2, a2)
      BY <1>1, <1>2, <1>3, <1>5, <1>8, <3>3, <3>4, <3>5 DEF Told
    <3> QED
      BY <1>1, <1>2, <3>1, <3>6, AnswerIsOk
  <2> QED
    BY <2>1, <2>2
<1> QED
  BY <1>12, <1>13, <1>14 DEF InputEstablished, k, a

(* A connection that is being closed: it stays so, or ends.                *)
LEMMA ClosingArrivalIs ==
    ASSUME TcpInv, NEW c, NEW s, NEW g, Arrival(c, s, g), conns[c].st \in Closing
    PROVE  LET k == AfterAck(conns[c], g) IN
           /\ c \in Slot /\ Open(c) /\ UNCHANGED <<lastport, rem, load>>
           /\ k \in ConnRec /\ k.timer < TIMEOUT /\ k.st = conns[c].st
           /\ k.peer = conns[c].peer /\ k.lport = conns[c].lport
           /\ g.n \in Nat /\ rem[conns[c].peer].rcv >= 1
<1>1. /\ c \in Slot /\ UNCHANGED <<lastport, rem, load>> /\ g.n \in Nat
  BY DEF Arrival, SegmentOk
<1>2. Open(c) /\ conns[c] \in ConnRec /\ conns[c].timer < TIMEOUT /\ LinkOk(conns[c], app[c])
  BY ArrivalIs
<1>3. rem[conns[c].peer].rcv >= 1
  BY <1>2 DEF LinkOk, Opening, Closing
<1> QED
  BY <1>1, <1>2, <1>3, AfterAckIs DEF Open

(* What becomes of its record: another state, timer and sequence number.   *)
Moved(k, st, tm, r) == [k EXCEPT !.st = st, !.timer = tm, !.rcv = r]

(* A slot that is moved on within closing satisfies what closing slots do. *)
LEMMA MovedIsOk ==
    ASSUME NEW c, NEW k \in ConnRec, k.peer = conns[c].peer, k.lport = conns[c].lport,
           rem[conns[c].peer].rcv >= 1, k.timer < TIMEOUT,
           NEW st \in Closing \cup {"CLOSED"}, NEW tm \in {0, k.timer}, NEW r \in Nat
    PROVE  Ending(c, Moved(k, st, tm, r))
<1>1. st \in ConnState
  BY DEF ConnState
<1>2. TIMEOUT \in Nat \ {0, 1}
  BY TcpAssumption
<1>3. tm \in 0 .. TIMEOUT /\ tm < TIMEOUT
  BY <1>2 DEF ConnRec
<1> DEFINE a == [k EXCEPT !.st = st]
           b == [a EXCEPT !.timer = tm]
           d == [b EXCEPT !.rcv = r]
<1>4. a \in ConnRec /\ a.st = st /\ a.peer = k.peer /\ a.lport = k.lport
  BY <1>1 DEF ConnRec
<1>5. b \in ConnRec /\ b.st = st /\ b.timer = tm /\ b.peer = k.peer /\ b.lport = k.lport
  <2> HIDE DEF a
  <2> QED
    BY <1>3, <1>4 DEF ConnRec
<1>6. d \in ConnRec /\ d.st = st /\ d.timer = tm /\ d.peer = k.peer /\ d.lport = k.lport
  <2> HIDE DEF b
  <2> QED
    BY <1>5 DEF ConnRec
<1>7. Moved(k, st, tm, r) = d
  BY DEF Moved, ConnRec
<1> HIDE DEF d
<1>8. Ending(c, d)
  BY <1>3, <1>6 DEF Ending, Opening, Closing
<1> QED
  BY <1>7, <1>8

(* Segments in LAST_ACK.                                                   *)
LEMMA LastAckIsOk ==
    ASSUME TcpInv, NEW c, NEW s, NEW g, Arrival(c, s, g), InputLastAck(c, g)
    PROVE  TcpInv'
<1> DEFINE k == AfterAck(conns[c], g)
<1>1. conns[c].st = "LAST_ACK" /\ UNCHANGED wire
  BY DEF InputLastAck, Accepted
<1>2. /\ c \in Slot /\ Open(c) /\ UNCHANGED <<lastport, rem, load>>
      /\ k \in ConnRec /\ k.timer < TIMEOUT /\ k.peer = conns[c].peer /\ k.lport = conns[c].lport
      /\ rem[conns[c].peer].rcv >= 1
  BY <1>1, ClosingArrivalIs DEF Closing
<1> HIDE DEF k
<1>3. CASE ~Acks(conns[c], g)
  <2>1. UNCHANGED tcpVars
    BY <1>1, <1>2, <1>3 DEF InputLastAck, tcpVars
  <2> QED
    BY <2>1, StutterIsOk
<1>4. CASE Acks(conns[c], g)
  <2>1. End(c, [k EXCEPT !.st = "CLOSED"])
    BY <1>4 DEF InputLastAck, k
  <2>2. [k EXCEPT !.st = "CLOSED"] = Moved(k, "CLOSED", k.timer, k.rcv) /\ k.rcv \in Nat
    BY <1>2 DEF ConnRec, Moved
  <2>3. Ending(c, Moved(k, "CLOSED", k.timer, k.rcv))
    BY <1>2, <2>2, MovedIsOk
  <2> QED
    BY <1>1, <1>2, <2>1, <2>2, <2>3, EndIsOk
<1> QED
  BY <1>3, <1>4

(* Segments in FIN_WAIT_1.                                                 *)
LEMMA FinWait1IsOk ==
    ASSUME TcpInv, NEW c, NEW s, NEW g, Arrival(c, s, g), InputFinWait1(c, g)
    PROVE  TcpInv'
<1> DEFINE k0 == AfterAck(conns[c], g)
           k  == [k0 EXCEPT !.rcv = @ + g.n]
           n  == k0.rcv + g.n
<1>1. conns[c].st = "FIN_WAIT_1" /\ UNCHANGED wire
  BY DEF InputFinWait1, Accepted
<1>2. /\ c \in Slot /\ Open(c) /\ UNCHANGED <<lastport, rem, load>>
      /\ k0 \in ConnRec /\ k0.timer < TIMEOUT /\ k0.st = "FIN_WAIT_1"
      /\ k0.peer = conns[c].peer /\ k0.lport = conns[c].lport
      /\ g.n \in Nat /\ rem[conns[c].peer].rcv >= 1 /\ conns[c].st \in Closing
  BY <1>1, ClosingArrivalIs DEF Closing
<1>3. n \in Nat /\ n + 1 \in Nat
  BY <1>2 DEF ConnRec
<1>4. \A st \in {"FIN_WAIT_1", "FIN_WAIT_2", "CLOSING", "TIME_WAIT"} : \A tm \in {0, k0.timer} : \A r \in {n, n + 1} :
         Ending(c, Moved(k0, st, tm, r))
  <2> HIDE DEF k0, n
  <2> QED
    BY <1>2, <1>3, MovedIsOk DEF Closing
<1>5. /\ [k EXCEPT !.st = "TIME_WAIT", !.timer = 0, !.rcv = @ + 1] = Moved(k0, "TIME_WAIT", 0, n + 1)
      /\ [k EXCEPT !.st = "CLOSING", !.rcv = @ + 1] = Moved(k0, "CLOSING", k0.timer, n + 1)
      /\ [k EXCEPT !.st = "FIN_WAIT_2"] = Moved(k0, "FIN_WAIT_2", k0.timer, n)
      /\ k = Moved(k0, "FIN_WAIT_1", k0.timer, n)
  <2> HIDE DEF k0
  <2> QED
    BY <1>2 DEF ConnRec, Moved
<1>6. \/ \E k1 : Ending(c, k1) /\ End(c, k1)
      \/ \E k1 : Ending(c, k1) /\ conns' = [conns EXCEPT ![c] = k1] /\ UNCHANGED app
  BY <1>4, <1>5 DEF InputFinWait1
<1> QED
  BY <1>1, <1>2, <1>6, EndIsOk, MoveIsOk

(* Segments in FIN_WAIT_2.                                                 *)
LEMMA FinWait2IsOk ==
    ASSUME TcpInv, NEW c, NEW s, NEW g, Arrival(c, s, g), InputFinWait2(c, g)
    PROVE  TcpInv'
<1> DEFINE k0 == AfterAck(conns[c], g)
           k  == [k0 EXCEPT !.rcv = @ + g.n]
           n  == k0.rcv + g.n
<1>1. conns[c].st = "FIN_WAIT_2" /\ UNCHANGED wire
  BY DEF InputFinWait2, Accepted
<1>2. /\ c \in Slot /\ Open(c) /\ UNCHANGED <<lastport, rem, load>>
      /\ k0 \in ConnRec /\ k0.timer < TIMEOUT /\ k0.st = "FIN_WAIT_2"
      /\ k0.peer = conns[c].peer /\ k0.lport = conns[c].lport
      /\ g.n \in Nat /\ rem[conns[c].peer].rcv >= 1 /\ conns[c].st \in Closing
  BY <1>1, ClosingArrivalIs DEF Closing
<1>3. n \in Nat /\ n + 1 \in Nat
  BY <1>2 DEF ConnRec
<1>4. \A st \in {"FIN_WAIT_2", "TIME_WAIT"} : \A tm \in {0, k0.timer} : \A r \in {n, n + 1} :
         Ending(c, Moved(k0, st, tm, r))
  <2> HIDE DEF k0, n
  <2> QED
    BY <1>2, <1>3, MovedIsOk DEF Closing
<1>5. /\ [k EXCEPT !.st = "TIME_WAIT", !.timer = 0, !.rcv = @ + 1] = Moved(k0, "TIME_WAIT", 0, n + 1)
      /\ k = Moved(k0, "FIN_WAIT_2", k0.timer, n)
  <2> HIDE DEF k0
  <2> QED
    BY <1>2 DEF ConnRec, Moved
<1>6. \/ \E k1 : Ending(c, k1) /\ End(c, k1)
      \/ \E k1 : Ending(c, k1) /\ conns' = [conns EXCEPT ![c] = k1] /\ UNCHANGED app
  BY <1>4, <1>5 DEF InputFinWait2
<1> QED
  BY <1>1, <1>2, <1>6, EndIsOk, MoveIsOk

(* Segments in CLOSING.                                                    *)
LEMMA ClosingIsOk ==
    ASSUME TcpInv, NEW c, NEW s, NEW g, Arrival(c, s, g), InputClosing(c, g)
    PROVE  TcpInv'
<1> DEFINE k == AfterAck(conns[c], g)
<1>1. conns[c].st = "CLOSING" /\ UNCHANGED <<app, wire>>
  BY DEF InputClosing, Accepted
<1>2. /\ c \in Slot /\ Open(c) /\ UNCHANGED <<lastport, rem, load>>
      /\ k \in ConnRec /\ k.timer < TIMEOUT /\ k.peer = conns[c].peer /\ k.lport = conns[c].lport
      /\ rem[conns[c].peer].rcv >= 1 /\ conns[c].st \in Closing
  BY <1>1, ClosingArrivalIs DEF Closing
<1>3. CASE ~Acks(conns[c], g)
  <2>1. conns' = conns
    BY <1>2, <1>3 DEF InputClosing, TcpInv, TablesOk
  <2>2. UNCHANGED tcpVars
    BY <1>1, <1>2, <2>1 DEF tcpVars
  <2> QED
    BY <2>2, StutterIsOk
<1>4. CASE Acks(conns[c], g)
  <2>1. conns' = [conns EXCEPT ![c] = [k EXCEPT !.st = "TIME_WAIT", !.timer = 0]]
    BY <1>4 DEF InputClosing
  <2> HIDE DEF k
  <2>2. [k EXCEPT !.st = "TIME_WAIT", !.timer = 0] = Moved(k, "TIME_WAIT", 0, k.rcv) /\ k.rcv \in Nat
    BY <1>2 DEF ConnRec, Moved
  <2>3. Ending(c, Moved(k, "TIME_WAIT", 0, k.rcv))
    BY <1>2, <2>2, MovedIsOk DEF Closing
  <2> QED
    BY <1>1, <1>2, <2>1, <2>2, <2>3, MoveIsOk
<1> QED
  BY <1>3, <1>4

(* The connection that a segment belongs to.                               *)
LEMMA InputIsOk ==
    ASSUME TcpInv, NEW c, NEW s, NEW g, Arrival(c, s, g),
           \/ InputReset(c, g) \/ InputOutOfSequence(c, g)
           \/ InputSynRcvd(c, g) \/ InputSynSent(c, g) \/ InputEstablished(c, g)
           \/ InputLastAck(c, g) \/ InputFinWait1(c, g) \/ InputFinWait2(c, g)
           \/ InputClosing(c, g) \/ InputTimeWait(c, g)
    PROVE  TcpInv'
<1>1. CASE InputOutOfSequence(c, g) \/ InputTimeWait(c, g)
  <2>1. UNCHANGED tcpVars
    BY <1>1 DEF InputOutOfSequence, InputTimeWait, Arrival, tcpVars
  <2> QED
    BY <2>1, StutterIsOk
<1> QED
  BY <1>1, ResetIsOk, SynRcvdIsOk, SynSentIsOk, EstablishedIsOk, LastAckIsOk,
     FinWait1IsOk, FinWait2IsOk, ClosingIsOk

-----------------------------------------------------------------------------
(* The timer calls.                                                        *)
LEMMA SlotIs ==
    ASSUME TcpInv, NEW c \in Slot, Open(c)
    PROVE  /\ conns[c].peer \in Session /\ conns[c] \in ConnRec /\ conns[c].timer < TIMEOUT
           /\ ConnOk(conns[c], app[c]) /\ LinkOk(conns[c], app[c]) /\ app[c] \in AppRec
           /\ conns[c].timer \in Nat /\ conns[c].snd \in Nat /\ app[c].acked \in Nat
<1>1. conns[c].peer \in Session
  BY PeerMatches
<1>2. conns[c] \in ConnRec /\ app[c] \in AppRec /\ ConnOk(conns[c], app[c]) /\ LinkOk(conns[c], app[c])
  BY DEF TcpInv, TablesOk
<1>3. conns[c].timer < TIMEOUT
  BY <1>2 DEF ConnOk, Open
<1> QED
  BY <1>1, <1>2, <1>3 DEF ConnRec, AppRec

(* The periodic timer of TIME_WAIT and FIN_WAIT_2.                         *)
LEMMA TimerClosesIsOk ==
    ASSUME TcpInv, NEW c \in Slot, TimerCloses(c)
    PROVE  TcpInv'
<1> DEFINE k0 == conns[c]
           st == IF conns[c].timer + 1 = TIMEOUT THEN "CLOSED" ELSE conns[c].st
           n  == conns[c].timer + 1
           k1 == [k0 EXCEPT !.timer = n]
           k  == [k1 EXCEPT !.st = st]
<1>1. conns[c].st \in {"TIME_WAIT", "FIN_WAIT_2"} /\ UNCHANGED <<lastport, app, rem, wire, load>>
  BY DEF TimerCloses
<1>2. Open(c) /\ conns[c].st \in Closing
  BY <1>1 DEF Open, Closing
<1>3. /\ conns[c] \in ConnRec /\ conns[c].timer < TIMEOUT /\ LinkOk(conns[c], app[c])
      /\ conns[c].timer \in Nat
  BY <1>2, SlotIs
<1>4. rem[conns[c].peer].rcv >= 1
  BY <1>2, <1>3 DEF LinkOk, Opening, Closing
<1>5. TIMEOUT \in Nat \ {0, 1} /\ st \in ConnState /\ st \notin Opening \cup {"ESTABLISHED"}
  BY <1>1, TcpAssumption DEF ConnState, Closing, Opening
<1>6. n \in 0 .. TIMEOUT /\ (st # "CLOSED" => n < TIMEOUT)
  BY <1>3, <1>5
<1>7. conns' = [conns EXCEPT ![c] = k]
  <2>1. conns' = [conns EXCEPT ![c].timer = @ + 1, ![c].st = IF conns[c].timer + 1 = TIMEOUT THEN "CLOSED" ELSE @]
    BY DEF TimerCloses
  <2>2. conns \in [Slot -> ConnRec]
    BY DEF TcpInv, TablesOk
  <2> QED
    BY <2>1, <2>2 DEF ConnRec
<1> HIDE DEF n, st
<1>8. k1 \in ConnRec /\ k1.timer = n /\ k1.peer = conns[c].peer /\ k1.lport = conns[c].lport
  BY <1>3, <1>6 DEF ConnRec
<1> HIDE DEF k1
<1>9. /\ k \in ConnRec /\ k.st = st /\ k.timer = n /\ k.peer = conns[c].peer /\ k.lport = conns[c].lport
  BY <1>5, <1>8 DEF ConnRec
<1> HIDE DEF k
<1>10. Ending(c, k)
  BY <1>4, <1>5, <1>6, <1>9 DEF Ending
<1> QED
  BY <1>1, <1>2, <1>7, <1>10, MoveIsOk

(* The retransmission that is one too many: the connection is given up.    *)
LEMMA TimerTimedOutIsOk ==
    ASSUME TcpInv, NEW c \in Slot, TimerTimedOut(c)
    PROVE  TcpInv'
<1> DEFINE k == [conns[c] EXCEPT !.st = "CLOSED"]
<1>1. /\ Open(c) /\ End(c, k) /\ Emit(conns[c].peer, Packet("RST", conns[c].snd, 0))
      /\ UNCHANGED <<lastport, rem, load>>
  BY DEF TimerTimedOut, RexmitDue, Open
<1>2. conns[c] \in ConnRec /\ conns[c].snd \in Nat
  BY <1>1, SlotIs
<1>3. "CLOSED" \in ConnState
  BY DEF ConnState
<1>4. k \in ConnRec /\ k.st = "CLOSED" /\ k.peer = conns[c].peer /\ k.lport = conns[c].lport
  BY <1>2, <1>3 DEF ConnRec
<1> HIDE DEF k
<1>5. Ending(c, k)
  BY <1>4 DEF Ending, Opening
<1> QED
  BY <1>1, <1>2, <1>5, EndIsOk

(* A retransmission, for which the application sends its data again.       *)
LEMMA TimerRexmitIsOk ==
    ASSUME TcpInv, NEW c \in Slot, TimerRexmit(c)
    PROVE  TcpInv'
<1> DEFINE k0 == conns[c]
           k  == [k0 EXCEPT !.nrtx = @ + 1]
           p  == CASE k0.st \in {"SYN_RCVD", "SYN_SENT"} -> Packet("SYN", k0.snd, 0)
                   [] k0.st = "ESTABLISHED" -> Packet("DATA", k0.snd, app[c].acked + 1)
                   [] OTHER -> Packet("FIN", k0.snd, 0)
<1>1. /\ RexmitDue(c) /\ ~GivesUp(c) /\ Open(c) /\ Emit(k0.peer, p)
      /\ UNCHANGED <<lastport, app, rem, load>>
  BY DEF TimerRexmit, RexmitDue, Open
<1>2. /\ k0.peer \in Session /\ k0 \in ConnRec /\ k0.snd \in Nat /\ app[c].acked \in Nat
      /\ ConnOk(k0, app[c]) /\ LinkOk(k0, app[c]) /\ app[c] \in AppRec
  BY <1>1, SlotIs
<1>3. k0.len = 1
  BY <1>1, <1>2 DEF RexmitDue, ConnRec
<1>4. k0.nrtx + 1 \in 0 .. MAXRTX
  BY <1>1, <1>2, TcpAssumption DEF GivesUp, ConnRec
<1>5. conns' = [conns EXCEPT ![c] = k] /\ app' = [app EXCEPT ![c] = app[c]]
  BY <1>1 DEF TimerRexmit, TcpInv, TablesOk
<1>6. load.bytes \in Nat
  BY TcpAssumption DEF TcpInv, TablesOk
<1>7. PacketOk(k0.peer, p) /\ (k0.st \in Opening \cup {"ESTABLISHED"} => p.kind # "FIN")
  <2>1. CASE k0.st \in {"SYN_RCVD", "SYN_SENT"}
    <3>1. p = Packet("SYN", k0.snd, 0)
      BY <2>1
    <3> QED
      BY <1>2, <3>1 DEF PacketOk, PacketRec, Packet
  <2>2. CASE k0.st = "ESTABLISHED"
    <3>1. p = Packet("DATA", k0.snd, app[c].acked + 1)
      BY <2>2
    <3>2. k0.snd = app[c].acked + 1 /\ app[c].acked < load.bytes
      BY <1>2, <1>3, <2>2 DEF ConnOk
    <3> QED
      BY <1>2, <1>6, <3>1, <3>2 DEF PacketOk, PacketRec, Packet
  <2>3. CASE k0.st \notin {"SYN_RCVD", "SYN_SENT", "ESTABLISHED"}
    <3>1. p = Packet("FIN", k0.snd, 0)
      BY <2>3
    <3>2. rem[k0.peer].rcv >= 1
      BY <1>1, <1>2, <2>3 DEF LinkOk, Opening, Open
    <3> QED
      BY <1>2, <2>3, <3>1, <3>2 DEF PacketOk, PacketRec, Packet, Opening
  <2> QED
    BY <2>1, <2>2, <2>3
<1> HIDE DEF p
<1> DEFINE n == k0.nrtx + 1
<1>8. /\ k \in ConnRec /\ k.st = k0.st /\ k.snd = k0.snd /\ k.rcv = k0.rcv /\ k.len = k0.len
      /\ k.timer = k0.timer /\ k.peer = k0.peer /\ k.lport = k0.lport
  <2>1. k = [k0 EXCEPT !.nrtx = n]
    OBVIOUS
  <2>2. n \in 0 .. MAXRTX
    BY <1>4
  <2> HIDE DEF n, k
  <2> QED
    BY <1>2, <2>1, <2>2 DEF ConnRec
<1> HIDE DEF k
<1>9. ConnOk(k, app[c])
  BY <1>2, <1>8 DEF ConnOk
<1>10. SlotMove(c, k, app[c], {p})
  BY <1>1, <1>2, <1>7, <1>8, <1>9 DEF SlotMove, LinkOk, Open
<1> QED
  BY <1>1, <1>5, <1>10, SendingStep

(* The application is polled.                                              *)
LEMMA TimerPollIsOk ==
    ASSUME TcpInv, NEW c \in Slot, TimerPoll(c)
    PROVE  TcpInv'
<1>1. /\ conns[c].st = "ESTABLISHED" /\ Open(c) /\ AppAnswers(c, conns[c], app[c])
      /\ UNCHANGED <<lastport, rem, load>>
  BY DEF TimerPoll, Open
<1>2. ConnOk(conns[c], app[c]) /\ LinkOk(conns[c], app[c])
  BY <1>1, SlotIs
<1>3. app[c].view # "none"
  BY <1>1, <1>2 DEF ConnOk
<1>4. Told(c, conns[c], app[c])
  BY <1>1, <1>2, <1>3 DEF Told, LinkOk, Opening
<1> QED
  BY <1>1, <1>4, AnswerIsOk

-----------------------------------------------------------------------------
(* The remote side.                                                        *)
LEMMA RemoteStep ==
    ASSUME TcpInv, NEW s \in Session, NEW r \in RemRec,
           rem' = [rem EXCEPT ![s] = r], UNCHANGED <<conns, lastport, app, wire, load>>,
           r.lport = rem[s].lport, r.phase \notin Away, rem[s].phase \notin Away \/ s \in Client,
           r.rcv >= rem[s].rcv, Len(r.got) >= Len(rem[s].got), RemOk(s)'
    PROVE  TcpInv'
<1>1. rem' \in [Session -> RemRec] /\ \A t \in Session : rem'[t] = IF t = s THEN r ELSE rem[t]
  BY DEF TcpInv, TablesOk
<1>2. TablesOk'
  BY <1>1 DEF TcpInv, TablesOk
<1>3. ASSUME NEW c \in Slot
      PROVE  ConnOk(conns[c], app[c])'
  BY DEF TcpInv, ConnOk
<1>4. ASSUME NEW c \in Slot
      PROVE  LinkOk(conns[c], app[c])'
  <2>1. LinkOk(conns[c], app[c]) /\ ConnOk(conns[c], app[c])
    BY DEF TcpInv
  <2>2. conns'[c] = conns[c] /\ app'[c] = app[c] /\ wire' = wire
    OBVIOUS
  <2>3. CASE conns[c].st = "CLOSED" /\ app[c].view = "none"
    BY <2>2, <2>3 DEF LinkOk, Opening
  <2>4. CASE conns[c].st # "CLOSED" \/ app[c].view # "none"
    <3> DEFINE P == conns[c].peer
    <3>1. P \in Session
      BY <2>1, <2>4 DEF ConnOk
    <3>2. /\ rem'[P].lport = rem[P].lport /\ (rem[P].phase \notin Away => rem'[P].phase \notin Away)
          /\ (rem[P].rcv >= 1 => rem'[P].rcv >= 1) /\ app[c].acked \in Nat
          /\ (app[c].acked <= Len(rem[P].got) => app[c].acked <= Len(rem'[P].got))
      <4>1. rem[s].rcv \in Nat /\ Len(rem[s].got) \in Nat /\ r.rcv \in Nat /\ Len(r.got) \in Nat
        BY DEF TcpInv, TablesOk, RemRec
      <4>2. app[c].acked \in Nat
        BY DEF TcpInv, TablesOk, AppRec
      <4> HIDE DEF P
      <4> QED
        BY <1>1, <3>1, <4>1, <4>2
    <3> QED
      BY <2>1, <2>2, <3>2 DEF LinkOk, NoFin
  <2> QED
    BY <2>3, <2>4
<1>5. OneSlotEach'
  BY DEF TcpInv, OneSlotEach, Open
<1>6. PortsApart'
  <2>1. \A t \in Session \ Client : /\ rem'[t].lport = rem[t].lport
                                    /\ rem'[t].phase \notin Away => rem[t].phase \notin Away
    BY <1>1
  <2> QED
    BY <2>1 DEF TcpInv, PortsApart
<1>7. ASSUME NEW t \in Session
      PROVE  RemOk(t)'
  <2>1. CASE t # s
    <3>1. rem'[t] = rem[t] /\ RemOk(t)
      BY <1>1, <2>1 DEF TcpInv
    <3> QED
      BY <3>1 DEF RemOk, NoFin
  <2> QED
    BY <2>1
<1> QED
  BY <1>2, <1>3, <1>4, <1>5, <1>6, <1>7 DEF TcpInv

(* A remote host opens a connection.                                       *)
LEMMA RemoteOpenIsOk ==
    ASSUME TcpInv, NEW s \in Session, RemoteOpen(s)
    PROVE  TcpInv'
<1> DEFINE r == [rem[s] EXCEPT !.phase = "syn"]
<1>1. /\ rem' = [rem EXCEPT ![s] = r] /\ s \in Client /\ rem[s].phase = "idle"
      /\ UNCHANGED <<conns, lastport, app, wire, load>> /\ rem[s] \in RemRec /\ RemOk(s)
  BY DEF RemoteOpen, TcpInv, TablesOk
<1>2. /\ r \in RemRec /\ r.lport = rem[s].lport /\ r.phase = "syn" /\ r.rcv = rem[s].rcv
      /\ r.got = rem[s].got /\ r.rcv \in Nat /\ Len(r.got) \in Nat
  <2>1. rem[s].rcv \in Nat /\ rem[s].got \in Seq(Nat)
    BY <1>1 DEF RemRec
  <2>2. r \in RemRec /\ r.lport = rem[s].lport /\ r.phase = "syn" /\ r.rcv = rem[s].rcv /\ r.got = rem[s].got
    BY <1>1 DEF RemRec
  <2> HIDE DEF r
  <2> QED
    BY <2>1, <2>2
<1>3. rem'[s] = r /\ wire'[s] = wire[s]
  BY <1>1 DEF TcpInv, TablesOk
<1> HIDE DEF r
<1>4. RemOk(s)'
  <2>1. rem[s].rcv = 0 /\ rem[s].lport = ListenPort
    BY <1>1 DEF RemOk
  <2>2. NoFin(s)' <=> NoFin(s)
    BY <1>3 DEF NoFin
  <2>3. NoFin(s) /\ rem[s].got = <<>>
    BY <1>1, <2>1 DEF RemOk
  <2> QED
    BY <1>1, <1>2, <1>3, <2>1, <2>2, <2>3 DEF RemOk
<1>5. r.rcv >= rem[s].rcv /\ Len(r.got) >= Len(rem[s].got) /\ r.phase \notin Away
  BY <1>2
<1> QED
  BY <1>1, <1>2, <1>4, <1>5, RemoteStep

(* A session that is over on both sides gives its port back.               *)
LEMMA ForgettingIsOk ==
    ASSUME TcpInv, NEW s \in Session, NetworkForgets(s)
    PROVE  TcpInv'
<1>1. /\ s \notin Client /\ ~Attached(s) /\ rem[s] \in RemRec /\ RemOk(s)
      /\ UNCHANGED <<conns, lastport, app, wire, load>>
  BY DEF NetworkForgets, TcpInv, TablesOk
<1> DEFINE q == [rem[s] EXCEPT !.phase = "gone"]
           r == [q EXCEPT !.lport = 0]
<1>2. rem' = [rem EXCEPT ![s] = r]
  BY DEF NetworkForgets, TcpInv, TablesOk
<1>3. q \in RemRec /\ q.phase = "gone" /\ q.rcv = rem[s].rcv /\ q.got = rem[s].got
  BY <1>1 DEF RemRec
<1> HIDE DEF q
<1>4. r \in RemRec /\ r.phase = "gone" /\ r.lport = 0 /\ r.rcv = rem[s].rcv /\ r.got = rem[s].got
  BY <1>3 DEF RemRec
<1> HIDE DEF r
<1>5. rem' \in [Session -> RemRec] /\ \A t \in Session : rem'[t] = IF t = s THEN r ELSE rem[t]
  BY <1>2, <1>4 DEF TcpInv, TablesOk
<1>6. TablesOk'
  BY <1>1, <1>5 DEF TcpInv, TablesOk
<1>7. ASSUME NEW c \in Slot
      PROVE  ConnOk(conns[c], app[c])' /\ LinkOk(conns[c], app[c])'
  <2>1. LinkOk(conns[c], app[c]) /\ ConnOk(conns[c], app[c]) /\ ConnOk(conns[c], app[c])'
    BY <1>1 DEF TcpInv, ConnOk
  <2>2. conns'[c] = conns[c] /\ app'[c] = app[c] /\ wire' = wire
    BY <1>1
  <2>3. CASE conns[c].st = "CLOSED" /\ app[c].view = "none"
    BY <2>1, <2>2, <2>3 DEF LinkOk, Opening
  <2>4. CASE conns[c].st # "CLOSED" \/ app[c].view # "none"
    <3>1. conns[c].peer \in Session /\ (conns[c].st # "CLOSED" => conns[c].peer # s)
      BY <1>1, <2>1, <2>4 DEF ConnOk, Attached
    <3>2. /\ rem'[conns[c].peer].got = rem[conns[c].peer].got
          /\ conns[c].st # "CLOSED" => rem'[conns[c].peer] = rem[conns[c].peer]
      BY <1>4, <1>5, <3>1
    <3> QED
      BY <2>1, <2>2, <3>2 DEF LinkOk, NoFin, Opening
  <2> QED
    BY <2>1, <2>3, <2>4
<1>8. OneSlotEach'
  BY <1>1 DEF TcpInv, OneSlotEach, Open
<1>9. PortsApart'
  <2>1. \A t \in Session : rem'[t].phase \notin Away => t # s /\ rem'[t] = rem[t]
    BY <1>4, <1>5 DEF Away
  <2> QED
    BY <2>1 DEF TcpInv, PortsApart
<1>10. ASSUME NEW t \in Session
       PROVE  RemOk(t)'
  <2>1. CASE t # s
    <3>1. rem'[t] = rem[t] /\ RemOk(t)
      BY <1>5, <2>1 DEF TcpInv
    <3> QED
      BY <1>1, <3>1 DEF RemOk, NoFin
  <2>2. CASE t = s
    BY <1>1, <1>4, <1>5, <2>2 DEF RemOk, NoFin, Away
  <2> QED
    BY <2>1, <2>2
<1> QED
  BY <1>6, <1>7, <1>8, <1>9, <1>10 DEF TcpInv

(* A remote host sends data, a FIN or a RST.                               *)
LEMMA RemoteSendsIsOk ==
    ASSUME TcpInv, NEW s \in Session, RemoteSends(s)
    PROVE  TcpInv'
<1>1. /\ rem[s].phase \in {"up", "half"} /\ UNCHANGED <<conns, lastport, app, wire, load>>
      /\ rem[s] \in RemRec /\ RemOk(s)
  BY DEF RemoteSends, TcpInv, TablesOk
<1>2. ASSUME NEW r \in RemRec, rem' = [rem EXCEPT ![s] = r], r.lport = rem[s].lport,
             r.phase = rem[s].phase, r.rcv = rem[s].rcv, r.got = rem[s].got
      PROVE  TcpInv'
  <2>1. rem'[s] = r /\ wire'[s] = wire[s]
    BY <1>1, <1>2 DEF TcpInv, TablesOk
  <2>2. RemOk(s)'
    <3>1. NoFin(s)' <=> NoFin(s)
      BY <2>1 DEF NoFin
    <3> QED
      BY <1>1, <1>2, <2>1, <3>1 DEF RemOk
  <2>3. r.rcv \in Nat /\ Len(r.got) \in Nat
    BY DEF RemRec
  <2>4. r.rcv >= rem[s].rcv /\ Len(r.got) >= Len(rem[s].got) /\ r.phase \notin Away /\ rem[s].phase \notin Away
    BY <1>1, <1>2, <2>3
  <2> QED
    BY <1>1, <1>2, <2>2, <2>4, RemoteStep
<1>3. CASE rem' = [rem EXCEPT ![s].sent = @ + 1]
  <2> DEFINE r == [rem[s] EXCEPT !.sent = rem[s].sent + 1]
  <2>1. rem' = [rem EXCEPT ![s] = r]
    BY <1>3
  <2>2. r \in RemRec /\ r.lport = rem[s].lport /\ r.phase = rem[s].phase /\ r.rcv = rem[s].rcv /\ r.got = rem[s].got
    BY <1>1 DEF RemRec
  <2> QED
    BY <1>2, <2>1, <2>2
<1>4. CASE rem' = [rem EXCEPT ![s].fin = TRUE]
  <2> DEFINE r == [rem[s] EXCEPT !.fin = TRUE]
  <2>1. rem' = [rem EXCEPT ![s] = r]
    BY <1>4
  <2>2. r \in RemRec /\ r.lport = rem[s].lport /\ r.phase = rem[s].phase /\ r.rcv = rem[s].rcv /\ r.got = rem[s].got
    BY <1>1 DEF RemRec
  <2> QED
    BY <1>2, <2>1, <2>2
<1>5. CASE rem' = [rem EXCEPT ![s].rst = TRUE]
  <2> DEFINE r == [rem[s] EXCEPT !.rst = TRUE]
  <2>1. rem' = [rem EXCEPT ![s] = r]
    BY <1>5
  <2>2. r \in RemRec /\ r.lport = rem[s].lport /\ r.phase = rem[s].phase /\ r.rcv = rem[s].rcv /\ r.got = rem[s].got
    BY <1>1 DEF RemRec
  <2> QED
    BY <1>2, <2>1, <2>2
<1> QED
  BY <1>3, <1>4, <1>5 DEF RemoteSends

(* One more byte.                                                          *)
LEMMA CountsOn ==
    ASSUME NEW q \in Seq(Nat), Counts(q), NEW x, x = 1 + Len(q)
    PROVE  Append(q, x) \in Seq(Nat) /\ Counts(Append(q, x)) /\ Len(Append(q, x)) = 1 + Len(q)
<1> DEFINE r == Append(q, x)
<1>1. Len(q) \in Nat /\ x \in Nat
  OBVIOUS
<1>2. r \in Seq(Nat) /\ Len(r) = 1 + Len(q)
  BY <1>1
<1>3. ASSUME NEW i \in 1 .. Len(r)
      PROVE  r[i] = i
  <2>1. CASE i <= Len(q)
    <3>1. r[i] = q[i] /\ q[i] = i
      BY <1>1, <1>2, <2>1 DEF Counts
    <3> QED
      BY <3>1
  <2>2. CASE i = 1 + Len(q)
    BY <1>1, <1>2, <2>2
  <2> QED
    BY <1>1, <1>2, <2>1, <2>2
<1> HIDE DEF r
<1>4. r = [i \in 1 .. Len(r) |-> i]
  BY <1>2, <1>3
<1> QED
  BY <1>2, <1>4 DEF Counts, r

(* A remote host takes a segment that was ever sent to it, or drops it.    *)
LEMMA RemoteTakesIsOk ==
    ASSUME TcpInv, NEW s \in Session, NEW p \in wire[s], RemoteTakes(s, p)
    PROVE  TcpInv'
<1> DEFINE r0 == rem[s]
<1>1. /\ r0 \in RemRec /\ RemOk(s) /\ UNCHANGED <<conns, lastport, app, wire, load>>
      /\ p \in PacketRec
  BY DEF RemoteTakes, TcpInv, TablesOk
<1>2. r0.rcv \in Nat /\ r0.got \in Seq(Nat) /\ Len(r0.got) \in Nat /\ load.bytes \in Nat
  BY <1>1, TcpAssumption DEF RemRec, TcpInv, TablesOk
<1>3. ASSUME NEW r, rem' = [rem EXCEPT ![s] = r]
      PROVE  rem'[s] = r /\ (NoFin(s)' <=> NoFin(s)) /\ wire'[s] = wire[s]
  BY <1>1, <1>3 DEF TcpInv, TablesOk, NoFin
<1>4. CASE /\ p.kind = "SYN" /\ r0.phase \in {"syn", "listen"}
           /\ rem' = [rem EXCEPT ![s].phase = "up", ![s].rcv = 1]
  <2> DEFINE r == [r0 EXCEPT !.phase = "up", !.rcv = 1]
  <2>1. rem' = [rem EXCEPT ![s] = r]
    BY <1>4 DEF TcpInv, TablesOk
  <2>2. r \in RemRec /\ r.phase = "up" /\ r.rcv = 1 /\ r.got = r0.got /\ r.lport = r0.lport
    BY <1>1 DEF RemRec
  <2> HIDE DEF r
  <2>3. rem'[s] = r /\ (NoFin(s)' <=> NoFin(s)) /\ wire'[s] = wire[s]
    BY <1>3, <2>1
  <2>4. r0.rcv = 0 /\ r0.got = <<>> /\ Len(r0.got) = 0
    <3>1. r0.rcv = 0
      BY <1>1, <1>4 DEF RemOk
    <3>2. r0.got = <<>>
      BY <1>1, <3>1 DEF RemOk
    <3> QED
      BY <3>1, <3>2
  <2>5. RemOk(s)'
    BY <1>1, <1>2, <1>4, <2>2, <2>3, <2>4 DEF RemOk
  <2>6. r.rcv >= r0.rcv /\ Len(r.got) >= Len(r0.got) /\ r.phase \notin Away /\ r0.phase \notin Away
    BY <1>2, <1>4, <2>2, <2>4
  <2> QED
    BY <1>1, <2>1, <2>2, <2>5, <2>6, RemoteStep
<1>5. CASE /\ p.kind = "DATA" /\ r0.phase = "up" /\ p.seq = r0.rcv
           /\ rem' = [rem EXCEPT ![s].rcv = @ + 1, ![s].got = Append(@, p.item)]
  <2> DEFINE n == r0.rcv + 1
             q == Append(r0.got, p.item)
             r1 == [r0 EXCEPT !.rcv = n]
             r == [r1 EXCEPT !.got = q]
  <2>1. rem' = [rem EXCEPT ![s] = r]
    BY <1>5 DEF TcpInv, TablesOk
  <2>2. /\ r0.rcv = 1 + Len(r0.got) /\ Counts(r0.got) /\ p.item = 1 + Len(r0.got)
        /\ p.item \in 1 .. load.bytes
    BY <1>1, <1>5 DEF RemOk
  <2>3. q \in Seq(Nat) /\ Counts(q) /\ Len(q) = 1 + Len(r0.got)
    BY <1>2, <2>2, CountsOn
  <2>4. n \in Nat /\ n = 1 + Len(q) /\ Len(q) <= load.bytes
    BY <1>2, <2>2, <2>3
  <2> HIDE DEF n, q
  <2>5. r1 \in RemRec /\ r1.phase = "up" /\ r1.rcv = n /\ r1.lport = r0.lport
    BY <1>1, <1>5, <2>4 DEF RemRec
  <2> HIDE DEF r1
  <2>6. r \in RemRec /\ r.phase = "up" /\ r.rcv = n /\ r.got = q /\ r.lport = r0.lport
    BY <2>3, <2>5 DEF RemRec
  <2> HIDE DEF r
  <2>7. rem'[s] = r /\ (NoFin(s)' <=> NoFin(s)) /\ wire'[s] = wire[s]
    BY <1>3, <2>1
  <2>8. Len(q) \in Nat
    BY <2>3
  <2>9. RemOk(s)'
    <3>1. n # 0 /\ n <= 1 + Len(q) /\ n <= 2 + Len(q)
      BY <2>4, <2>8
    <3>2. /\ rem[s].lport = rem'[s].lport /\ rem[s].phase \notin Away /\ rem'[s].phase = "up"
          /\ rem'[s].rcv = n /\ rem'[s].got = q
      BY <1>5, <2>6, <2>7
    <3>3. \A x \in wire'[s] : x.kind = "DATA" => x.item = x.seq /\ x.item \in 1 .. load.bytes
      BY <1>1, <2>7 DEF RemOk
    <3> QED
      BY <1>1, <2>3, <2>4, <3>1, <3>2, <3>3 DEF RemOk
  <2>10. r.rcv >= r0.rcv /\ Len(r.got) >= Len(r0.got) /\ r.phase \notin Away /\ r0.phase \notin Away
    BY <1>2, <1>5, <2>2, <2>3, <2>4, <2>6, <2>8
  <2> QED
    BY <1>1, <2>1, <2>6, <2>9, <2>10, RemoteStep
<1>6. CASE /\ p.kind = "FIN" /\ r0.phase = "up" /\ p.seq = r0.rcv
           /\ rem' = [rem EXCEPT ![s].rcv = @ + 1, ![s].phase = "half"]
  <2> DEFINE n == r0.rcv + 1
             r1 == [r0 EXCEPT !.rcv = n]
             r == [r1 EXCEPT !.phase = "half"]
  <2>1. rem' = [rem EXCEPT ![s] = r]
    BY <1>6 DEF TcpInv, TablesOk
  <2>2. n \in Nat /\ n = 2 + Len(r0.got) /\ ~NoFin(s)
    BY <1>1, <1>2, <1>6 DEF RemOk, NoFin
  <2> HIDE DEF n
  <2>3. r1 \in RemRec /\ r1.got = r0.got /\ r1.rcv = n /\ r1.lport = r0.lport
    BY <1>1, <2>2 DEF RemRec
  <2> HIDE DEF r1
  <2>4. r \in RemRec /\ r.phase = "half" /\ r.rcv = n /\ r.got = r0.got /\ r.lport = r0.lport
    BY <2>3 DEF RemRec
  <2> HIDE DEF r
  <2>5. rem'[s] = r /\ (NoFin(s)' <=> NoFin(s)) /\ wire'[s] = wire[s]
    BY <1>3, <2>1
  <2>6. RemOk(s)'
    BY <1>1, <1>2, <1>6, <2>2, <2>4, <2>5, SMTT(20) DEF RemOk
  <2>7. r.rcv >= r0.rcv /\ Len(r.got) >= Len(r0.got) /\ r.phase \notin Away /\ r0.phase \notin Away
    <3>1. r0.rcv <= 2 + Len(r0.got)
      BY <1>1 DEF RemOk
    <3> QED
      BY <1>2, <1>6, <2>2, <2>4, <3>1
  <2> QED
    BY <1>1, <2>1, <2>4, <2>6, <2>7, RemoteStep
<1>7. CASE /\ r0.phase \in {"syn", "listen", "up", "half"}
           /\ rem' = [rem EXCEPT ![s].phase = "dead"]
  <2> DEFINE r == [r0 EXCEPT !.phase = "dead"]
  <2>1. rem' = [rem EXCEPT ![s] = r]
    BY <1>7
  <2>2. r \in RemRec /\ r.phase = "dead" /\ r.rcv = r0.rcv /\ r.got = r0.got /\ r.lport = r0.lport
    BY <1>1 DEF RemRec
  <2> HIDE DEF r
  <2>3. rem'[s] = r /\ (NoFin(s)' <=> NoFin(s)) /\ wire'[s] = wire[s]
    BY <1>3, <2>1
  <2>4. RemOk(s)'
    BY <1>1, <1>2, <1>7, <2>2, <2>3 DEF RemOk
  <2>5. r.rcv >= r0.rcv /\ Len(r.got) >= Len(r0.got) /\ r.phase \notin Away /\ r0.phase \notin Away
    BY <1>2, <1>7, <2>2
  <2> QED
    BY <1>1, <2>1, <2>2, <2>4, <2>5, RemoteStep
<1> QED
  BY <1>4, <1>5, <1>6, <1>7 DEF RemoteTakes

-----------------------------------------------------------------------------
(* Opening.  With fewer connections than ports, uip_connect finds one.     *)
LEMMA NextPortIs ==
    ASSUME TcpInv
    PROVE  NextPort \in FirstPort .. PortLimit - 1 /\ ~InUse(NextPort)
<1> DEFINE k == PortLimit - FirstPort
           a == lastport - FirstPort
           S == {c \in Slot : conns[c].st # "CLOSED"}
           IsNext(n) == ~InUse(PortAfter(n)) /\ \A m \in 1 .. n - 1 : InUse(PortAfter(m))
           f == [c \in Slot |-> conns[c].lport]
           x == CHOOSE n \in 1 .. k : IsNext(n)
<1>1. /\ FirstPort \in Nat /\ PortLimit \in Nat /\ k \in Nat \ {0}
      /\ IsFiniteSet(S) /\ Cardinality(S) < k /\ a \in 0 .. k - 1
  <2>1. FirstPort \in Nat /\ PortLimit \in Nat /\ IsFiniteSet(Slot)
    BY TcpAssumption
  <2>2. /\ Cardinality(Slot) \in Nat /\ IsFiniteSet(S) /\ Cardinality(S) \in Nat
        /\ Cardinality(S) <= Cardinality(Slot)
    <3>1. S \subseteq Slot
      OBVIOUS
    <3> HIDE DEF S
    <3> QED
      BY <2>1, <3>1, FS_CardinalityType, FS_Subset
  <2>3. FirstPort + Cardinality(Slot) < PortLimit
    BY TcpAssumption
  <2>4. lastport \in FirstPort .. PortLimit - 1
    BY DEF TcpInv, TablesOk
  <2> HIDE DEF S
  <2> QED
    BY <2>1, <2>2, <2>3, <2>4
<1>2. \A n : PortAfter(n) = FirstPort + ((a + n) % k)
  BY DEF PortAfter
<1>3. \A p : InUse(p) <=> \E c \in S : f[c] = p
  BY DEF InUse
<1>4. NextPort = PortAfter(x)
  BY DEF NextPort, Steps
<1> HIDE DEF k, a, f, S
<1>5. \E n \in 1 .. k : IsNext(n)
  <2>1. PICK n \in 1 .. k : FoundAt(n, k, a, FirstPort, S, f)
    BY <1>1, SearchEnds
  <2> QED
    BY <1>2, <1>3, <2>1 DEF FoundAt
<1>6. x \in 1 .. k /\ IsNext(x)
  <2> HIDE DEF IsNext
  <2> QED
    BY <1>5
<1>7. ~InUse(PortAfter(x))
  BY <1>6
<1> HIDE DEF x
<1>8. (a + x) % k \in 0 .. k - 1
  BY <1>1, <1>6, RoundTheRing
<1>9. FirstPort + ((a + x) % k) \in FirstPort .. PortLimit - 1
  <2> DEFINE r == (a + x) % k
  <2>1. r \in 0 .. PortLimit - FirstPort - 1
    BY <1>8 DEF k
  <2> HIDE DEF r
  <2> QED
    BY <1>1, <2>1 DEF r
<1> QED
  BY <1>2, <1>4, <1>7, <1>9

(* A slot gets a new connection, with a session that no other slot has.    *)
LEMMA NewSlot ==
    ASSUME TcpInv, NEW c \in Slot, NEW s \in Session, NEW k,
           \A d \in Slot : Open(d) => conns[d].peer # s,
           conns' = [conns EXCEPT ![c] = k], app' = [app EXCEPT ![c] = FreshApp],
           k.st \in Opening, k.peer = s, ConnOk(k, FreshApp), k.lport = rem'[s].lport,
           rem' \in [Session -> RemRec], \A t \in Session : t # s => rem'[t] = rem[t],
           rem'[s].phase \notin Away, rem'[s].got = rem[s].got, wire' \in [Session -> SUBSET PacketRec],
           \A t \in Session : t # s => wire'[t] = wire[t], NoFin(s)',
           RemOk(s)', PortsApart', lastport' \in FirstPort .. PortLimit - 1, UNCHANGED load
    PROVE  TcpInv'
<1>1. k \in ConnRec /\ FreshApp \in AppRec
  BY DEF ConnOk
<1>2. /\ conns' \in [Slot -> ConnRec] /\ app' \in [Slot -> AppRec]
      /\ \A d \in Slot : conns'[d] = IF d = c THEN k ELSE conns[d]
      /\ \A d \in Slot : app'[d] = IF d = c THEN FreshApp ELSE app[d]
  <2> DEFINE fresh == FreshApp
  <2> HIDE DEF fresh
  <2>1. app' = [app EXCEPT ![c] = fresh] /\ fresh \in AppRec
    BY <1>1 DEF fresh
  <2>2. \A d \in Slot : app'[d] = IF d = c THEN fresh ELSE app[d]
    BY <2>1 DEF TcpInv, TablesOk
  <2> QED
    BY <1>1, <2>1, <2>2 DEF TcpInv, TablesOk, fresh
<1>3. TablesOk'
  BY <1>2 DEF TcpInv, TablesOk
<1>4. ASSUME NEW d \in Slot
      PROVE  ConnOk(conns[d], app[d])'
  <2>1. ConnOk(conns[d], app[d])
    BY DEF TcpInv
  <2>2. CASE d = c
    <3>1. conns'[d] = k /\ app'[d] = FreshApp
      BY <1>2, <2>2
    <3> QED
      BY <3>1 DEF ConnOk
  <2>3. CASE d # c
    <3>1. conns'[d] = conns[d] /\ app'[d] = app[d]
      BY <1>2, <2>3
    <3> QED
      BY <2>1, <3>1 DEF ConnOk
  <2> QED
    BY <2>2, <2>3
<1>5. ASSUME NEW d \in Slot
      PROVE  LinkOk(conns[d], app[d])'
  <2>1. LinkOk(conns[d], app[d]) /\ ConnOk(conns[d], app[d])
    BY DEF TcpInv
  <2>2. CASE d = c
    <3>1. conns'[d] = k /\ app'[d].view = "none"
      BY <1>2, <2>2 DEF FreshApp
    <3> QED
      BY <3>1 DEF LinkOk, NoFin
  <2>3. CASE d # c
    <3>1. conns'[d] = conns[d] /\ app'[d] = app[d]
      BY <1>2, <2>3
    <3>2. CASE Open(d)
      <4>1. conns[d].peer \in Session /\ conns[d].peer # s
        BY <3>2, SlotIs
      <4>2. rem'[conns[d].peer] = rem[conns[d].peer] /\ wire'[conns[d].peer] = wire[conns[d].peer]
        BY <4>1
      <4> QED
        BY <2>1, <3>1, <4>2 DEF LinkOk, NoFin
    <3>3. CASE ~Open(d) /\ app[d].view # "none"
      <4>1. conns[d].peer \in Session
        BY <2>1, <3>3 DEF ConnOk
      <4>2. app[d].acked <= Len(rem'[conns[d].peer].got)
        <5>1. app[d].acked <= Len(rem[conns[d].peer].got)
          BY <2>1, <3>3 DEF LinkOk
        <5> QED
          BY <4>1, <5>1
      <4> QED
        BY <2>1, <3>1, <3>3, <4>2 DEF LinkOk, Open, Opening
    <3>4. CASE ~Open(d) /\ app[d].view = "none"
      BY <3>1, <3>4 DEF LinkOk, Open, Opening
    <3> QED
      BY <3>2, <3>3, <3>4
  <2> QED
    BY <2>2, <2>3
<1>6. OneSlotEach'
  <2>1. \A d \in Slot : Open(d)' /\ d # c => Open(d) /\ conns'[d].peer = conns[d].peer
    BY <1>2 DEF Open
  <2>2. conns'[c].peer = s
    BY <1>2
  <2> QED
    BY <2>1, <2>2 DEF TcpInv, OneSlotEach
<1>7. ASSUME NEW t \in Session
      PROVE  RemOk(t)'
  <2>1. CASE t # s
    <3>1. rem'[t] = rem[t] /\ wire'[t] = wire[t] /\ RemOk(t)
      BY <2>1 DEF TcpInv
    <3> QED
      BY <3>1 DEF RemOk, NoFin
  <2> QED
    BY <2>1
<1> QED
  BY <1>3, <1>4, <1>5, <1>6, <1>7 DEF TcpInv

(* uIP answers a segment of no connection with a reset.                    *)
LEMMA RefusalIsOk ==
    ASSUME TcpInv, NEW s \in Session, NEW n \in Nat, Emit(s, Packet("RST", n, 0)),
           UNCHANGED <<conns, lastport, app, rem, load>>
    PROVE  TcpInv'
<1> DEFINE p == Packet("RST", n, 0)
<1>1. p \in PacketRec /\ p.kind = "RST"
  BY DEF PacketRec, Packet
<1>2. wire' = [wire EXCEPT ![s] = wire[s] \cup {p}]
  BY DEF Emit
<1> HIDE DEF p
<1>3. /\ wire' \in [Session -> SUBSET PacketRec]
      /\ \A t \in Session : wire'[t] = IF t = s THEN wire[t] \cup {p} ELSE wire[t]
  BY <1>1, <1>2 DEF TcpInv, TablesOk
<1>4. TablesOk'
  BY <1>3 DEF TcpInv, TablesOk
<1>5. \A t \in Session : NoFin(t)' <=> NoFin(t)
  BY <1>1, <1>3 DEF NoFin
<1>6. ASSUME NEW c \in Slot
      PROVE  ConnOk(conns[c], app[c])' /\ LinkOk(conns[c], app[c])'
  <2>1. ConnOk(conns[c], app[c]) /\ LinkOk(conns[c], app[c])
    BY DEF TcpInv
  <2>2. ConnOk(conns[c], app[c])'
    BY <2>1 DEF ConnOk
  <2>3. conns[c].st \in Opening \cup {"ESTABLISHED"} => NoFin(conns[c].peer)'
    <3>1. CASE Open(c)
      BY <1>5, <2>1, <3>1, SlotIs DEF LinkOk
    <3>2. CASE ~Open(c)
      BY <3>2 DEF Open, Opening
    <3> QED
      BY <3>1, <3>2
  <2>4. LinkOk(conns[c], app[c])'
    BY <2>1, <2>3 DEF LinkOk, NoFin
  <2> QED
    BY <2>2, <2>4
<1>7. ASSUME NEW t \in Session
      PROVE  RemOk(t)'
  <2>1. RemOk(t) /\ rem' = rem /\ load' = load
    BY DEF TcpInv
  <2>2. \A x \in wire'[t] : x.kind = "DATA" => x \in wire[t]
    BY <1>1, <1>3
  <2> QED
    BY <1>5, <2>1, <2>2 DEF RemOk
<1>8. OneSlotEach' /\ PortsApart'
  BY DEF TcpInv, OneSlotEach, Open, PortsApart
<1> QED
  BY <1>4, <1>6, <1>7, <1>8 DEF TcpInv

(* The record of a new connection.                                         *)
NewConn(st, lport, s, rcv) ==
    [FreshConn EXCEPT !.st = st, !.lport = lport, !.peer = s, !.rcv = rcv, !.len = 1]

(* A slot that was just filled satisfies the invariant of slots.           *)
LEMMA NewConnIsOk ==
    ASSUME TcpInv, NEW st \in Opening, NEW lport \in Nat, NEW s \in Session, NEW rcv \in Nat,
           st = "SYN_RCVD" => rcv = 1
    PROVE  LET k == NewConn(st, lport, s, rcv) IN
           ConnOk(k, FreshApp) /\ k.st = st /\ k.lport = lport /\ k.peer = s
<1>1. MAXRTX \in Nat /\ TIMEOUT \in Nat \ {0, 1} /\ load.bytes \in Nat
  BY TcpAssumption DEF TcpInv, TablesOk
<1>2. FreshConn \in ConnRec /\ FreshConn.snd = 0 /\ FreshConn.timer = 0
  BY <1>1 DEF FreshConn, ConnRec, ConnState
<1>3. st \in ConnState
  BY DEF Opening, ConnState
<1> DEFINE e == FreshConn
           f == [e EXCEPT !.st = st]
           g == [f EXCEPT !.lport = lport]
           h == [g EXCEPT !.peer = s]
           i == [h EXCEPT !.rcv = rcv]
           k == [i EXCEPT !.len = 1]
<1> HIDE DEF e
<1>4. f \in ConnRec /\ f.st = st /\ f.snd = 0 /\ f.timer = 0
  BY <1>2, <1>3 DEF ConnRec, e
<1> HIDE DEF f
<1>5. g \in ConnRec /\ g.st = st /\ g.snd = 0 /\ g.timer = 0 /\ g.lport = lport
  BY <1>4 DEF ConnRec
<1> HIDE DEF g
<1>6. h \in ConnRec /\ h.st = st /\ h.snd = 0 /\ h.timer = 0 /\ h.lport = lport /\ h.peer = s
  BY <1>5 DEF ConnRec
<1> HIDE DEF h
<1>7. /\ i \in ConnRec /\ i.st = st /\ i.snd = 0 /\ i.timer = 0 /\ i.lport = lport /\ i.peer = s
      /\ i.rcv = rcv
  BY <1>6 DEF ConnRec
<1> HIDE DEF i
<1>8. /\ k \in ConnRec /\ k.st = st /\ k.snd = 0 /\ k.timer = 0 /\ k.lport = lport /\ k.peer = s
      /\ k.rcv = rcv /\ k.len = 1
  BY <1>7 DEF ConnRec
<1> HIDE DEF k
<1>9. /\ FreshApp \in AppRec /\ FreshApp.view = "none" /\ FreshApp.acked = 0 /\ FreshApp.got = <<>>
      /\ Counts(<<>>)
  BY DEF AppRec, FreshApp, Counts
<1>10. ConnOk(k, FreshApp)
  BY <1>1, <1>8, <1>9 DEF ConnOk, Opening
<1>11. NewConn(st, lport, s, rcv) = k
  BY DEF NewConn, k, i, h, g, f, e
<1> QED
  BY <1>8, <1>10, <1>11

(* A SYN to a listening port takes a slot, an unused one or the oldest in  *)
(* TIME_WAIT.                                                              *)
LEMMA ListenIsOk ==
    ASSUME TcpInv, NEW s \in Session, NEW g, SegmentOk(s, g), InputListen(s, g)
    PROVE  TcpInv'
<1>1. (\A c \in Slot : ~Matches(c, s)) /\ UNCHANGED <<lastport, rem, load>>
  BY DEF InputListen
<1>2. CASE /\ Emit(s, Packet("RST", g.ack, 0)) /\ UNCHANGED <<conns, app>>
  BY <1>1, <1>2, RefusalIsOk DEF SegmentOk
<1>3. ASSUME g.flags = {"SYN"}, NEW c \in Slot,
             conns' = [conns EXCEPT ![c] = [FreshConn EXCEPT !.st = "SYN_RCVD",
                            !.lport = rem[s].lport, !.peer = s, !.rcv = g.seq + 1, !.len = 1]],
             app' = [app EXCEPT ![c] = FreshApp],
             Emit(s, Packet("SYN", 0, 0))
      PROVE  TcpInv'
  <2> DEFINE k == NewConn("SYN_RCVD", rem[s].lport, s, 1)
             p == Packet("SYN", 0, 0)
  <2>1. s \in Client /\ rem[s].phase = "syn" /\ g.seq = 0
    BY <1>1, <1>3 DEF SegmentOk
  <2>2. conns' = [conns EXCEPT ![c] = k]
    <3>1. g.seq + 1 = 1
      BY <2>1
    <3> QED
      BY <1>3, <3>1 DEF NewConn
  <2>3. /\ rem \in [Session -> RemRec] /\ rem[s].lport \in Nat /\ RemOk(s)
        /\ lastport \in FirstPort .. PortLimit - 1
    BY DEF TcpInv, TablesOk, RemRec
  <2>4. "SYN_RCVD" \in Opening
    BY DEF Opening
  <2>6. ConnOk(k, FreshApp) /\ k.st = "SYN_RCVD" /\ k.lport = rem[s].lport /\ k.peer = s
    BY <2>3, <2>4, NewConnIsOk
  <2>7. rem[s].rcv = 0 /\ NoFin(s)
    BY <2>1, <2>3 DEF RemOk
  <2>8. p \in PacketRec /\ p.kind = "SYN" /\ wire' = [wire EXCEPT ![s] = wire[s] \cup {p}]
    BY <1>3 DEF PacketRec, Packet, Emit
  <2> HIDE DEF p
  <2>9. /\ wire' \in [Session -> SUBSET PacketRec] /\ wire'[s] = wire[s] \cup {p}
        /\ \A t \in Session : t # s => wire'[t] = wire[t]
    BY <2>8 DEF TcpInv, TablesOk
  <2>10. NoFin(s)'
    BY <2>7, <2>8, <2>9 DEF NoFin
  <2>11. RemOk(s)'
    <3>1. \A x \in wire'[s] : x.kind = "DATA" => x \in wire[s]
      BY <2>8, <2>9
    <3>2. NoFin(s)' <=> NoFin(s)
      BY <2>7, <2>10
    <3>3. rem' = rem /\ load' = load
      BY <1>1
    <3> QED
      BY <2>3, <3>1, <3>2, <3>3 DEF RemOk
  <2>12. PortsApart'
    BY <1>1 DEF TcpInv, PortsApart
  <2>13. \A d \in Slot : Open(d) => conns[d].peer # s
    BY <1>1, PeerMatches
  <2>14. k.st \in Opening /\ k.peer = s /\ k.lport = rem'[s].lport
    BY <1>1, <2>4, <2>6
  <2>15. /\ rem' \in [Session -> RemRec] /\ \A t \in Session : t # s => rem'[t] = rem[t]
         /\ rem'[s].phase \notin Away /\ rem'[s].got = rem[s].got
         /\ lastport' \in FirstPort .. PortLimit - 1 /\ UNCHANGED load
    BY <1>1, <2>1, <2>3
  <2> HIDE DEF k
  <2> QED
    BY <1>3, <2>2, <2>6, <2>9, <2>10, <2>11, <2>12, <2>13, <2>14, <2>15, NewSlot
<1> QED
  BY <1>2, <1>3 DEF InputListen

(* uip_connect takes a slot and a port, and sends a SYN with the next      *)
(* timer.                                                                  *)
LEMMA ConnectIsOk ==
    ASSUME TcpInv, NEW s \in Session, UipConnect(s)
    PROVE  TcpInv'
<1> DEFINE P == NextPort
<1>1. P \in FirstPort .. PortLimit - 1 /\ ~InUse(P)
  BY NextPortIs
<1>2. /\ s \notin Client /\ rem[s].phase = "idle" /\ lastport' = P /\ UNCHANGED <<wire, load>>
      /\ \A t \in Session \ Client : Addr[t] = Addr[s] /\ ~Attached(t) => rem[t].lport # P
  BY DEF UipConnect
<1> HIDE DEF P
<1>3. CASE UNCHANGED <<conns, app, rem>>
  <2>1. TablesOk'
    BY <1>1, <1>2, <1>3 DEF TcpInv, TablesOk
  <2>2. \A c \in Slot : ConnOk(conns[c], app[c])' /\ LinkOk(conns[c], app[c])'
    BY <1>2, <1>3 DEF TcpInv, ConnOk, LinkOk, NoFin
  <2>3. \A t \in Session : RemOk(t)'
    BY <1>2, <1>3 DEF TcpInv, RemOk, NoFin
  <2>4. OneSlotEach' /\ PortsApart'
    BY <1>3 DEF TcpInv, OneSlotEach, PortsApart, Open
  <2> QED
    BY <2>1, <2>2, <2>3, <2>4 DEF TcpInv
<1>4. ASSUME NEW c \in Slot,
             conns' = [conns EXCEPT ![c] = [FreshConn EXCEPT !.st = "SYN_SENT",
                            !.lport = P, !.peer = s, !.rcv = conns[c].rcv, !.len = 1]],
             app' = [app EXCEPT ![c] = FreshApp],
             rem' = [rem EXCEPT ![s].phase = "listen", ![s].lport = P]
      PROVE  TcpInv'
  <2> DEFINE rc == conns[c].rcv
             k == NewConn("SYN_SENT", P, s, rc)
             r1 == [rem[s] EXCEPT !.phase = "listen"]
             r == [r1 EXCEPT !.lport = P]
  <2>1. conns' = [conns EXCEPT ![c] = k]
    BY <1>4 DEF NewConn
  <2>2. /\ rem \in [Session -> RemRec] /\ rem[s] \in RemRec /\ RemOk(s) /\ load.bytes \in Nat
        /\ rc \in Nat /\ FirstPort \in Nat /\ PortLimit \in Nat
    BY TcpAssumption DEF TcpInv, TablesOk, ConnRec
  <2> HIDE DEF rc
  <2>3. P \in Nat /\ P >= FirstPort
    BY <1>1, <2>2
  <2>4. "SYN_SENT" \in Opening
    BY DEF Opening
  <2>6. ConnOk(k, FreshApp) /\ k.st = "SYN_SENT" /\ k.lport = P /\ k.peer = s
    BY <2>2, <2>3, <2>4, NewConnIsOk
  <2>7. rem[s].rcv = 0 /\ NoFin(s) /\ rem[s].got = <<>>
    <3>1. rem[s].rcv = 0
      BY <1>2, <2>2 DEF RemOk
    <3> QED
      BY <2>2, <3>1 DEF RemOk
  <2>8. rem' = [rem EXCEPT ![s] = r]
    BY <1>4, <2>2
  <2>9. r1 \in RemRec /\ r1.phase = "listen" /\ r1.got = rem[s].got /\ r1.rcv = rem[s].rcv
    BY <2>2 DEF RemRec
  <2> HIDE DEF r1
  <2>10. r \in RemRec /\ r.phase = "listen" /\ r.got = rem[s].got /\ r.rcv = rem[s].rcv /\ r.lport = P
    BY <2>3, <2>9 DEF RemRec
  <2> HIDE DEF r
  <2>11. /\ rem' \in [Session -> RemRec] /\ \A t \in Session : t # s => rem'[t] = rem[t]
         /\ rem'[s] = r
    BY <2>2, <2>8, <2>10
  <2>12. NoFin(s)'
    BY <1>2, <2>7 DEF NoFin
  <2>13. RemOk(s)'
    <3>1. wire' = wire /\ load' = load
      BY <1>2
    <3>2. NoFin(s)' <=> NoFin(s)
      BY <2>7, <2>12
    <3>3. \A x \in wire[s] : x.kind = "DATA" => x.item = x.seq /\ x.item \in 1 .. load.bytes
      BY <2>2 DEF RemOk
    <3>4. Counts(<<>>) /\ Len(<<>>) = 0
      BY DEF Counts
    <3> QED
      BY <1>2, <2>2, <2>3, <2>7, <2>10, <2>11, <2>12, <3>1, <3>3, <3>4 DEF RemOk
  <2>14. PortsApart'
    <3>1. ASSUME NEW t \in Session \ Client, t # s, Addr[t] = Addr[s], rem[t].phase \notin Away
          PROVE  rem[t].lport # P
      <4>1. CASE Attached(t)
        <5>1. PICK d \in Slot : Open(d) /\ conns[d].peer = t
          BY <4>1 DEF Attached, Open
        <5>2. conns[d].lport = rem[t].lport
          <6>1. LinkOk(conns[d], app[d])
            BY DEF TcpInv
          <6> QED
            BY <5>1, <6>1 DEF LinkOk, Open
        <5>3. conns[d].lport # P
          BY <1>1, <5>1 DEF InUse, Open
        <5> QED
          BY <5>2, <5>3
      <4>2. CASE ~Attached(t)
        BY <1>2, <3>1, <4>2
      <4> QED
        BY <4>1, <4>2
    <3> QED
      BY <2>10, <2>11, <3>1 DEF TcpInv, PortsApart
  <2>15. \A d \in Slot : Open(d) => conns[d].peer # s
    BY <1>2, SlotIs DEF LinkOk, Open
  <2>16. /\ k.st \in Opening /\ k.peer = s /\ k.lport = rem'[s].lport /\ rem'[s].phase \notin Away
         /\ rem'[s].got = rem[s].got
    BY <2>4, <2>6, <2>10, <2>11
  <2>17. /\ wire' \in [Session -> SUBSET PacketRec] /\ \A t \in Session : t # s => wire'[t] = wire[t]
         /\ lastport' \in FirstPort .. PortLimit - 1 /\ UNCHANGED load
    BY <1>1, <1>2 DEF TcpInv, TablesOk
  <2> HIDE DEF k
  <2> QED
    BY <1>4, <2>1, <2>6, <2>11, <2>12, <2>13, <2>14, <2>15, <2>16, <2>17, NewSlot
<1> QED
  BY <1>3, <1>4 DEF UipConnect, P
-----------------------------------------------------------------------------
(* Every step of TCP, timer, application and remote hosts keeps the        *)
(* invariant.                                                              *)
LEMMA TcpKeepsInv == TcpInv /\ [TcpNext]_tcpVars => TcpInv'
<1> SUFFICES ASSUME TcpInv, [TcpNext]_tcpVars
             PROVE  TcpInv'
  OBVIOUS
<1>1. ASSUME NEW s \in Session, UipConnect(s) \/ RemoteOpen(s) \/ RemoteSends(s) \/ NetworkForgets(s)
      PROVE  TcpInv'
  BY <1>1, ConnectIsOk, RemoteOpenIsOk, RemoteSendsIsOk, ForgettingIsOk
<1>2. ASSUME NEW s \in Session, NEW p \in wire[s], RemoteTakes(s, p)
      PROVE  TcpInv'
  BY <1>2, RemoteTakesIsOk
<1>3. ASSUME NEW s \in Session, NEW g \in SegmentsOf(s), UipInput(s, g)
      PROVE  TcpInv'
  <2>1. SegmentOk(s, g)
    BY SegmentsAreOk
  <2>2. CASE InputListen(s, g)
    BY <2>1, <2>2, ListenIsOk
  <2>3. ASSUME NEW c \in Slot, Matches(c, s), UNCHANGED <<lastport, rem, load>>,
               \/ InputReset(c, g) \/ InputOutOfSequence(c, g)
               \/ InputSynRcvd(c, g) \/ InputSynSent(c, g) \/ InputEstablished(c, g)
               \/ InputLastAck(c, g) \/ InputFinWait1(c, g) \/ InputFinWait2(c, g)
               \/ InputClosing(c, g) \/ InputTimeWait(c, g)
        PROVE  TcpInv'
    <3>1. Arrival(c, s, g)
      BY <2>1, <2>3 DEF Arrival
    <3> QED
      BY <2>3, <3>1, InputIsOk
  <2> QED
    BY <1>3, <2>2, <2>3 DEF UipInput
<1>4. ASSUME NEW c \in Slot, UipPeriodic(c)
      PROVE  TcpInv'
  BY <1>4, TimerClosesIsOk, TimerTimedOutIsOk, TimerRexmitIsOk, TimerPollIsOk DEF UipPeriodic
<1>5. CASE UNCHANGED tcpVars
  BY <1>5, StutterIsOk
<1> QED
  BY <1>1, <1>2, <1>3, <1>4, <1>5 DEF TcpNext

(* The invariant holds after uip_init.                                     *)
LEMMA TcpStarts == TcpInit => TcpInv
<1> SUFFICES ASSUME TcpInit
             PROVE  TcpInv
  OBVIOUS
<1>1. /\ {FirstPort, PortLimit, ListenPort} \subseteq Nat /\ FirstPort < PortLimit
      /\ MAXRTX \in Nat /\ TIMEOUT \in Nat \ {0, 1} /\ load \in Load /\ load.bytes \in Nat
  <2>1. /\ {FirstPort, PortLimit, ListenPort} \subseteq Nat /\ FirstPort + Cardinality(Slot) < PortLimit
        /\ MAXRTX \in Nat /\ TIMEOUT \in Nat \ {0, 1} /\ IsFiniteSet(Slot)
    BY TcpAssumption
  <2>2. Cardinality(Slot) \in Nat
    BY <2>1, FS_CardinalityType
  <2> QED
    BY <2>1, <2>2, TcpAssumption DEF TcpInit
<1>2. FreshConn \in ConnRec /\ FreshApp \in AppRec
  BY <1>1 DEF ConnRec, ConnState, AppRec, FreshConn, FreshApp
<1>3. /\ conns \in [Slot -> ConnRec] /\ app \in [Slot -> AppRec]
      /\ \A c \in Slot : conns[c] = FreshConn /\ app[c] = FreshApp
  <2> DEFINE f == FreshConn
             a == FreshApp
  <2>1. f \in ConnRec /\ a \in AppRec /\ conns = [c \in Slot |-> f] /\ app = [c \in Slot |-> a]
    BY <1>2 DEF TcpInit
  <2> HIDE DEF f, a
  <2>2. conns \in [Slot -> ConnRec] /\ app \in [Slot -> AppRec] /\ \A c \in Slot : conns[c] = f /\ app[c] = a
    BY <2>1
  <2> QED
    BY <2>2 DEF f, a
<1>4. /\ rem \in [Session -> RemRec]
      /\ \A s \in Session : /\ rem[s].phase = "idle" /\ rem[s].rcv = 0 /\ rem[s].got = <<>>
                           /\ rem[s].lport = IF s \in Client THEN ListenPort ELSE 0
  BY <1>1 DEF TcpInit, RemRec
<1>5. wire = [s \in Session |-> {}] /\ lastport = FirstPort
  BY DEF TcpInit
<1>6. TablesOk
  BY <1>1, <1>3, <1>4, <1>5 DEF TablesOk
<1>7. Counts(<<>>) /\ Len(<<>>) = 0
  BY DEF Counts
<1>8. ASSUME NEW c \in Slot
      PROVE  ConnOk(conns[c], app[c]) /\ LinkOk(conns[c], app[c]) /\ ~Open(c)
  <2>1. /\ conns[c].st = "CLOSED" /\ app[c].view = "none" /\ app[c].got = <<>> /\ app[c].acked = 0
    BY <1>3 DEF FreshConn, FreshApp
  <2>2. conns[c] \in ConnRec /\ app[c] \in AppRec
    BY <1>3
  <2> QED
    BY <1>1, <1>7, <2>1, <2>2 DEF ConnOk, LinkOk, Opening, Open
<1>9. OneSlotEach /\ PortsApart
  BY <1>4, <1>8 DEF OneSlotEach, PortsApart
<1>10. ASSUME NEW s \in Session
       PROVE  RemOk(s)
  BY <1>1, <1>4, <1>5, <1>7 DEF RemOk, NoFin
<1> QED
  BY <1>6, <1>8, <1>9, <1>10 DEF TcpInv

(* For every table, set of sessions, port range and amount of data, under  *)
(* loss, repetition, delay and reordering: no two connections share ports  *)
(* and address, so that uip_process gives each segment to its connection;  *)
(* a connection is ESTABLISHED exactly while the application was told so;  *)
(* and both directions are streams: each side gets the bytes of the other  *)
(* in order and once, and what is reported as acknowledged has arrived.    *)
THEOREM TcpWorks == TcpSpec => [](TcpSafe /\ ApplicationKnows /\ BytesInOrder)
<1>1. TcpInit => TcpInv
  BY TcpStarts
<1>2. TcpInv /\ [TcpNext]_tcpVars => TcpInv'
  BY TcpKeepsInv
<1>3. TcpInv => TcpSafe /\ ApplicationKnows /\ BytesInOrder
  BY TcpInvImplies
<1> QED
  BY <1>1, <1>2, <1>3, PTL DEF TcpSpec
=============================================================================
