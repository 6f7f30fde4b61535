------------------------------- MODULE UipIp --------------------------------
(***************************************************************************)
(* The IP input of uip_process (uip.c) up to the protocols: header checks, *)
(* ICMP echo with address configuration by ping, UDP connections, their    *)
(* input, polling and sending.  Packets are records of what the checks     *)
(* tell apart.  TCP is the subject of UipTcp, checksums of UipArith.       *)
(***************************************************************************)
EXTENDS Integers, FiniteSets

CONSTANTS
    Host, Peer,     \* addresses that are neither zero nor all ones
    UdpSlot,        \* uip_udp_conns, 1 .. UIP_UDP_CONNS
    FirstUdp, UdpLimit  \* uip_udp_new hands out FirstUdp .. UdpLimit - 1

Zeroes == 0         \* all_zeroes_addr
Ones == 1           \* all_ones_addr
ServerPort == 67    \* a port of the remote, 68 one that the application binds to
ASSUME IpAssumption ==
    /\ {Host, Peer} \subseteq Nat \ {Zeroes, Ones} /\ Host # Peer
    /\ {FirstUdp, UdpLimit} \subseteq Nat /\ 68 < FirstUdp
    /\ IsFiniteSet(UdpSlot) /\ UdpSlot = 1 .. Cardinality(UdpSlot) /\ FirstUdp + Cardinality(UdpSlot) < UdpLimit

VARIABLES
    hostaddr,   \* uip_hostaddr
    udp,        \* uip_udp_conns
    udpport,    \* lastport
    out         \* what the last call left in uip_buf to be sent

ipVars == <<hostaddr, udp, udpport, out>>

FreeUdp == [lport |-> 0, rport |-> 0, ripaddr |-> Zeroes]
Nothing == [proto |-> "none", to |-> Zeroes, by |-> 0]

IpInit == /\ hostaddr \in {Zeroes, Host}
          /\ udp = [u \in UdpSlot |-> FreeUdp]
          /\ udpport = FirstUdp /\ out = Nothing

Used(p) == \E u \in UdpSlot : udp[u].lport = p
UdpPortAfter(n) == FirstUdp + ((udpport - FirstUdp + n) % (UdpLimit - FirstUdp))
NextUdpPort ==
    LET n == CHOOSE n \in 1 .. UdpLimit - FirstUdp :
                /\ ~Used(UdpPortAfter(n)) /\ \A m \in 1 .. n - 1 : Used(UdpPortAfter(m))
    IN  UdpPortAfter(n)

\* uip_udp_new: the next port that is not used and the first free connection;
\* without one only the port is used up.
UipUdpNew(ripaddr, rport) ==
    LET free == {u \in UdpSlot : udp[u].lport = 0} IN
    /\ udpport' = NextUdpPort
    /\ \/ free = {} /\ UNCHANGED udp
       \/ \E u \in free :
            /\ \A v \in free : u <= v
            /\ udp' = [udp EXCEPT ![u] = [lport |-> NextUdpPort, rport |-> rport, ripaddr |-> ripaddr]]
    /\ out' = Nothing /\ UNCHANGED hostaddr

\* uip_udp_remove, uip_udp_bind (macros of uip.h); the application binds one
\* connection at most to port 68.
UipUdpRemove(u) == /\ udp[u].lport # 0
                   /\ udp' = [udp EXCEPT ![u].lport = 0]
                   /\ out' = Nothing /\ UNCHANGED <<hostaddr, udpport>>
UipUdpBind(u) == /\ udp[u].lport # 0 /\ ~Used(68)
                 /\ udp' = [udp EXCEPT ![u].lport = 68]
                 /\ out' = Nothing /\ UNCHANGED <<hostaddr, udpport>>

\* udp_send: a datagram of the application on connection u, if it has one.
UdpSend(u) == \/ out' = Nothing
              \/ out' = [proto |-> "UDP", to |-> udp[u].ripaddr, by |-> udp[u].lport]

\* uip_udp_periodic
UdpTimer(u) == /\ udp[u].lport # 0 /\ UdpSend(u)
               /\ UNCHANGED <<hostaddr, udp, udpport>>

UdpMatches(u, p) ==
    /\ udp[u].lport # 0 /\ udp[u].lport = p.destport
    /\ udp[u].rport \in {0, p.srcport}
    /\ udp[u].ripaddr \in {Zeroes, Ones, p.src}

\* udp_input: the first connection that matches gets the datagram.
UdpInput(p) ==
    \/ /\ ~\E u \in UdpSlot : UdpMatches(u, p)
       /\ out' = Nothing
    \/ \E u \in UdpSlot :
        /\ UdpMatches(u, p) /\ \A v \in UdpSlot : UdpMatches(v, p) => u <= v
        /\ UdpSend(u)

\* Faulty variant: the address is taken after the two were exchanged.
IcmpInputExchanged(p) ==
    /\ IF p.type = "ECHO"
       THEN /\ hostaddr' = IF hostaddr = Zeroes THEN p.src ELSE hostaddr
            /\ out' = [proto |-> "ICMP", to |-> p.src, by |-> p.dest]
       ELSE out' = Nothing /\ UNCHANGED hostaddr

\* icmp_input: an echo request is turned into the reply; with address
\* configuration by ping its destination becomes the address of this host.
IcmpInput(p) ==
    /\ IF p.type = "ECHO"
       THEN /\ hostaddr' = IF hostaddr = Zeroes THEN p.dest ELSE hostaddr
            /\ out' = [proto |-> "ICMP", to |-> p.src, by |-> hostaddr']
       ELSE out' = Nothing /\ UNCHANGED hostaddr

HeaderOk(p) == p.vhl /\ p.len /\ ~p.fragment
Drop == out' = Nothing /\ UNCHANGED hostaddr

\* uip_process(UIP_DATA) as far as the protocols other than TCP.
IpInput(p) ==
    /\ \/ ~HeaderOk(p) /\ Drop
       \/ /\ HeaderOk(p) /\ hostaddr = Zeroes
          /\ \/ p.proto = "ICMP" /\ IcmpInput(p)
             \/ p.proto # "ICMP" /\ Drop
       \/ /\ HeaderOk(p) /\ hostaddr # Zeroes
          /\ \/ p.proto = "UDP" /\ p.dest = Ones /\ UdpInput(p) /\ UNCHANGED hostaddr
             \/ /\ ~(p.proto = "UDP" /\ p.dest = Ones)
                /\ \/ (p.dest # hostaddr \/ ~p.chksum) /\ Drop
                   \/ /\ p.dest = hostaddr /\ p.chksum
                      /\ \/ p.proto = "UDP" /\ UdpInput(p) /\ UNCHANGED hostaddr
                         \/ p.proto = "ICMP" /\ IcmpInput(p)
                         \/ p.proto \notin {"UDP", "ICMP"} /\ Drop
    /\ UNCHANGED <<udp, udpport>>

Good == [vhl |-> TRUE, len |-> TRUE, fragment |-> FALSE, chksum |-> TRUE, proto |-> "ICMP",
         type |-> "ECHO", src |-> Peer, dest |-> Host, srcport |-> ServerPort, destport |-> 68]
UdpDatagram(c, d, p) == [Good EXCEPT !.proto = "UDP", !.chksum = c, !.dest = d, !.destport = p]
OtherDatagram(r, y, c, d) == [Good EXCEPT !.proto = r, !.type = y, !.chksum = c, !.dest = d]
BadHeaders == {[Good EXCEPT !.vhl = FALSE], [Good EXCEPT !.len = FALSE], [Good EXCEPT !.fragment = TRUE]}
Packets ==
    {UdpDatagram(c, d, p) :
        c \in BOOLEAN, d \in {Host, Peer, Ones, Zeroes}, p \in {68} \cup FirstUdp .. UdpLimit - 1}
    \cup {OtherDatagram(r, y, c, d) :
        r \in {"ICMP", "IGMP"}, y \in {"ECHO", "REPLY"}, c \in BOOLEAN, d \in {Host, Peer, Ones, Zeroes}}
    \cup BadHeaders

IpNext == \/ \E a \in {Zeroes, Ones, Peer}, r \in {0, ServerPort} : UipUdpNew(a, r)
          \/ \E u \in UdpSlot : UipUdpRemove(u) \/ UipUdpBind(u) \/ UdpTimer(u)
          \/ \E p \in Packets : IpInput(p)

IpSpec == IpInit /\ [][IpNext]_ipVars
-----------------------------------------------------------------------------
\* A datagram can reach one UDP connection only: no two in use share a local port,
\* however often connections were removed and ports handed out, wrapped around or
\* bound by the application (the search in uip_udp_new).
OneUdpPerPort == \A u, v \in UdpSlot :
    udp[u].lport # 0 /\ udp[u].lport = udp[v].lport => u = v

\* Only a ping that is answered gives a host its address, only while it has none, and every
\* answer to a ping, that one included, comes from the address that the host then has.  (What
\* UDP applications send goes out without an address too, as DHCP wants it; and a ping to
\* 0.0.0.0 is answered from there and leaves the host as it was.)
AddressFromPing ==
    [][/\ hostaddr' # hostaddr => hostaddr = Zeroes /\ out'.proto = "ICMP"
       /\ out'.proto = "ICMP" => out'.by = hostaddr']_ipVars

\* Both, over any order of packets and calls of the UDP applications.
IpSafe == []OneUdpPerPort /\ AddressFromPing
=============================================================================
