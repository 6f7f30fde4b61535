------------------------------- MODULE UipArp -------------------------------
(***************************************************************************)
(* The ARP table of uip_arp.c and the frames that uip_arp_arpin and        *)
(* uip_arp_out leave in the buffer, against a LAN whose hosts may change   *)
(* their link address and announce the new one.  The clock arptime and the *)
(* time of an entry are bytes (% TimeMod); arptime - time is computed in   *)
(* int and may be negative.                                                *)
(***************************************************************************)
EXTENDS Integers, FiniteSets

CONSTANTS
    Me,         \* uip_hostaddr
    Router,     \* uip_draddr
    Neighbours, \* addresses of the local network, both of their 16-bit halves non-zero
    HalfZero,   \* addresses of the local network with a zero half
    Remote,     \* addresses outside it
    Broadcast,  \* broadcast_ipaddr
    Links,      \* link addresses
    TableSize,  \* UIP_ARPTAB_SIZE
    TimeMod,    \* 2^8
    ARP_MAXAGE  \* UIP_ARP_MAXAGE

Unset == "0.0.0.0"
NoFrame == [type |-> "none", dest |-> Unset, to |-> Unset]

ASSUME ArpAssumption ==
    /\ Router \in Neighbours /\ Unset \notin Neighbours /\ TableSize \in Nat \ {0}
    /\ TimeMod \in Nat /\ ARP_MAXAGE \in 1 .. TimeMod - 1

VARIABLES
    arptable, arptime,
    frame,      \* what is in uip_buf to be sent, NoFrame for uip_len = 0
    link,       \* ghost: the link address last announced to us by an address, Unset for none
    silent      \* ghost: ARP_MAXAGE or the periods since then, whichever is less

arpVars == <<arptable, arptime, frame, link, silent>>

Locals == Neighbours \cup HalfZero
Slots == 1 .. TableSize
Taken(e) == e.ip # Unset
First(S) == CHOOSE i \in S : \A j \in S : i <= j

\* uip_arp_init, on memory that is zero
ArpInit ==
    /\ arptable = [i \in Slots |-> [ip |-> Unset, eth |-> Unset, time |-> 0]]
    /\ arptime = 0 /\ frame = NoFrame
    /\ link = [a \in Neighbours |-> Unset] /\ silent = [a \in Neighbours |-> 0]

\* uip_arp_timer
ArpTimer ==
    /\ arptime' = (arptime + 1) % TimeMod
    /\ arptable' = [i \in Slots |->
            IF Taken(arptable[i]) /\ arptime' - arptable[i].time >= ARP_MAXAGE
            THEN [arptable[i] EXCEPT !.ip = Unset] ELSE arptable[i]]
    /\ silent' = [a \in Neighbours |-> IF silent[a] < ARP_MAXAGE THEN silent[a] + 1 ELSE silent[a]]
    /\ frame' = NoFrame /\ UNCHANGED link

\* The entry of table t with the greatest positive age, the first of several, else the first.
Oldest(t, now) ==
    First({i \in Slots : \A j \in Slots : now - t[j].time <= 0 \/ t[j].time >= t[i].time})

\* The entry that uip_arp_update fills: one of the same address, an unused one, the oldest.
\* An address with a zero half is never found.
EntryFor(t, now, ip) ==
    LET same == {i \in Slots : t[i].ip \in Neighbours /\ t[i].ip = ip}
        free == {i \in Slots : ~Taken(t[i])}
    IN  IF same # {} THEN First(same) ELSE IF free # {} THEN First(free) ELSE Oldest(t, now)

\* Faulty variant: an entry of the same address keeps its time.
ArpUpdateKeepsTime(ip, eth) ==
    LET i == EntryFor(arptable, arptime, ip) IN
    /\ arptable' = [arptable EXCEPT ![i] = [ip |-> ip, eth |-> eth, time |->
                        IF arptable[i].ip = ip THEN arptable[i].time ELSE arptime]]
    /\ link' = IF ip \in Neighbours THEN [link EXCEPT ![ip] = eth] ELSE link
    /\ silent' = IF ip \in Neighbours THEN [silent EXCEPT ![ip] = 0] ELSE silent

\* uip_arp_update
ArpUpdate(ip, eth) ==
    /\ arptable' = [arptable EXCEPT ![EntryFor(arptable, arptime, ip)] =
                        [ip |-> ip, eth |-> eth, time |-> arptime]]
    /\ link' = IF ip \in Neighbours THEN [link EXCEPT ![ip] = eth] ELSE link
    /\ silent' = IF ip \in Neighbours THEN [silent EXCEPT ![ip] = 0] ELSE silent

\* uip_arp_arpin: a message too short, for another host or of another kind is ignored;
\* a request for our address is answered.  A host that only probes has no address yet.
ArpIn(opcode, sip, eth, dip) ==
    /\ \/ dip = Me /\ opcode \in {"request", "reply"} /\ ArpUpdate(sip, eth)
       \/ (dip # Me \/ opcode = "short") /\ UNCHANGED <<arptable, link, silent>>
    /\ frame' = IF dip = Me /\ opcode = "request"
                THEN [type |-> "reply", dest |-> eth, to |-> sip] ELSE NoFrame
    /\ UNCHANGED arptime

NextHop(dip) == IF dip \in Remote THEN Router ELSE dip

\* uip_arp_out: the packet to dip gets the link address of the table, or is
\* overwritten by a request for it.
ArpOut(dip) ==
    LET known == {i \in Slots : arptable[i].ip = NextHop(dip)} IN
    /\ \/ dip = Broadcast
          /\ frame' = [type |-> "ip", dest |-> Broadcast, to |-> dip]
       \/ dip # Broadcast /\ known # {}
          /\ frame' = [type |-> "ip", dest |-> arptable[First(known)].eth, to |-> dip]
       \/ dip # Broadcast /\ known = {}
          /\ frame' = [type |-> "request", dest |-> Broadcast, to |-> NextHop(dip)]
    /\ UNCHANGED <<arptable, arptime, link, silent>>

ArpNext == \/ ArpTimer
           \/ \E op \in {"request", "reply", "short"}, sip \in Locals \cup {Unset}, eth \in Links,
                 dip \in {Me, Router} : ArpIn(op, sip, eth, dip)
           \/ \E dip \in Locals \cup Remote \cup {Broadcast} : ArpOut(dip)

ArpSpec == ArpInit /\ [][ArpNext]_arpVars
-----------------------------------------------------------------------------
\* A packet goes to the link address that its next hop announced last, however the
\* table was aged, filled and reused in between; of an address with a zero half
\* (missed by the search of uip_arp_update) this is not claimed.
FrameReachesNextHop ==
    frame.type = "ip" /\ frame.to # Broadcast /\ NextHop(frame.to) \in Neighbours
        => frame.dest = link[NextHop(frame.to)]

\* The timer forgets no address that was heard of less than ARP_MAXAGE periods ago,
\* although its clock wraps around (the byte arithmetic of uip_arp_timer).
FreshStays ==
    [][\A a \in Neighbours :
        arptime' # arptime /\ silent[a] + 1 < ARP_MAXAGE /\ (\E i \in Slots : arptable[i].ip = a)
            => \E i \in Slots : arptable'[i].ip = a]_arpVars

\* Both: the table neither sends a frame astray nor forgets early.
ArpSafe == []FrameReachesNextHop /\ FreshStays
=============================================================================
