-------------------------------- MODULE UipFw -------------------------------
(***************************************************************************)
(* The packet forwarding module uip-fw.c (UIP_BROADCAST and                *)
(* UIP_PINGADDRCONF builds): the interfaces, the cache of packets sent     *)
(* lately and the forwarding of one packet.  A packet is identified by the *)
(* source, destination, IP id and protocol that the cache compares.        *)
(***************************************************************************)
EXTENDS Integers, Sequences, FiniteSets

CONSTANTS
    FwHost,     \* uip_hostaddr once it is configured
    Stations,   \* other addresses
    Netifs,     \* network interfaces
    OnNet,      \* the addresses that an interface's mask matches
    Ids,        \* IP ids
    CacheSize,  \* FWCACHE_SIZE
    FW_TIME,
    UIP_TTL     \* ttl of the packets this host makes itself

Everyone == "255.255.255.255"
NoHost == "0.0.0.0"
NoNetif == "no interface"
ASSUME FwAssumption ==
    /\ OnNet \in [Netifs -> SUBSET Stations] /\ CacheSize \in Nat \ {0}
    /\ FW_TIME \in Nat \ {0} /\ UIP_TTL \in Nat \ {0, 1}
    /\ FwHost \notin Stations /\ NoHost \notin Stations /\ Ids # {}

VARIABLES
    netifs, defaultnetif, fwcache,
    fwhost,     \* uip_hostaddr
    sent,       \* the packets that the last call gave to interfaces
    recent,     \* history: the packets registered less than FW_TIME periods ago, with these
                \* periods and the number of others registered since or before in the same period,
                \* as long as they are fewer than CacheSize
    inPeriod    \* history: the packets registered in this period, CacheSize for more

history == <<recent, inPeriod>>
fwVars == <<netifs, defaultnetif, fwcache, fwhost, sent, history>>

CacheSlots == 1 .. CacheSize
Key(p) == [src |-> p.src, dest |-> p.dest, id |-> p.id, proto |-> p.proto]
Blank == [src |-> NoHost, dest |-> NoHost, id |-> CHOOSE i \in Ids : TRUE, proto |-> "none"]

\* uip_fw_init; uip_fw_register is called once for an interface, uip_fw_default as often as one likes.
FwInit == /\ netifs = <<>> /\ defaultnetif = NoNetif
          /\ fwcache = [i \in CacheSlots |-> [timer |-> 0, key |-> Blank]]
          /\ fwhost \in {NoHost, FwHost} /\ sent = <<>> /\ recent = {} /\ inPeriod = 0

FwRegister(n) == /\ \A i \in 1 .. Len(netifs) : netifs[i] # n
                 /\ netifs' = <<n>> \o netifs
                 /\ sent' = <<>> /\ UNCHANGED <<defaultnetif, fwcache, fwhost, history>>
FwDefault(n) == /\ defaultnetif' = n
                /\ sent' = <<>> /\ UNCHANGED <<netifs, fwcache, fwhost, history>>

\* uip_fw_periodic
FwPeriodic == /\ fwcache' = [i \in CacheSlots |-> IF fwcache[i].timer > 0
                                THEN [fwcache[i] EXCEPT !.timer = @ - 1] ELSE fwcache[i]]
              /\ recent' = {[r EXCEPT !.age = @ + 1] : r \in {q \in recent : q.age + 1 < FW_TIME}}
              /\ inPeriod' = 0
              /\ sent' = <<>> /\ UNCHANGED <<netifs, defaultnetif, fwhost>>

\* Faulty variant: the last of the youngest.
CacheVictimYoungest ==
    LET free == {i \in CacheSlots : fwcache[i].timer = 0} IN
    IF free # {} THEN CHOOSE i \in free : \A j \in free : i <= j
    ELSE CHOOSE i \in CacheSlots : \A j \in CacheSlots :
            \/ fwcache[i].timer > fwcache[j].timer
            \/ fwcache[i].timer = fwcache[j].timer /\ j <= i

\* The entry fwcache_register fills: the first free one, else the last of the oldest.
CacheVictim ==
    LET free == {i \in CacheSlots : fwcache[i].timer = 0} IN
    IF free # {} THEN CHOOSE i \in free : \A j \in free : i <= j
    ELSE CHOOSE i \in CacheSlots : \A j \in CacheSlots :
            \/ fwcache[i].timer < fwcache[j].timer
            \/ fwcache[i].timer = fwcache[j].timer /\ j <= i
FwcacheRegister(p) ==
    /\ fwcache' = [fwcache EXCEPT ![CacheVictim] = [timer |-> FW_TIME, key |-> Key(p)]]
    /\ recent' = {r \in {[q EXCEPT !.others = @ + 1] : q \in {q \in recent : q.key # Key(p)}}
                        \cup {[key |-> Key(p), age |-> 0, others |-> inPeriod]} :
                    r.others < CacheSize}
    /\ inPeriod' = IF inPeriod < CacheSize THEN inPeriod + 1 ELSE inPeriod

IsNetif(n) == n # NoNetif

\* find_netif
FindNetif(p) ==
    LET match == {i \in 1 .. Len(netifs) : p.dest \in OnNet[netifs[i]]} IN
    IF match = {} THEN defaultnetif ELSE netifs[CHOOSE i \in match : \A j \in match : i <= j]

\* uip_fw_output: a broadcast goes out on the default interface, then on all.
FwOutput(p) ==
    /\ FwcacheRegister(p)
    /\ LET to == IF p.dest = Everyone THEN <<defaultnetif>> \o netifs ELSE <<FindNetif(p)>>
       IN  sent' = [i \in 1 .. Len(SelectSeq(to, IsNetif)) |->
                       [net |-> SelectSeq(to, IsNetif)[i], packet |-> p]]

\* time_exceeded; no errors about ICMP (the packet is dropped, Nothing is left)
TimeExceeded(p) == [src |-> fwhost, dest |-> p.src, id |-> p.id, proto |-> "ICMP",
                    echo |-> FALSE, ttl |-> UIP_TTL]

Cached(p) == \E i \in CacheSlots : fwcache[i].timer # 0 /\ fwcache[i].key = Key(p)
ForUs(p) == p.dest = fwhost \/ (fwhost = NoHost /\ p.proto = "ICMP" /\ p.echo)  \* UIP_FW_LOCAL

Keep == sent' = <<>> /\ UNCHANGED <<fwcache, history>>

\* uip_fw_forward of a packet that is not for this host and not in the cache
Decremented(p) == [p EXCEPT !.ttl = @ - 1]
\* Faulty variant: the ttl is looked at after the packet was sent on once more.
ForwardNewLate(p) ==
    \/ p.ttl > 0 /\ FwOutput(Decremented(p))
    \/ p.ttl = 0 /\ p.proto # "ICMP" /\ p.dest # Everyone /\ FwOutput(Decremented(TimeExceeded(p)))
    \/ p.ttl = 0 /\ (p.proto = "ICMP" \/ p.dest = Everyone) /\ Keep

ForwardNew(p) ==
    \/ p.ttl > 1 /\ FwOutput(Decremented(p))
    \/ p.ttl <= 1 /\ p.dest = Everyone /\ Keep
    \/ p.ttl <= 1 /\ p.dest # Everyone /\ p.proto = "ICMP" /\ Keep
    \/ p.ttl <= 1 /\ p.dest # Everyone /\ p.proto # "ICMP" /\ FwOutput(Decremented(TimeExceeded(p)))

FwForward(p) == /\ \/ (ForUs(p) \/ Cached(p)) /\ Keep
                   \/ ~ForUs(p) /\ ~Cached(p) /\ ForwardNew(p)
                /\ UNCHANGED <<netifs, defaultnetif, fwhost>>

\* A packet of this host itself, and its address configured by ping
FwSend(p) == FwOutput(p) /\ UNCHANGED <<netifs, defaultnetif, fwhost>>
Configured == fwhost = NoHost /\ fwhost' = FwHost /\ sent' = <<>>
              /\ UNCHANGED <<netifs, defaultnetif, fwcache, history>>

\* What tells packets apart: of the ICMP messages, echo requests (ICMPBUF->type).
Message(proto, echo) == [src : Stations \cup {FwHost}, dest : Stations \cup {Everyone, FwHost},
                         id : Ids, proto : {proto}, echo : {echo}, ttl : {0, 1, 3}]
Arriving == Message("UDP", FALSE) \cup Message("ICMP", FALSE) \cup Message("ICMP", TRUE)
Own == [src : {FwHost}, dest : Stations \cup {Everyone}, id : Ids, proto : {"UDP"}, echo : {FALSE},
        ttl : {UIP_TTL}]

FwNext == \/ \E n \in Netifs : FwRegister(n) \/ FwDefault(n)
          \/ FwPeriodic \/ Configured
          \/ \E p \in Arriving : FwForward(p)
          \/ fwhost = FwHost /\ \E p \in Own : FwSend(p)

FwSpec == FwInit /\ [][FwNext]_fwVars
-----------------------------------------------------------------------------
\* No packet leaves with a ttl that wrapped around below zero or grew on the way
\* (the decrement in uip_fw_forward, also of the time exceeded message).
TtlInRange == \A i \in DOMAIN sent : sent[i].packet.ttl \in 1 .. UIP_TTL

\* A packet that was sent on or made here is not sent on again when it comes back within
\* FW_TIME, unless as many others as the cache has entries were registered since, or before it
\* in the same period, whose entries look equally old (fwcache_register, uip_fw_forward).
NoEcho ==
    [][sent' # <<>> =>
          \A r \in recent, p \in Arriving : Key(p) = r.key => ~FwForward(p)]_fwVars

\* Both: what is forwarded comes to an end, by its ttl and by the cache.
FwSafe == []TtlInRange /\ NoEcho
=============================================================================
