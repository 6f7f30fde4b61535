---------------------------- MODULE UipNeighbor -----------------------------
(***************************************************************************)
(* The neighbour table of uip-neighbor.c (IPv6 builds).  uip_neighbor_add  *)
(* is called by the neighbour solicitation of uip_process; the others are  *)
(* for the link layer.  uip_neighbor_add compares the addresses of its     *)
(* entries with the link address, which equals none of them.               *)
(***************************************************************************)
EXTENDS Integers, FiniteSets

CONSTANTS
    NbAddr, NbLink, \* IP and link addresses
    NbEntries,      \* ENTRIES
    MAX_TIME

NoAddr == "::"
ASSUME NbAssumption == NbEntries \in Nat \ {0} /\ MAX_TIME \in Nat \ {0} /\ NoAddr \notin NbAddr

VARIABLES
    entries,
    found,      \* the answer of the last lookup
    heard       \* history: periods since each address was added or, being known, updated; at
                \* most MAX_TIME

nbVars == <<entries, found, heard>>

NbSlots == 1 .. NbEntries
Lowest(S) == CHOOSE i \in S : \A j \in S : i <= j

\* uip_neighbor_init
NbInit == /\ entries = [i \in NbSlots |-> [ip |-> NoAddr, addr |-> NoAddr, time |-> MAX_TIME]]
          /\ heard = [ip \in NbAddr |-> MAX_TIME] /\ found = NoAddr

\* uip_neighbor_periodic
NbPeriodic ==
    /\ entries' = [i \in NbSlots |-> IF entries[i].time < MAX_TIME
                                     THEN [entries[i] EXCEPT !.time = @ + 1] ELSE entries[i]]
    /\ heard' = [ip \in NbAddr |-> IF heard[ip] < MAX_TIME THEN heard[ip] + 1 ELSE heard[ip]]
    /\ UNCHANGED found

\* Faulty variant: the youngest.
VictimYoungest(t) ==
    LET unused == {i \in NbSlots : t[i].time = MAX_TIME} IN
    IF unused # {} THEN Lowest(unused)
    ELSE Lowest({i \in NbSlots : \A j \in NbSlots : t[i].time <= t[j].time})

\* The entry uip_neighbor_add fills: the first one unused or expired, else the oldest.
Victim(t) ==
    LET unused == {i \in NbSlots : t[i].time = MAX_TIME} IN
    IF unused # {} THEN Lowest(unused)
    ELSE Lowest({i \in NbSlots : \A j \in NbSlots : t[j].time <= t[i].time})

\* uip_neighbor_add
NbAdd(ip, addr) ==
    /\ entries' = [entries EXCEPT ![Victim(entries)] = [ip |-> ip, addr |-> addr, time |-> 0]]
    /\ heard' = [heard EXCEPT ![ip] = 0] /\ UNCHANGED found

\* find_entry: whatever its age
Known(ip) == {i \in NbSlots : entries[i].ip = ip}

\* uip_neighbor_update
NbUpdate(ip) ==
    /\ Known(ip) # {}
    /\ entries' = [entries EXCEPT ![Lowest(Known(ip))].time = 0]
    /\ heard' = [heard EXCEPT ![ip] = 0] /\ UNCHANGED found

\* uip_neighbor_lookup
LinkOf(ip) == IF Known(ip) = {} THEN NoAddr ELSE entries[Lowest(Known(ip))].addr
NbLookup(ip) == found' = LinkOf(ip) /\ UNCHANGED <<entries, heard>>

NbNext == NbPeriodic \/ \E ip \in NbAddr :
                            NbUpdate(ip) \/ NbLookup(ip) \/ \E l \in NbLink : NbAdd(ip, l)

NbSpec == NbInit /\ [][NbNext]_nbVars
-----------------------------------------------------------------------------
\* The table forgets no neighbour while it knows another that has been silent longer, although
\* an address may fill several entries and only the first of them is updated (uip_neighbor_add,
\* uip_neighbor_update).
LongestSilentGoes ==
    [][\A ip \in NbAddr : Known(ip) # {} /\ Known(ip)' = {} =>
          \A other \in NbAddr : Known(other) # {} => heard[other] <= heard[ip]]_nbVars
=============================================================================
