------------------------------- MODULE Device -------------------------------
(***************************************************************************)
(* kernel/device.c: the device queue (a sequence, as FosList justifies),   *)
(* the operations of drivers and the open count, a byte (% CountMod).      *)
(* A driver registers a device that is not registered and fills its        *)
(* OPERATIONS with ops_init before; a client may keep a handle for ever.   *)
(***************************************************************************)
EXTENDS Integers, Sequences, FiniteSets

CONSTANTS
    Devices, Names,
    NoDevice,
    CountMod,   \* 2^8
    Clients     \* bound: open calls not yet closed, per device
ASSUME DeviceAssumption ==
    CountMod \in Nat \ {0} /\ Clients \in Nat /\ NoDevice \notin Devices

Ops == {"open", "read", "write", "ioctrl", "close"}

VARIABLES
    devqueue,   \* device_queue_head
    name,       \* of each device; meaningful once registered
    ops,        \* the operations of each device that are not NULL
    flag, opencount,
    opens,      \* ghost: device_open calls not yet undone by device_close
    registers,  \* ghost: device_register calls of the device, % CountMod
    called      \* the driver function that the last call reached

devVars == <<devqueue, name, ops, flag, opencount, opens, registers, called>>

InQueue(d) == \E i \in 1 .. Len(devqueue) : devqueue[i] = d
NoCall == [dev |-> NoDevice, op |-> "none"]

\* device_queue_init and zeroed devices
DevInit == /\ devqueue = <<>> /\ name \in [Devices -> Names]
           /\ ops = [d \in Devices |-> {}] /\ flag = [d \in Devices |-> 0]
           /\ opencount = [d \in Devices |-> 0] /\ opens = [d \in Devices |-> 0]
           /\ registers = [d \in Devices |-> 0] /\ called = NoCall

\* ops_init and device_register: the device goes last and its count grows.
DeviceRegister(d, n, fs) ==
    /\ ~InQueue(d)
    /\ devqueue' = Append(devqueue, d)
    /\ name' = [name EXCEPT ![d] = n] /\ ops' = [ops EXCEPT ![d] = fs]
    /\ flag' = [flag EXCEPT ![d] = 0]
    /\ opencount' = [opencount EXCEPT ![d] = (@ + 1) % CountMod]
    /\ registers' = [registers EXCEPT ![d] = (@ + 1) % CountMod]
    /\ called' = NoCall /\ UNCHANGED opens

\* list_delete of a device that is in the queue once
DevUnlink(s, d) == LET at == CHOOSE i \in 1 .. Len(s) : s[i] = d IN
                   [i \in 1 .. Len(s) - 1 |-> IF i < at THEN s[i] ELSE s[i + 1]]

\* Faulty variant: the operations stay.
DeviceUnregisterKeepsOps(d) ==
    /\ InQueue(d) /\ devqueue' = DevUnlink(devqueue, d)
    /\ called' = NoCall /\ UNCHANGED <<name, ops, flag, opencount, opens, registers>>

\* device_unregister: ops_init with NULL, list_delete
DeviceUnregister(d) ==
    /\ InQueue(d)
    /\ ops' = [ops EXCEPT ![d] = {}]
    /\ devqueue' = DevUnlink(devqueue, d)
    /\ called' = NoCall /\ UNCHANGED <<name, flag, opencount, opens, registers>>

\* device_find: the first device of the name
DeviceFind(n) ==
    LET hits == {i \in 1 .. Len(devqueue) : name[devqueue[i]] = n} IN
    IF hits = {} THEN NoDevice ELSE devqueue[CHOOSE i \in hits : \A j \in hits : i <= j]

CallOf(d, op) == called' = IF op \in ops[d] THEN [dev |-> d, op |-> op] ELSE NoCall

\* device_open and device_close of a device that a client found once; nothing is
\* refused, not even when the driver function is missing or fails.
DeviceOpen(d, f) ==
    /\ opens[d] < Clients
    /\ CallOf(d, "open")
    /\ flag' = [flag EXCEPT ![d] = IF @ < f THEN f ELSE @]
    /\ opencount' = [opencount EXCEPT ![d] = (@ + 1) % CountMod]
    /\ opens' = [opens EXCEPT ![d] = @ + 1]
    /\ UNCHANGED <<devqueue, name, ops, registers>>
DeviceClose(d) ==
    /\ opens[d] > 0
    /\ CallOf(d, "close")
    /\ flag' = [flag EXCEPT ![d] = 0]
    /\ opencount' = [opencount EXCEPT ![d] = (@ - 1) % CountMod]
    /\ opens' = [opens EXCEPT ![d] = @ - 1]
    /\ UNCHANGED <<devqueue, name, ops, registers>>

\* device_read, device_write, device_ioctrl: 0 whatever the driver returns
DeviceCall(d, op) == /\ CallOf(d, op)
                     /\ UNCHANGED <<devqueue, name, ops, flag, opencount, opens, registers>>

DevNext ==
    \/ \E d \in Devices :
        \/ \E n \in Names, fs \in {Ops, Ops \ {"open"}} : DeviceRegister(d, n, fs)
        \/ DeviceUnregister(d) \/ DeviceClose(d)
        \/ \E op \in Ops \ {"open", "close"} : registers[d] > 0 /\ DeviceCall(d, op)
    \/ \E n \in Names, f \in 0 .. 1 : DeviceFind(n) # NoDevice /\ DeviceOpen(DeviceFind(n), f)

DevSpec == DevInit /\ [][DevNext]_devVars
-----------------------------------------------------------------------------
\* The driver of a device that was unregistered is not called through a handle that a
\* client kept, also when it has the device open (device_unregister empties the operations).
NoCallAfterUnregister == [][called' # NoCall => InQueue(called'.dev)]_devVars

\* open_count counts one for every registration and one for every client that has the
\* device open, over any order of registering, opening, unregistering and closing.
OpenCountBalances ==
    \A d \in Devices : opencount[d] = (registers[d] + opens[d]) % CountMod

\* Both, over any order of the calls of drivers and clients (device.c).
DeviceSafe == []OpenCountBalances /\ NoCallAfterUnregister
=============================================================================
