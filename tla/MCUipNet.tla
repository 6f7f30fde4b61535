------------------------------ MODULE MCUipNet -------------------------------
(* The parts of uIP below TCP and the task that drives them: one behaviour *)
(* exercises one of them, `layer`, and leaves the others alone.            *)
EXTENDS UipArith, UipReass, UipIp, UipArp, UipNeighbor, UipFw, UipTask

VARIABLE layer
netVars == <<arithVars, reassVars, ipVars, arpVars, nbVars, fwVars, taskVars, layer>>

MCSize == [d \in Datagram |-> IF d = "d1" THEN 5 ELSE 8]
MCOnNet == [n \in Netifs |-> Stations]

\* What the layer that runs does not use starts in one of its initial states.
NetInit ==
    /\ layer \in {"arith", "reass", "ip", "arp", "neighbor", "fw", "task"}
    /\ ArithInit /\ ReassInit /\ IpInit /\ ArpInit /\ NbInit /\ FwInit /\ TaskInit
    /\ layer # "ip" => hostaddr = Zeroes
    /\ layer # "fw" => fwhost = NoHost
    /\ layer # "task" => held = "ip"

NetNext ==
    \/ /\ layer = "arith" /\ ArithNext
       /\ UNCHANGED <<reassVars, ipVars, arpVars, nbVars, fwVars, taskVars, layer>>
    \/ /\ layer = "reass" /\ ReassNext
       /\ UNCHANGED <<arithVars, ipVars, arpVars, nbVars, fwVars, taskVars, layer>>
    \/ /\ layer = "ip" /\ IpNext
       /\ UNCHANGED <<arithVars, reassVars, arpVars, nbVars, fwVars, taskVars, layer>>
    \/ /\ layer = "arp" /\ ArpNext
       /\ UNCHANGED <<arithVars, reassVars, ipVars, nbVars, fwVars, taskVars, layer>>
    \/ /\ layer = "neighbor" /\ NbNext
       /\ UNCHANGED <<arithVars, reassVars, ipVars, arpVars, fwVars, taskVars, layer>>
    \/ /\ layer = "fw" /\ FwNext
       /\ UNCHANGED <<arithVars, reassVars, ipVars, arpVars, nbVars, taskVars, layer>>
    \/ /\ layer = "task" /\ TaskNext
       /\ UNCHANGED <<arithVars, reassVars, ipVars, arpVars, nbVars, fwVars, layer>>

\* The fairness of FairReass and FairTask.
FairNet == NetInit /\ [][NetNext]_netVars /\ FairReass
           /\ WF_taskVars(layer = "task" /\ Thread) /\ WF_taskVars(layer = "task" /\ Tick)
=============================================================================
