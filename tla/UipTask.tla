------------------------------- MODULE UipTask ------------------------------
(***************************************************************************)
(* The uIP task (uip_thread of middleware/uip/fos/main.c) with its two     *)
(* timers (uip/timer.c) and the tap device (tapdev.c, clock-arch.c).  What *)
(* the stack does with a frame is the subject of UipTcp, UipIp and UipArp: *)
(* here a call leaves something to send or not.                            *)
(***************************************************************************)
EXTENDS Integers

CONSTANTS
    Conns,          \* UIP_CONNS
    PERIOD,         \* interval of periodic_timer, in units of the clock
    ARP_PERIOD,     \* interval of arp_timer
    MaxLag          \* bound: the clock runs no further ahead of the two timers

ASSUME TaskAssumption ==
    /\ Conns \in Nat \ {0} /\ PERIOD \in Nat \ {0} /\ ARP_PERIOD \in Nat \ {0}
    /\ MaxLag >= PERIOD /\ MaxLag >= ARP_PERIOD

VARIABLES
    at,         \* where uip_thread is
    conn,       \* i of the loop over the connections
    tap,        \* a frame is waiting in the device: its type, or "none"
    held,       \* the type in uip_buf
    uiplen,     \* what tapdev_read or the stack left in uip_len: "zero", "frame" or "error"
    sincePeriodic, sinceArp,    \* clock_time() - start of the two timers
    owedPeriodic, owedArp       \* ghosts: units since the task began that no expiry accounts for

taskVars == <<at, conn, tap, held, uiplen, sincePeriodic, sinceArp, owedPeriodic, owedArp>>
timers == <<sincePeriodic, sinceArp, owedPeriodic, owedArp>>

Types == {"ip", "arp", "other"}

\* uip_thread up to its loop: timer_set, tapdev_init, uip_init, addresses, httpd_init
TaskInit == /\ at = "read" /\ conn = 1 /\ tap = "none" /\ held \in Types /\ uiplen = "zero"
            /\ sincePeriodic = 0 /\ sinceArp = 0 /\ owedPeriodic = 0 /\ owedArp = 0

\* External: time passes (clock_time), a frame reaches the device.
Tick == /\ sincePeriodic < MaxLag /\ sinceArp < MaxLag
        /\ sincePeriodic' = sincePeriodic + 1 /\ sinceArp' = sinceArp + 1
        /\ owedPeriodic' = owedPeriodic + 1 /\ owedArp' = owedArp + 1
        /\ UNCHANGED <<at, conn, tap, held, uiplen>>
Arrive(t) == /\ tap = "none" /\ tap' = t
             /\ UNCHANGED <<at, conn, held, uiplen, timers>>

\* tapdev_read: select ends without a frame, or there is one to read, or a signal
\* interrupts select and read waits for the next frame, or read fails.
ReadNothing == /\ at = "read" /\ tap = "none"
               /\ uiplen' = "zero" /\ at' = "timers"
               /\ UNCHANGED <<conn, tap, held, timers>>
ReadFrame == /\ at \in {"read", "blocked"} /\ tap # "none"
             /\ held' = tap /\ tap' = "none" /\ uiplen' = "frame" /\ at' = "input"
             /\ UNCHANGED <<conn, timers>>
SelectInterrupted == /\ at = "read" /\ tap = "none" /\ at' = "blocked"
                     /\ UNCHANGED <<conn, tap, held, uiplen, timers>>
ReadFails == /\ at \in {"read", "blocked"}
             /\ uiplen' = "error" /\ at' = "input"
             /\ UNCHANGED <<conn, tap, held, timers>>

\* The stack leaves a frame to send, which uip_arp_out and tapdev_send take, or nothing.
Output == \/ uiplen' = "zero" /\ UNCHANGED held
          \/ uiplen' = "frame" /\ held' \in {"ip", "arp"}

\* uip_input or uip_arp_arpin for what is in the buffer; after a failed read that is
\* what was there before (uip_len is 65535 then).
Input == /\ at = "input"
         /\ \/ held \in {"ip", "arp"} /\ Output
            \/ held = "other" /\ UNCHANGED <<held, uiplen>>
         /\ at' = "delay" /\ UNCHANGED <<conn, tap, timers>>

\* timer_expired and timer_reset
TimerExpired(since, interval) == since >= interval
TimerReset(since, interval) == since - interval

PeriodicTimer ==
    /\ at = "timers"
    /\ \/ /\ TimerExpired(sincePeriodic, PERIOD)
          /\ sincePeriodic' = TimerReset(sincePeriodic, PERIOD)
          /\ owedPeriodic' = owedPeriodic - PERIOD
          /\ conn' = 1 /\ at' = "periodic"
       \/ /\ ~TimerExpired(sincePeriodic, PERIOD)
          /\ at' = "delay" /\ UNCHANGED <<conn, sincePeriodic, owedPeriodic>>
    /\ UNCHANGED <<tap, held, uiplen, sinceArp, owedArp>>

\* Faulty variant: the loop ends before the last connection.
UipPeriodicCallShort ==
    /\ at = "periodic" /\ Output
    /\ conn' = (conn % Conns) + 1
    /\ at' = IF conn < Conns - 1 THEN "periodic" ELSE "arptimer"
    /\ UNCHANGED <<tap, timers>>

\* uip_periodic for the connections in turn, the output of each sent at once.
UipPeriodicCall ==
    /\ at = "periodic" /\ Output
    /\ conn' = (conn % Conns) + 1
    /\ at' = IF conn < Conns THEN "periodic" ELSE "arptimer"
    /\ UNCHANGED <<tap, timers>>

ArpTimerCall ==
    /\ at = "arptimer"
    /\ \/ /\ TimerExpired(sinceArp, ARP_PERIOD)
          /\ sinceArp' = TimerReset(sinceArp, ARP_PERIOD) /\ owedArp' = owedArp - ARP_PERIOD
       \/ ~TimerExpired(sinceArp, ARP_PERIOD) /\ UNCHANGED <<sinceArp, owedArp>>
    /\ at' = "delay" /\ UNCHANGED <<conn, tap, held, uiplen, sincePeriodic, owedPeriodic>>

\* os_delay(5): the task is away for a while
Delay == at = "delay" /\ at' = "read" /\ UNCHANGED <<conn, tap, held, uiplen, timers>>

Thread == ReadNothing \/ ReadFrame \/ Input \/ PeriodicTimer \/ UipPeriodicCall
          \/ ArpTimerCall \/ Delay
TaskNext == Thread \/ SelectInterrupted \/ ReadFails \/ Tick \/ \E t \in Types : Arrive(t)

TaskSpec == TaskInit /\ [][TaskNext]_taskVars
FairTask == TaskSpec /\ WF_taskVars(Thread) /\ WF_taskVars(Tick)
-----------------------------------------------------------------------------
\* Neither timer drifts: a round that the task comes late for is made up, none is
\* invented, however late its loop reaches timer_expired (timer_reset, not timer_restart).
NoDrift == sincePeriodic = owedPeriodic /\ sinceArp = owedArp

\* Every connection is polled again and again, and the ARP timer called, as long as
\* tapdev_read comes back empty-handed again and again: the timers are only looked at
\* then, so uninterrupted traffic keeps them waiting.
PeriodicServed ==
    []<><<ReadNothing>>_taskVars =>
        /\ \A c \in 1 .. Conns : []<>(at = "periodic" /\ conn = c)
        /\ []<>(at = "arptimer" /\ TimerExpired(sinceArp, ARP_PERIOD))

\* Both: the timers keep the time, and the stack is called for each (uip_thread).
TaskServes == []NoDrift /\ PeriodicServed
=============================================================================
