-------------------------------- MODULE Dhcpc --------------------------------
(***************************************************************************)
(* The DHCP client dhcpc.c: the protothread handle_dhcp, run in every call *)
(* of dhcpc_appcall.  PT_WAIT_UNTIL leaves the call only when its condition*)
(* is false, and uip_newdata() keeps its value during a call, so a call is *)
(* modelled step by step; the buffer at uip_appdata holds the datagram     *)
(* until a message is made in it.  The server is external and the network  *)
(* loses nothing.                                                          *)
(***************************************************************************)
EXTENDS Integers

CONSTANTS MaxDiscover, MaxRequest   \* 60 and 10 CLOCK_SECOND: where the delays stop growing

VARIABLES dstate,       \* s.state
          thread,       \* where the thread is: "begin", "offer", "ack", "configured"
          ticks, left,  \* s.ticks and what is left of s.timer
          dcall, dnew,  \* dhcpc_appcall runs, and whether uip_newdata() in it
          appdata,      \* the message at uip_appdata
          slen,         \* the message uip_send was last called with in this call
          answer        \* external: the datagram the server has under way, or "none"

dhcpVars == <<dstate, thread, ticks, left, dcall, dnew, appdata, slen, answer>>
TimerExpired == left = 0

DhcpInit == /\ dstate = "INITIAL" /\ thread = "begin" /\ ticks = 1 /\ left = 0
            /\ dcall = FALSE /\ dnew = FALSE /\ appdata = "none" /\ slen = "none"
            /\ answer = "none"

\* uIP calls the application of the UDP connection: a poll, or with a datagram.
DhcpPoll == /\ ~dcall /\ dcall' = TRUE /\ dnew' = FALSE /\ slen' = "none"
            /\ UNCHANGED <<dstate, thread, ticks, left, appdata, answer>>
DhcpData == /\ ~dcall /\ answer # "none" /\ dcall' = TRUE /\ dnew' = TRUE /\ slen' = "none"
            /\ appdata' = answer /\ answer' = "none"
            /\ UNCHANGED <<dstate, thread, ticks, left>>
\* The clock is read once in a wait; it does not run in a call, whose steps take no time.
DhcpTick == /\ ~dcall /\ left > 0 /\ left' = left - 1
            /\ UNCHANGED <<dstate, thread, ticks, dcall, dnew, appdata, slen, answer>>

\* The call returns; what uip_send was called with last is sent, and the server answers it.
Return == /\ dcall' = FALSE
          /\ answer' = CASE slen = "discover" -> "offer" [] slen = "request" -> "pack"
                         [] OTHER -> answer
          /\ UNCHANGED <<dnew, slen>>

\* send_discover, send_request: made at uip_appdata, over the datagram that is there.
SendDiscover == appdata' = "discover" /\ slen' = "discover"
SendRequest == appdata' = "request" /\ slen' = "request"
TimerSet == left' = ticks'
Blocked == ~dnew /\ ~TimerExpired
Got(type) == dnew /\ appdata = type     \* parse_msg() on a message of a server
Stays == dcall /\ UNCHANGED <<dcall, dnew, answer>>

Begin == /\ Stays /\ thread = "begin" /\ thread' = "offer" /\ dstate' = "SENDING"
         /\ ticks' = 1 /\ SendDiscover /\ TimerSet
WaitOffer == /\ dcall /\ thread = "offer" /\ Blocked /\ Return
             /\ UNCHANGED <<dstate, thread, ticks, left, appdata>>
OfferReceived == /\ Stays /\ thread = "offer" /\ Got("offer")
                 /\ dstate' = "OFFER_RECEIVED" /\ thread' = "ack"
                 /\ ticks' = 1 /\ SendRequest /\ TimerSet
AgainDiscover == /\ Stays /\ thread = "offer" /\ ~Blocked /\ ~Got("offer")
                 /\ ticks' = IF ticks < MaxDiscover THEN 2 * ticks ELSE ticks
                 /\ SendDiscover /\ TimerSet /\ UNCHANGED <<dstate, thread>>
WaitAck == /\ dcall /\ thread = "ack" /\ Blocked /\ Return
           /\ UNCHANGED <<dstate, thread, ticks, left, appdata>>
AckReceived == /\ Stays /\ thread = "ack" /\ Got("pack")
               /\ dstate' = "CONFIG_RECEIVED" /\ thread' = "configured"
               /\ UNCHANGED <<ticks, left, appdata, slen>>
AgainRequest == /\ Stays /\ thread = "ack" /\ ~Blocked /\ ~Got("pack") /\ ticks <= MaxRequest
                /\ ticks' = ticks + 1 /\ SendRequest /\ TimerSet /\ UNCHANGED <<dstate, thread>>
Restart == /\ dcall /\ thread = "ack" /\ ~Blocked /\ ~Got("pack") /\ ticks > MaxRequest
           /\ thread' = "begin" /\ Return /\ UNCHANGED <<dstate, ticks, left, appdata>>
\* dhcpc_configured was called: PT_YIELD for ever.
Configured == /\ dcall /\ thread = "configured" /\ Return
              /\ UNCHANGED <<dstate, thread, ticks, left, appdata>>

HandleDhcp == Begin \/ WaitOffer \/ OfferReceived \/ AgainDiscover \/ WaitAck \/ AckReceived
              \/ AgainRequest \/ Restart \/ Configured
DhcpNext == DhcpPoll \/ DhcpData \/ DhcpTick \/ HandleDhcp
\* A call that can go on does, uIP polls, the clock runs and answers arrive.
FairDhcp == DhcpInit /\ [][DhcpNext]_dhcpVars /\ WF_dhcpVars(HandleDhcp)
            /\ WF_dhcpVars(DhcpPoll \/ DhcpData) /\ SF_dhcpVars(DhcpData) /\ WF_dhcpVars(DhcpTick)

-----------------------------------------------------------------------------
\* A client whose messages are all answered calls dhcpc_configured in the end.
GetsConfigured == <>(thread = "configured")
=============================================================================
