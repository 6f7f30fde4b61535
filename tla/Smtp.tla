-------------------------------- MODULE Smtp --------------------------------
(***************************************************************************)
(* The mail client smtp.c: its protothread walks through the dialogue with *)
(* the server, on protosocket operations that do what module Psock shows   *)
(* (a send blocks until its data is acknowledged, a read returns the next  *)
(* line), and starts over when it is called again after its end.           *)
(***************************************************************************)
EXTENDS Integers, Sequences

CONSTANTS MaxReports    \* bound on the callbacks that are recorded
ASSUME SmtpAssumption == MaxReports \in Nat \ {0}

\* The dialogue: what is sent, the reply that lets it go on, the error told otherwise.
Step(sends, wants, error) == [sends |-> sends, wants |-> wants, error |-> error]
Mail(cc) ==
    <<Step(0, {"220"}, 2),              \* the greeting
      Step(3, {"220", "250"}, 3),       \* HELO: first digit 2
      Step(3, {"220", "250"}, 4),       \* MAIL FROM
      Step(3, {"220", "250"}, 5)>>      \* RCPT TO
    \o (IF cc THEN <<Step(3, {"220", "250"}, 6)>> ELSE <<>>)
    \o <<Step(1, {"354"}, 7),           \* DATA
         Step(IF cc THEN 14 ELSE 11, {"220", "250"}, 8)>>  \* headers, text and the final period
Replies == {"220", "250", "354", "500"}

VARIABLES
    cc,         \* smtp_send was given a second recipient
    smtpconn,   \* "none", "up", "closing" (the client's FIN is out)
    connected,  \* s.connected
    stage, sendno,  \* how far the thread is: the step, and which of its sends
    unacked,    \* data of the current send is in transit or not yet received
    said,       \* ghost: the replies that the thread of this mail has read
    reports     \* ghost: the arguments of smtp_done since smtp_send

smtpVars == <<cc, smtpconn, connected, stage, sendno, unacked, said, reports>>
Dialogue == Mail(cc)
Quitting == stage = Len(Dialogue) + 1
Sending == IF Quitting THEN TRUE ELSE sendno < Dialogue[stage].sends

\* smtp_init and smtp_configure
SmtpInit == /\ cc \in BOOLEAN /\ smtpconn = "none" /\ connected = FALSE
            /\ stage = 1 /\ sendno = 0 /\ unacked = FALSE
            /\ said = <<>> /\ reports = <<>>

\* smtp_send of a program that waits until the last connection is gone
SmtpSend == /\ smtpconn = "none"
            /\ \/ smtpconn' = "up" /\ connected' = TRUE /\ cc' \in BOOLEAN
                  /\ stage' = 1 /\ sendno' = 0 /\ unacked' = FALSE
                  /\ said' = <<>> /\ reports' = <<>>
               \/ UNCHANGED smtpVars    \* no connection free

Report(e) == reports' = IF Len(reports) < MaxReports THEN Append(reports, e) ELSE reports
\* PSOCK_EXIT and PSOCK_END: the next call starts the thread from its beginning.
Restarted == stage' = 1 /\ sendno' = 0 /\ unacked' = FALSE

\* The send the thread was in is acknowledged, in a call that may bring a reply as well:
\* the next send, the read, or the end of the thread.
SmtpAcked ==
    /\ smtpconn = "up" /\ Sending /\ unacked
    /\ IF Quitting THEN Report(0) /\ Restarted
       ELSE /\ sendno' = sendno + 1 /\ unacked' = (sendno + 1 < Dialogue[stage].sends)
            /\ UNCHANGED <<stage, reports>>
    /\ UNCHANGED <<cc, smtpconn, connected, said>>

\* Faulty variant: only an error ends the dialogue.
SmtpReplyNoError(r) ==
    /\ smtpconn = "up" /\ ~Quitting
    /\ \/ ~Sending
       \/ unacked /\ sendno + 1 = Dialogue[stage].sends
    /\ said' = IF reports = <<>> THEN Append(said, r) ELSE said
    /\ IF r # "500"
       THEN /\ stage' = stage + 1 /\ sendno' = 0 /\ unacked' = TRUE
            /\ UNCHANGED <<smtpconn, reports>>
       ELSE smtpconn' = "closing" /\ Report(Dialogue[stage].error) /\ Restarted
    /\ UNCHANGED <<cc, connected>>

\* A reply line for the thread, which waits for one or gets it with the last acknowledgement.
SmtpReply(r) ==
    /\ smtpconn = "up" /\ ~Quitting
    /\ \/ ~Sending
       \/ unacked /\ sendno + 1 = Dialogue[stage].sends
    /\ said' = IF reports = <<>> THEN Append(said, r) ELSE said
    /\ IF r \in Dialogue[stage].wants
       THEN /\ stage' = stage + 1 /\ sendno' = 0 /\ unacked' = TRUE
            /\ UNCHANGED <<smtpconn, reports>>
       ELSE smtpconn' = "closing" /\ Report(Dialogue[stage].error) /\ Restarted
    /\ UNCHANGED <<cc, connected>>

\* smtp_appcall at the end of the connection; a closing connection still times out or is reset.
SmtpClosed == /\ smtpconn # "none" /\ smtpconn' = "none" /\ connected' = FALSE
              /\ UNCHANGED <<cc, stage, sendno, unacked, said, reports>>
SmtpGone == /\ smtpconn # "none" /\ smtpconn' = "none" /\ connected' = FALSE /\ Report(1)
            /\ UNCHANGED <<cc, stage, sendno, unacked, said>>

SmtpNext == SmtpSend \/ SmtpAcked \/ (\E r \in Replies : SmtpReply(r)) \/ SmtpClosed \/ SmtpGone
SmtpSpec == SmtpInit /\ [][SmtpNext]_smtpVars

-----------------------------------------------------------------------------
\* The first thing smtp_done tells of a mail is true: success when the server took every
\* step, an error number for the first step it refused.
FirstReportIsTrue ==
    reports # <<>> =>
        LET took == \A i \in 1 .. Len(said) : said[i] \in Dialogue[i].wants IN
        CASE reports[1] = 0 -> took /\ Len(said) = Len(Dialogue)
          [] reports[1] = 1 -> TRUE
          [] OTHER -> said # <<>> /\ reports[1] = Dialogue[Len(said)].error
                      /\ said[Len(said)] \notin Dialogue[Len(said)].wants
=============================================================================
