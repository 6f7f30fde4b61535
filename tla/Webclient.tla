------------------------------ MODULE Webclient -----------------------------
(***************************************************************************)
(* The HTTP client webclient.c: one transfer, driven by the events of its  *)
(* TCP connection and by those of the earlier ones, which after the FIN of *)
(* the server are in LAST_ACK until the client is called for them again:   *)
(* all of them share one state.  Request and response are sequences of     *)
(* units; a unit of the response knows what its line says and whether it   *)
(* ends the line.                                                          *)
(***************************************************************************)
EXTENDS Integers, Sequences, SequencesExt

CONSTANTS
    WebMss,             \* uip_mss(), in units
    RequestLen,         \* units of the GET request
    LineSize,           \* sizeof(httpheaderline)
    Responses,          \* what servers answer: sequences of units
    WEBCLIENT_TIMEOUT,  \* polls without progress
    WebConns            \* UIP_CONNS

Unit(says, ends) == [says |-> says, ends |-> ends]
Says == {"200", "301", "404", "bad", "other", "blank", "body"}
WebUnits == [says : Says, ends : BOOLEAN]

\* A response, which may stop anywhere: the line of its status, headers, a blank line, the body.
Layout(r, status, blank) ==
    /\ status < blank
    /\ \A i \in 1 .. Len(r) :
          /\ i <= status => /\ r[i].says = r[1].says /\ r[i].says \notin {"other", "blank", "body"}
                            /\ r[i].ends <=> i = status
          /\ status < i /\ i < blank => r[i].says = "other"
          /\ i = blank => r[i] = Unit("blank", TRUE)
          /\ blank < i => r[i].says = "body"
IsResponse(r) == /\ r \in Seq(WebUnits)
                 /\ \E status, blank \in 1 .. Len(r) + 2 : Layout(r, status, blank)

ASSUME WebAssumption ==
    /\ \A r \in Responses : IsResponse(r)
    /\ WebMss \in Nat \ {0} /\ RequestLen \in Nat \ {0} /\ LineSize \in Nat \ {0}
    /\ WEBCLIENT_TIMEOUT \in Nat \ {0, 1} /\ WebConns \in Nat \ {0}

VARIABLES
    web,        \* the struct webclient_state: state, httpflag, getrequestleft and -ptr,
                \* httpheaderlineptr, timer
    webconn,    \* "none", "syn sent", "up"; "two" when a second transfer begins beside it,
                \* where the model ends
    late,       \* the number of connections in LAST_ACK
    inflight,   \* the units of the request in transit: [from, to], to = 0 for none
    served,     \* ghost: how much of the request the server has got
    answer,     \* the response of the server, <<>> before it has the request
    pos,        \* how much of it the client has got
    handed      \* ghost: the units given to webclient_datahandler in this transfer

transfer == <<inflight, served, answer, pos, handed>>
webVars == <<web, webconn, late, transfer>>

NoPiece == [from |-> 0, to |-> 0]
Least(a, b) == IF a < b THEN a ELSE b

WebInit == /\ web = [state |-> "STATUSLINE", flag |-> "NONE", left |-> 0, ptr |-> 0,
                     lineptr |-> 0, timer |-> 0]
           /\ webconn = "none" /\ inflight = NoPiece /\ served = 0 /\ answer = <<>> /\ pos = 0
           /\ handed = <<>> /\ late = 0

\* init_connection after a uip_connect that found a connection
Connecting(s) == [s EXCEPT !.state = "STATUSLINE", !.left = RequestLen, !.ptr = 0, !.lineptr = 0]
Connects(s) == /\ web' = Connecting(s) /\ webconn' = "syn sent"
               /\ inflight' = NoPiece /\ served' = 0 /\ answer' = <<>> /\ pos' = 0 /\ handed' = <<>>

\* The program's webclient_get, when no transfer is going on
WebGet == /\ webconn = "none" /\ late < WebConns /\ Connects(web) /\ UNCHANGED late
WebClose == /\ webconn \in {"syn sent", "up"} /\ web.state # "CLOSE"
            /\ web' = [web EXCEPT !.state = "CLOSE"]
            /\ UNCHANGED <<webconn, late, transfer>>

\* senddata: the piece it gives to uip_send, NoPiece when the request is through
SendPiece(s) == IF s.left = 0 THEN NoPiece
                ELSE [from |-> s.ptr + 1, to |-> s.ptr + Least(s.left, WebMss)]
\* acked
AckedPiece(s) == LET n == Least(s.left, WebMss) IN [s EXCEPT !.left = @ - n, !.ptr = @ + n]

-----------------------------------------------------------------------------
\* What parse_statusline, parse_headers and newdata do with one unit; units that find the
\* line buffer full stay unread.  r is [s, data, quit]: quit when the line is not HTTP.
InLine(r, u, ended) ==
    IF r.s.lineptr = LineSize THEN r
    ELSE IF u.ends THEN ended ELSE [r EXCEPT !.s.lineptr = @ + 1]
HeadersBegin(r, flag) == [r EXCEPT !.s.flag = flag, !.s.state = "HEADERS", !.s.lineptr = 0]
StatusUnit(r, u) ==
    InLine(r, u, CASE u.says = "200" -> HeadersBegin(r, "OK")
                   [] u.says = "301" -> HeadersBegin(r, "MOVED")
                   [] u.says = "404" -> HeadersBegin(r, "NONE")
                   [] OTHER -> [r EXCEPT !.quit = TRUE])
HeaderUnit(r, u) ==
    InLine(r, u, IF u.says = "blank" THEN [r EXCEPT !.s.state = "DATA"]
                 ELSE [r EXCEPT !.s.lineptr = 0])
\* Faulty variant: the body of a redirection is handed out too.
BodyUnitAlways(r, u) == [r EXCEPT !.data = Append(@, u)]

BodyUnit(r, u) == IF r.s.flag = "MOVED" THEN r ELSE [r EXCEPT !.data = Append(@, u)]
ParseUnit(r, u) ==
    CASE r.quit -> r
      [] ~r.quit /\ r.s.state = "STATUSLINE" -> StatusUnit(r, u)
      [] ~r.quit /\ r.s.state = "HEADERS" -> HeaderUnit(r, u)
      [] ~r.quit /\ r.s.state = "DATA" -> BodyUnit(r, u)
Parsed(s, data) ==
    LET after[i \in 0 .. Len(data)] ==
            IF i = 0 THEN [s |-> s, data |-> <<>>, quit |-> FALSE]
            ELSE ParseUnit(after[i - 1], data[i])
    IN  after[Len(data)]

\* The connection is over; after a FIN of the server it goes to LAST_ACK, whatever the
\* client says.
Gone(fin) == /\ webconn' = "none" /\ late' = IF fin THEN late + 1 ELSE late
             /\ UNCHANGED <<inflight, served, answer, pos>>

\* webclient_appcall at uip_connected
AppConnected == /\ webconn = "syn sent" /\ webconn' = "up"
                /\ web' = [web EXCEPT !.timer = 0, !.state = "STATUSLINE"]
                /\ inflight' = SendPiece(web)
                /\ UNCHANGED <<late, served, answer, pos, handed>>

Calls == webconn = "up" /\ web.state # "CLOSE"
\* Any call after webclient_close; in one for a retransmission nothing comes of uip_close.
AppClosing ==
    /\ webconn = "up" /\ web.state = "CLOSE" /\ UNCHANGED <<web, handed>>
    /\ \E fin \in {FALSE, served = RequestLen} : Gone(fin)

\* uip_aborted and uip_timedout, also while the connection is set up
AppGone == /\ webconn \in {"syn sent", "up"} /\ (webconn = "up" => web.state # "CLOSE")
           /\ Gone(FALSE) /\ UNCHANGED <<web, handed>>

\* uip_closed with HTTPFLAG_MOVED: look up the name and call webclient_get.
Restarts(s) ==
    /\ \/ late + 1 < WebConns /\ Connects(s)
       \/ /\ web' = s /\ webconn' = "none"     \* not resolved yet, or no connection free
          /\ UNCHANGED transfer
    /\ late' = late + 1
\* uip_acked and uip_newdata, and the FIN of the server that its last segment may carry: it
\* is looked at also when the line is not HTTP and the connection was to be aborted.
AppEvent(ack, n, fin) ==
    LET s1 == [(IF ack THEN AckedPiece(web) ELSE web) EXCEPT
                  !.timer = IF ack \/ n > 0 THEN 0 ELSE @]
        r  == Parsed(s1, SubSeq(answer, pos + 1, pos + n))
    IN  /\ Calls
        /\ IF fin /\ r.s.flag = "MOVED" THEN Restarts(r.s)
           ELSE /\ web' = r.s /\ handed' = IF r.quit THEN handed ELSE handed \o r.data
                /\ IF fin THEN Gone(TRUE)
                   ELSE IF r.quit THEN Gone(FALSE)
                   ELSE /\ inflight' = IF ack \/ inflight = NoPiece THEN SendPiece(r.s) ELSE inflight
                        /\ pos' = pos + n /\ UNCHANGED <<webconn, late, served, answer>>

Got == inflight # NoPiece /\ served >= inflight.to
WebAck == Got /\ AppEvent(TRUE, 0, FALSE)
WebData == answer # <<>> /\ \E n \in 1 .. Len(answer) - pos :
               \E fin \in {FALSE} \cup {pos + n = Len(answer)} : AppEvent(Got, n, fin)
WebFin == served = RequestLen /\ AppEvent(Got, 0, TRUE)   \* the server may give up at any time
WebRexmit == /\ Calls /\ inflight # NoPiece
             /\ inflight' = SendPiece(web)
             /\ UNCHANGED <<web, webconn, late, served, answer, pos, handed>>
WebPoll == /\ Calls /\ inflight = NoPiece
           /\ web' = [web EXCEPT !.timer = @ + 1]
           /\ IF web.timer + 1 = WEBCLIENT_TIMEOUT THEN Gone(FALSE) /\ UNCHANGED handed
              ELSE UNCHANGED <<webconn, late, transfer>>

\* The end of a connection in LAST_ACK: the client is called once more, with UIP_ABORT or
\* UIP_TIMEDOUT, or with UIP_CLOSE when the server acknowledges the FIN.  It takes the call
\* for one of the transfer that its state is about.
LateCall == late > 0 /\ webconn # "two" /\ late' = late - 1
LateGone == LateCall /\ UNCHANGED <<web, webconn, transfer>>
LateClosed ==
    /\ LateCall
    /\ \/ /\ web.state = "CLOSE" \/ web.flag # "MOVED"
          /\ UNCHANGED <<web, webconn, transfer>>
       \/ /\ web.state # "CLOSE" /\ web.flag = "MOVED"
          /\ \/ UNCHANGED <<web, webconn, transfer>>           \* not resolved yet
             \/ webconn = "none" /\ Connects(web)
             \/ /\ webconn # "none" /\ webconn' = "two" /\ web' = Connecting(web)
                /\ UNCHANGED transfer

\* The server (external): it gets the request and then answers.
ServerGets == /\ webconn = "up" /\ inflight # NoPiece /\ ~Got /\ served' = inflight.to
              /\ answer' \in IF inflight.to = RequestLen THEN Responses ELSE {<<>>}
              /\ UNCHANGED <<web, webconn, late, inflight, pos, handed>>

WebNext == \/ WebGet \/ WebClose \/ AppConnected \/ AppClosing \/ AppGone
           \/ WebAck \/ WebData \/ WebFin \/ WebRexmit \/ WebPoll \/ LateGone \/ LateClosed
           \/ ServerGets
WebSpec == WebInit /\ [][WebNext]_webVars

-----------------------------------------------------------------------------
\* The handler gets the body of a response that is no redirection and nothing else, in
\* order, wherever the segments cut it and whatever earlier connections the client is
\* called for meanwhile (newdata, parse_headers, init_connection).
Blanks(r) == {i \in 1 .. Len(r) : r[i].says = "blank"}
Body(r) == IF Blanks(r) = {} \/ r[1].says = "301" THEN <<>>
           ELSE SubSeq(r, (CHOOSE i \in Blanks(r) : \A j \in Blanks(r) : i <= j) + 1, Len(r))
DataIsBody == IsPrefix(handed, Body(answer))
=============================================================================
