-------------------------------- MODULE Httpd --------------------------------
(***************************************************************************)
(* One connection of the web server: httpd.c, the script functions of      *)
(* httpd-cgi.c and the files of httpd-fs.c.  Two protothreads run in every *)
(* call of httpd_appcall: the input thread takes the request word by word, *)
(* the output thread sends one segment at a time and waits until it is     *)
(* acknowledged; PSOCK_SEND sends it again from where it lies, and         *)
(* PSOCK_GENERATOR_SEND what lies in the packet buffer by then (psock.c).  *)
(* A file is a sequence of units: text "x", a lone "%", "nl", and the      *)
(* script calls, of which "tcp", "net" and "null" name a function and any  *)
(* other a file to include; what is left of a script's line is not sent.   *)
(***************************************************************************)
EXTENDS Integers, Sequences, FiniteSets

CONSTANTS Files,        \* name -> its units; a name in Scripts is a .shtml file
          Scripts, Index, NotFound,
          HttpMss,      \* uip_mss, in units
          OtherConns,   \* slots of uip_conns other than this one's, numbers
          NumStats,     \* number of counters in uip_stat
          MaxPolls,     \* 20: idle polls until the connection is aborted
          MaxRtx,       \* UIP_MAXRTX
          Requests      \* what clients send: sequences of words

Functions == {"tcp", "net", "null"}
Includes == DOMAIN Files
Special == Functions \cup Includes \cup {"%"}
IsCall(u) == u \in Special \ {"%"}

ASSUME FilesAssumption ==
    /\ NotFound \in DOMAIN Files /\ HttpMss \in Nat \ {0} /\ NumStats \in Nat
    /\ {"nl", "%"} \cap DOMAIN Files = {}
    /\ \A f \in DOMAIN Files :
        /\ Files[f] \in Seq(STRING) \ {<<>>}
        /\ \A i \in 1 .. Len(Files[f]) : Files[f][i] # "row"
\* No line of a script has two calls: the second would be dropped with the rest of the line.
ASSUME ScriptsAssumption ==
    \A f \in Scripts \cap DOMAIN Files : \A i, j \in 1 .. Len(Files[f]) :
        i < j /\ IsCall(Files[f][i]) /\ IsCall(Files[f][j]) =>
            \E k \in i + 1 .. j - 1 : Files[f][k] = "nl"

VARIABLES
    http,       \* the connection: "none", "up", "closing" (uip_close), "aborted"
    words,      \* words of the request that are still to come
    input,      \* words of the segment this call brought
    hcall,      \* httpd_appcall runs, and which thread: "no", "in", "out"
    inpt, outpt,    \* where the two threads are
    output,     \* s->state is STATE_OUTPUT
    filename, file, scriptptr, count, polls,    \* the fields of httpd_state
    seg,        \* the segment that is not acknowledged, <<>>: none
    how,        \* it was "kept" in its file (PSOCK_SEND), "made" by a generator, or made and
                \* "resent" from the packet buffer
    nrtx,       \* its retransmissions
    openconns,  \* the other connections that are not UIP_CLOSED
    got,        \* ghost: what the client has received, by its place in the answer
    spoilt      \* ghost: for some of it other bytes came

httpVars == <<http, words, input, hcall, inpt, outpt, output, filename, file, scriptptr,
              count, polls, seg, how, nrtx, openconns, got, spoilt>>
wire == <<seg, how, got, spoilt>>
outState == <<outpt, filename, file, scriptptr, count>>

HttpInit == /\ http = "none" /\ words = <<>> /\ input = <<>> /\ hcall = "no"
            /\ inpt = "method" /\ outpt = "start" /\ output = FALSE /\ filename = Index
            /\ file = <<>> /\ scriptptr = <<>> /\ count = 0 /\ polls = 0
            /\ seg = <<>> /\ how = "kept" /\ nrtx = 0 /\ openconns = {} /\ got = <<>>
            /\ spoilt = FALSE

\* A client connects: the call with uip_connected.
HttpConnected ==
    /\ http = "none" /\ http' = "up" /\ words' \in Requests /\ hcall' = "in"
    /\ inpt' = "method" /\ outpt' = "start" /\ output' = FALSE /\ polls' = 0 /\ seg' = <<>>
    /\ how' = "kept" /\ nrtx' = 0 /\ got' = <<>> /\ spoilt' = FALSE
    /\ UNCHANGED <<input, filename, file, scriptptr, count, openconns>>

Event == http = "up" /\ hcall = "no" /\ hcall' = "in"
\* The client has the segment; when it was made and sent again, perhaps with other bytes.
Delivered == /\ seg # <<>> /\ got' = got \o seg /\ seg' = <<>> /\ how' = "kept"
             /\ spoilt' \in {spoilt, spoilt \/ how = "resent"}
\* Data, an acknowledgement or both: not a poll, so the idle timer starts again.
HttpData == /\ Event /\ polls' = 0 /\ nrtx' = 0 /\ (Delivered \/ UNCHANGED wire)
            /\ UNCHANGED <<http, inpt, output, openconns>> /\ UNCHANGED outState
HttpRequest ==
    /\ words # <<>> /\ HttpData
    /\ \E n \in 1 .. Len(words) : /\ input' = SubSeq(words, 1, n)
                                  /\ words' = SubSeq(words, n + 1, Len(words))
HttpMore == words = <<>> /\ HttpData /\ input' = <<"line">> /\ UNCHANGED words
HttpAcked ==
    /\ Event /\ Delivered /\ polls' = 0 /\ nrtx' = 0
    /\ UNCHANGED <<http, words, input, inpt, output, openconns>> /\ UNCHANGED outState
\* Faulty variant: every call resets the timer.
HttpPollResets ==
    /\ Event /\ seg = <<>> /\ polls' = 0 /\ http' = "up" /\ nrtx' = 0
    /\ UNCHANGED <<words, input, inpt, output, openconns>> /\ UNCHANGED wire /\ UNCHANGED outState

\* uIP polls a connection that has nothing outstanding.
HttpPoll ==
    /\ Event /\ seg = <<>> /\ polls' = polls + 1 /\ nrtx' = 0
    /\ http' = IF polls' >= MaxPolls THEN "aborted" ELSE "up"
    /\ UNCHANGED <<words, input, inpt, output, openconns>> /\ UNCHANGED wire /\ UNCHANGED outState
\* uip_rexmit: the thread that waits in the protosocket sends the segment again.
HttpRexmit ==
    /\ http = "up" /\ hcall = "no" /\ seg # <<>> /\ nrtx < MaxRtx /\ nrtx' = nrtx + 1 /\ polls' = 0
    /\ how' = IF how = "kept" THEN "kept" ELSE "resent"
    /\ UNCHANGED <<http, words, input, hcall, inpt, output, seg, openconns, got, spoilt>>
    /\ UNCHANGED outState
\* uip_closed, uip_aborted, uip_timedout: nothing is done, uIP frees the connection.
HttpGone ==
    /\ http # "none" /\ hcall = "no" /\ http' = "none"
    /\ UNCHANGED <<words, input, hcall, inpt, output, polls, nrtx, openconns>>
    /\ UNCHANGED wire /\ UNCHANGED outState
\* Other connections come and go.
OtherConn == /\ http = "up" /\ hcall = "no" /\ openconns' \in SUBSET OtherConns
             /\ UNCHANGED <<http, words, input, hcall, inpt, output, polls, nrtx>>
             /\ UNCHANGED wire /\ UNCHANGED outState

\* The input thread: the method, the path, and then lines that are read and dropped.
\* PSOCK_CLOSE_EXIT closes, and forgets the rest of the segment.
Refuse == /\ http' = "closing" /\ input' = <<>> /\ inpt' = "method"
          /\ UNCHANGED <<output, filename>>
ReadWord ==
    /\ hcall = "in" /\ input # <<>>
    /\ CASE inpt = "method" /\ Head(input) = "GET" ->
                inpt' = "path" /\ input' = Tail(input) /\ UNCHANGED <<http, output, filename>>
         [] inpt = "path" /\ Head(input) # "nopath" ->
                /\ filename' = IF Head(input) = "/" THEN Index ELSE Head(input)
                /\ output' = TRUE /\ inpt' = "lines" /\ input' = Tail(input) /\ UNCHANGED http
         [] inpt = "lines" -> input' = Tail(input) /\ UNCHANGED <<http, inpt, output, filename>>
         [] OTHER -> Refuse
    /\ UNCHANGED <<words, hcall, outpt, file, scriptptr, count, polls, nrtx, openconns>>
    /\ UNCHANGED wire
\* The output thread runs once a path is known, unless it waits for an acknowledgement.
InputDone ==
    /\ hcall = "in" /\ input = <<>>
    /\ hcall' = IF output /\ seg = <<>> /\ http = "up" THEN "out" ELSE "no"
    /\ UNCHANGED <<http, words, input, inpt, output, polls, nrtx, openconns>>
    /\ UNCHANGED wire /\ UNCHANGED outState

Fewer(a, b) == IF a < b THEN a ELSE b
Running(at) == hcall = "out" /\ outpt = at
outRest == <<words, input, inpt, output, polls, nrtx, openconns, got, spoilt>>
GivesSeg(units, kind) == seg' = units /\ how' = kind /\ hcall' = "no" /\ UNCHANGED http
Goes == UNCHANGED <<seg, how, hcall, http>>
From(s, n) == SubSeq(s, n + 1, Len(s))

\* handle_output: the file or the 404 page, and the status line.
OpenFile ==
    /\ Running("start")
    /\ LET found == filename \in DOMAIN Files
           name == IF found THEN filename ELSE NotFound IN
       /\ filename' = name /\ file' = Files[name]
       /\ GivesSeg(<<IF found THEN "200" ELSE "404">>, "kept")
    /\ outpt' = "headers" /\ UNCHANGED <<scriptptr, count>> /\ UNCHANGED outRest
\* send_headers: the content type.
SendType ==
    /\ Running("headers") /\ GivesSeg(<<"type">>, "kept")
    /\ outpt' = IF filename \in Scripts THEN "script" ELSE "file"
    /\ UNCHANGED <<filename, file, scriptptr, count>> /\ UNCHANGED outRest
\* send_file, for the whole answer and for a file that a script includes.
SendFile ==
    /\ outpt \in {"file", "include"} /\ Running(outpt)
    /\ IF file # <<>>
       THEN /\ LET n == Fewer(Len(file), HttpMss) IN
               GivesSeg(SubSeq(file, 1, n), "made") /\ file' = From(file, n)
            /\ UNCHANGED <<outpt, scriptptr>>
       ELSE Goes /\ UNCHANGED <<file, scriptptr>>
            /\ outpt' = IF outpt = "file" THEN "end" ELSE "next"
    /\ UNCHANGED <<filename, count>> /\ UNCHANGED outRest

\* handle_script: a script call, a part of the text up to the next "%", or the end.
StartScript ==
    /\ Running("script") /\ file # <<>> /\ IsCall(Head(file))
    /\ scriptptr' = Tail(file) /\ count' = 0 /\ Goes
    /\ IF Head(file) \in Includes THEN outpt' = "include" /\ file' = Files[Head(file)]
       ELSE outpt' = Head(file) /\ UNCHANGED file
    /\ UNCHANGED filename /\ UNCHANGED outRest
SendPart ==
    /\ Running("script") /\ file # <<>> /\ ~IsCall(Head(file))
    /\ LET marks == {i \in 2 .. Len(file) : file[i] \in Special}
           upto == IF marks = {} THEN Len(file)
                   ELSE (CHOOSE i \in marks : \A j \in marks : i <= j) - 1
           n == Fewer(upto, HttpMss) IN
       GivesSeg(SubSeq(file, 1, n), "kept") /\ file' = From(file, n)
    /\ UNCHANGED <<outpt, filename, scriptptr, count>> /\ UNCHANGED outRest
ScriptDone ==
    /\ Running("script") /\ file = <<>> /\ outpt' = "end" /\ Goes
    /\ UNCHANGED <<filename, file, scriptptr, count>> /\ UNCHANGED outRest
\* tcp_stats: a row for each connection that is open when its turn comes; its own slot is 0.
TcpStats ==
    /\ Running("tcp")
    /\ LET due == {i \in {0} \cup openconns : i >= count} IN
       IF due = {} THEN outpt' = "next" /\ Goes /\ UNCHANGED count
       ELSE LET i == CHOOSE i \in due : \A j \in due : i <= j IN
            GivesSeg(<<"row">>, "made") /\ count' = i + 1 /\ UNCHANGED outpt
    /\ UNCHANGED <<filename, file, scriptptr>> /\ UNCHANGED outRest
\* net_stats: a number for each counter.
NetStats ==
    /\ Running("net")
    /\ IF count = NumStats THEN outpt' = "next" /\ Goes /\ UNCHANGED count
       ELSE GivesSeg(<<"n">>, "made") /\ count' = count + 1 /\ UNCHANGED outpt
    /\ UNCHANGED <<filename, file, scriptptr>> /\ UNCHANGED outRest
\* next_scriptstate: on after the line of the script.  If the file has no such line end,
\* as tcp.shtml, strchr returns NULL; its distance from scriptptr, cut to 16 bits, is more
\* than what is left (unless by chance of the address), so that nothing is left.
NextScriptState ==
    /\ outpt \in {"next", "null"} /\ Running(outpt)
    /\ LET ends == {i \in 1 .. Len(scriptptr) : scriptptr[i] = "nl"}
           n == IF ends = {} THEN Len(scriptptr)
                ELSE CHOOSE i \in ends : \A j \in ends : i <= j IN
       file' = From(scriptptr, n) /\ scriptptr' = From(scriptptr, n)
    /\ outpt' = "script" /\ Goes
    /\ UNCHANGED <<filename, count>> /\ UNCHANGED outRest
\* PSOCK_CLOSE: everything was acknowledged.
CloseOutput ==
    /\ Running("end") /\ http' = "closing" /\ hcall' = "no" /\ outpt' = "start"
    /\ UNCHANGED <<seg, how, filename, file, scriptptr, count>> /\ UNCHANGED outRest

AppcallStep == ReadWord \/ InputDone \/ OpenFile \/ SendType \/ SendFile \/ StartScript \/ SendPart
               \/ ScriptDone \/ TcpStats \/ NetStats \/ NextScriptState \/ CloseOutput
HttpNext == HttpConnected \/ HttpRequest \/ HttpMore \/ HttpAcked \/ HttpPoll \/ HttpRexmit
            \/ HttpGone \/ OtherConn \/ AppcallStep

-----------------------------------------------------------------------------
\* The page as its author means it: each include replaced by the file, each call by its
\* output (rows left out, they depend on the moment), and script lines cut at their end.
Muted(text, i) ==   \* unit i is a script or on its line, after it
    \E j \in 1 .. i : IsCall(text[j]) /\ \A k \in j .. i - 1 : text[k] # "nl"
Numbers(n) == [k \in 1 .. n |-> "n"]
Shown(text, i) == IF text[i] \in Includes THEN Files[text[i]]
                  ELSE IF text[i] = "net" THEN Numbers(NumStats)
                  ELSE IF Muted(text, i) THEN <<>> ELSE <<text[i]>>
Written(text) ==    \* what the first i units come to
    LET after[i \in 0 .. Len(text)] == IF i = 0 THEN <<>> ELSE after[i - 1] \o Shown(text, i)
    IN  after
Page(name) == IF name \in Scripts THEN Written(Files[name])[Len(Files[name])] ELSE Files[name]
WithoutRows(s) ==
    LET kept[i \in 0 .. Len(s)] ==
            IF i = 0 THEN <<>>
            ELSE IF s[i] = "row" THEN kept[i - 1] ELSE Append(kept[i - 1], s[i])
    IN  kept[Len(s)]

\* The client gets the status, the type and the page of the file it asked for, from the
\* beginning and in order; a server that closes after an answer has sent all of it.  Other
\* bytes at some of its places come at most behind the type (psock_generator_send).
PageIsServed ==
    /\ (got # <<>>) =>
        LET text == WithoutRows(got)
            whole == <<IF got[1] = "200" THEN "200" ELSE "404", "type">> \o Page(filename) IN
        /\ Len(text) <= Len(whole) /\ text = SubSeq(whole, 1, Len(text))
        /\ http = "closing" /\ inpt = "lines" =>
              text = whole
    /\ spoilt => Len(got) > 2

\* The timer of uIP polls an idle connection and sends an outstanding segment again, or gives up.
TimerCall == HttpPoll \/ HttpRexmit \/ (nrtx = MaxRtx /\ HttpGone)
HttpFairness == /\ WF_httpVars(AppcallStep) /\ WF_httpVars(TimerCall)
                /\ WF_httpVars(http \in {"closing", "aborted"} /\ HttpGone)
HttpSpec == HttpInit /\ [][HttpNext]_httpVars
FairHttp == HttpSpec /\ HttpFairness
\* No client keeps a connection for ever, however its request stops half way and whether it
\* acknowledges or not, unless it goes on sending.
ConnectionEnds == (http = "up" ~> http = "none") \/ []<><<HttpMore>>_httpVars

\* Both: what a client gets is the page, and no client keeps the connection (httpd.c).
HttpServes == []PageIsServed /\ ConnectionEnds
=============================================================================
