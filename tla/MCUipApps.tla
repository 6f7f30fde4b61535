------------------------------ MODULE MCUipApps ------------------------------
(* The applications of uIP on small inputs: one behaviour exercises one of *)
(* them, `service`, and leaves the others alone.                           *)
EXTENDS Psock, Webclient, Smtp, Telnetd, Resolv, Httpd, Protothread

VARIABLE service
appsVars == <<psVars, webVars, smtpVars, tnVars, resolvVars, httpVars, ptVars, service>>

\* Protothreads whose sends fit into one segment, and that generate only where no packet
\* is lost; hello-world.c is the last but one.
MCPrograms ==
    {[ops |-> <<Op("read", 3), Op("send", 2), Op("send", 0), Op("send", 1), Op("read", 2), Op("send", 1)>>,
      loss |-> TRUE],
     [ops |-> <<Op("read", 1), Op("generate", 2), Op("read", 2), Op("send", 1), Op("generate", 1)>>,
      loss |-> FALSE],
     [ops |-> <<Op("send", 1), Op("read", 3), Op("send", 2), Op("send", 2)>>, loss |-> TRUE],
     [ops |-> <<Op("read", 2), Op("read", 3), Op("send", 1)>>, loss |-> TRUE]}

\* Answers: a page in two units a line, a redirection, a page behind a header line that is
\* too long, and no HTTP.
AfterStatus == <<Unit("other", FALSE), Unit("other", TRUE), Unit("blank", TRUE),
                 Unit("body", FALSE), Unit("body", TRUE)>>
MCResponses ==
    {<<Unit("200", FALSE), Unit("200", TRUE)>> \o AfterStatus,
     <<Unit("301", TRUE)>> \o AfterStatus,
     <<Unit("404", TRUE)>> \o [i \in 1 .. 3 |-> Unit("other", FALSE)] \o AfterStatus,
     <<Unit("bad", TRUE)>>}

MCInputs == {<<"word", "nl">>, <<"?", "cr", "nl">>, <<"exit", "nl", "word">>,
             <<"iac", "will", "word">>, <<"do">>, <<"iac", "iac">>}

MCFiles == [n \in {"/i", "/404", "/s.shtml", "/t.shtml", "/h"} |->
    CASE n = "/i" -> <<"x", "%", "x", "nl", "x">>
      [] n = "/404" -> <<"x">>
      [] n = "/h" -> <<"x", "nl", "%">>
      [] n = "/t.shtml" -> <<"x", "tcp", "nl", "/h", "x">>
      [] OTHER -> <<"/h", "nl", "x", "x", "x", "x", "%", "x", "nl", "tcp", "x", "nl", "%", "x",
                    "net", "nl", "null", "nl", "x">>]
MCRequests == {<<"GET", "/", "line">>, <<"GET", "/s.shtml", "line", "line">>, <<"GET", "/no">>,
               <<"GET", "/t.shtml">>, <<"GET">>, <<"POST", "line">>, <<"GET", "nopath", "GET", "/">>}

\* A handler with PSOCK_SENDs, handle_output of httpd.c with its scripts, handle_dhcp; of
\* their children psock_send, a script and one that restarts, as psock_readto may.
MCBodies == {[parent |-> p, child |-> c] :
    p \in {<<"plain", "run", "plain", "run", "exit">>, <<"wait", "spawn", "plain", "spawn">>,
           <<"plain", "wait", "yield", "yield_until", "restart">>, <<"yield", "run">>},
    c \in {<<"plain", "wait", "plain", "wait">>, <<"wait", "exit">>, <<>>, <<"wait", "restart">>}}

\* What the service that runs does not use starts in one of its initial states.
AppsInit ==
    /\ service \in {"psock", "web", "smtp", "telnet", "resolv", "httpd", "pt"}
    /\ PsockInit /\ WebInit /\ SmtpInit /\ TelnetInit /\ ResolvInit /\ HttpInit /\ PtInit
    /\ service # "psock" => program = CHOOSE p \in Programs : TRUE
    /\ service # "pt" => fn = CHOOSE b \in Bodies : TRUE
    /\ service # "smtp" => ~cc
    /\ service # "telnet" => patient /\ polite /\ alone

AppsNext ==
    \/ /\ service = "psock" /\ PsockNext
       /\ UNCHANGED <<webVars, smtpVars, tnVars, resolvVars, httpVars, ptVars, service>>
    \/ /\ service = "web" /\ WebNext
       /\ UNCHANGED <<psVars, smtpVars, tnVars, resolvVars, httpVars, ptVars, service>>
    \/ /\ service = "smtp" /\ SmtpNext
       /\ UNCHANGED <<psVars, webVars, tnVars, resolvVars, httpVars, ptVars, service>>
    \/ /\ service = "telnet" /\ TelnetNext
       /\ UNCHANGED <<psVars, webVars, smtpVars, resolvVars, httpVars, ptVars, service>>
    \/ /\ service = "resolv" /\ ResolvNext
       /\ UNCHANGED <<psVars, webVars, smtpVars, tnVars, httpVars, ptVars, service>>
    \/ /\ service = "httpd" /\ HttpNext
       /\ UNCHANGED <<psVars, webVars, smtpVars, tnVars, resolvVars, ptVars, service>>
    \/ /\ service = "pt" /\ PtNext
       /\ UNCHANGED <<psVars, webVars, smtpVars, tnVars, resolvVars, httpVars, service>>

\* The fairness of FairResolv and FairHttp.
FairApps == AppsInit /\ [][AppsNext]_appsVars /\ WF_resolvVars(ResolvPoll) /\ HttpFairness

-----------------------------------------------------------------------------
\* Protosockets and the protothreads they are made of: both directions over any cutting into
\* segments, losses and retransmissions, and statements in order whatever call runs them.
ThreadsSafe == PsockSafe /\ ProtothreadSafe
=============================================================================
