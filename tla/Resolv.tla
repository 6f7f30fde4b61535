------------------------------- MODULE Resolv -------------------------------
(***************************************************************************)
(* The DNS resolver resolv.c: a table of names, queries sent one per poll  *)
(* of its UDP connection, answers taken by the index of their entry.       *)
(* Queries and answers may be lost, repeated and delayed.                  *)
(***************************************************************************)
EXTENDS Integers

CONSTANTS
    Hostnames,
    RESOLV_ENTRIES,
    MAX_RETRIES,
    SeqNoMod          \* values of seqno, a u8_t

NoName == "no name"
ASSUME ResolvAssumption ==
    /\ RESOLV_ENTRIES \in Nat \ {0} /\ MAX_RETRIES \in Nat \ {0, 1} /\ SeqNoMod \in Nat \ {0}

VARIABLES
    names,          \* the table; ipaddr is the host whose address it holds
    seqno,
    resolv_conn,    \* the UDP connection exists
    asked,          \* the queries that were sent: entry and name
    found           \* the last resolv_found: name and address

resolvVars == <<names, seqno, resolv_conn, asked, found>>
EntryNo == 1 .. RESOLV_ENTRIES
Pending(i) == names[i].state \in {"NEW", "ASKING"}

\* resolv_init: an entry is DONE, and so never UNUSED again.
ResolvInit ==
    /\ names = [i \in EntryNo |-> [state |-> "DONE", tmr |-> 0, retries |-> 0, seqno |-> 0,
                                   name |-> NoName, ipaddr |-> NoName]]
    /\ seqno = 0 /\ resolv_conn = FALSE /\ asked = {}
    /\ found = [name |-> NoName, ipaddr |-> NoName]

ResolvConf == /\ resolv_conn' = TRUE /\ ~resolv_conn
              /\ UNCHANGED <<names, seqno, asked, found>>

\* The entry that resolv_query takes: of the differences above 0 the first that is largest; the
\* difference of two u8_t is an int and negative when seqno has wrapped around.
Age(i) == seqno - names[i].seqno
Reused == LET old == {i \in EntryNo : Age(i) > 0} IN
    IF old = {} THEN 1
    ELSE CHOOSE i \in old : \A j \in old : Age(j) < Age(i) \/ (Age(j) = Age(i) /\ i <= j)

ResolvQuery(n) ==
    /\ names' = [names EXCEPT ![Reused] = [@ EXCEPT !.name = n, !.state = "NEW", !.seqno = seqno]]
    /\ seqno' = (seqno + 1) % SeqNoMod
    /\ UNCHANGED <<resolv_conn, asked, found>>

\* check_entries.  What becomes of an entry: its timer runs down, it gives up, or it is asked for.
TimeLeft(i) == names[i].state = "ASKING" /\ names[i].tmr > 1
RetryFails(i) == names[i].state = "ASKING" /\ names[i].tmr = 1 /\ names[i].retries + 1 = MAX_RETRIES
Asks(i) == Pending(i) /\ ~TimeLeft(i) /\ ~RetryFails(i)
\* The walk stops behind the first entry that it sends a query for.
Walked == IF \A i \in EntryNo : ~Asks(i) THEN EntryNo
          ELSE {i \in EntryNo : \A j \in EntryNo : j < i => ~Asks(j)}
\* Faulty variant: the retries are not counted.
CheckedUncounted(i) ==
    CASE TimeLeft(i) -> [names[i] EXCEPT !.tmr = @ - 1]
      [] RetryFails(i) -> [names[i] EXCEPT !.tmr = 0, !.retries = @ + 1, !.state = "ERROR"]
      [] names[i].state = "NEW" -> [names[i] EXCEPT !.state = "ASKING", !.tmr = 1, !.retries = 0]
      [] names[i].state = "ASKING" /\ Asks(i) -> [names[i] EXCEPT !.tmr = names[i].retries + 1]
      [] OTHER -> names[i]

Checked(i) ==
    CASE TimeLeft(i) -> [names[i] EXCEPT !.tmr = @ - 1]
      [] RetryFails(i) -> [names[i] EXCEPT !.tmr = 0, !.retries = @ + 1, !.state = "ERROR"]
      [] names[i].state = "NEW" -> [names[i] EXCEPT !.state = "ASKING", !.tmr = 1, !.retries = 0]
      [] names[i].state = "ASKING" /\ Asks(i) ->
            [names[i] EXCEPT !.retries = @ + 1, !.tmr = names[i].retries + 1]
      [] OTHER -> names[i]
ResolvPoll ==
    /\ resolv_conn
    /\ names' = [i \in EntryNo |-> IF i \in Walked THEN Checked(i) ELSE names[i]]
    /\ asked' = asked \cup {<<i, names[i].name>> : i \in {j \in Walked : Asks(j)}}
    /\ found' \in LET failed == {i \in Walked : RetryFails(i)} IN
                  IF failed = {} THEN {found}
                  ELSE {[name |-> names[i].name, ipaddr |-> NoName] : i \in failed}
    /\ UNCHANGED <<seqno, resolv_conn>>

\* newdata: an answer to the query <<i, n>> with an error, with an address, or without
ResolvAnswer(i, n) ==
    /\ resolv_conn /\ <<i, n>> \in asked /\ names[i].state = "ASKING"
    /\ \/ /\ names' = [names EXCEPT ![i].state = "ERROR"]
          /\ found' = [name |-> names[i].name, ipaddr |-> NoName]
       \/ /\ names' = [names EXCEPT ![i].state = "DONE", ![i].ipaddr = n]
          /\ found' = [name |-> names[i].name, ipaddr |-> n]
       \/ /\ names' = [names EXCEPT ![i].state = "DONE"]
          /\ UNCHANGED found
    /\ UNCHANGED <<seqno, resolv_conn, asked>>

ResolvNext == \/ ResolvConf \/ ResolvPoll \/ (\E n \in Hostnames : ResolvQuery(n))
              \/ \E i \in EntryNo, n \in Hostnames : ResolvAnswer(i, n)
ResolvSpec == ResolvInit /\ [][ResolvNext]_resolvVars
\* uIP's periodic timer polls the connection for ever.
FairResolv == ResolvSpec /\ WF_resolvVars(ResolvPoll)

-----------------------------------------------------------------------------
\* Unless the program queries for ever, no name stays pending: one query per poll and the
\* growing retry intervals starve no entry.
QueryEnds ==
    \/ []<><<\E n \in Hostnames : ResolvQuery(n)>>_resolvVars
    \/ \A i \in EntryNo : [](resolv_conn => <>(~Pending(i)))
=============================================================================
