-------------------------------- MODULE Shell --------------------------------
(***************************************************************************)
(* The shell of middleware/shell_parser: export puts a symbol into the     *)
(* next of the ten nodes _malloc and at the front of the list at sym_head, *)
(* the shell thread reads a line and the parser calls the function of the  *)
(* first symbol of that name.  A pointer is the index of a node, sym_head  *)
(* is HEAD and the null pointer NIL.                                       *)
(***************************************************************************)
EXTENDS Integers, Sequences

CONSTANTS Words,    \* names, and other lines that are typed
          Nodes     \* number of nodes in _malloc

HEAD == 0
NIL == -1
NoText == "no text"     \* a buffer or a name of zero bytes
ASSUME ShellAssumption == Nodes \in Nat /\ NoText \notin Words

VARIABLES symNext,  \* the list's next pointers: HEAD or a node -> a node or NIL
          symName,  \* node -> the name it was exported with, NoText if it was not
          buffCmd,  \* the line in buff_cmd, NoText if it is cleared
          prompt,   \* the thread: "read" waits for a line, "parse", "delay"
          ran,      \* ghost: the node whose function the last line ran, NIL if not found
          asked     \* ghost: that line and the nodes there were

shellVars == <<symNext, symName, buffCmd, prompt, ran, asked>>
Used == {n \in 1 .. Nodes : symName[n] # NoText}

ShellInit == /\ symNext = [n \in 0 .. Nodes |-> NIL] /\ symName = [n \in 1 .. Nodes |-> NoText]
             /\ buffCmd = NoText /\ prompt = "read" /\ ran = NIL /\ asked = <<NoText, {}>>

\* Faulty variant: at the end of the list.
ListInsertLast(next, node) ==
    LET last == CHOOSE n \in 0 .. Nodes :
                   next[n] = NIL /\ (n # HEAD => \E m \in 0 .. Nodes : next[m] = n)
    IN  [next EXCEPT ![last] = node]

\* symbol__list_insert(node): in front of the list.
ListInsert(next, node) == [next EXCEPT ![node] = next[HEAD], ![HEAD] = node]
\* export, called by shell_init or by a function the shell runs; a program exports no more
\* than _malloc holds.
Export(name) ==
    /\ Used # 1 .. Nodes
    /\ LET temp == CHOOSE n \in 1 .. Nodes \ Used : \A m \in 1 .. Nodes \ Used : n <= m IN
       symName' = [symName EXCEPT ![temp] = name] /\ symNext' = ListInsert(symNext, temp)
    /\ UNCHANGED <<buffCmd, prompt, ran, asked>>

\* shell_thread: a line, or an empty one; buff_cmd holds any line up to its 128 characters.
ReadLine == /\ prompt = "read"
            /\ \/ \E w \in Words : buffCmd' = w /\ prompt' = "parse"
               \/ prompt' = "delay" /\ UNCHANGED buffCmd
            /\ UNCHANGED <<symNext, symName, ran, asked>>
\* The node after `node` that has the name cmd, NIL at the end of the list.
SymWalk(cmd) ==
    LET at[k \in 0 .. Nodes] ==     \* the node the walk is at after k steps
            IF k = 0 THEN symNext[HEAD]
            ELSE IF at[k - 1] = NIL \/ symName[at[k - 1]] = cmd THEN at[k - 1]
            ELSE symNext[at[k - 1]]
    IN  at[Nodes]
Parser == /\ prompt = "parse" /\ ran' = SymWalk(buffCmd) /\ asked' = <<buffCmd, Used>>
          /\ buffCmd' = NoText /\ prompt' = "delay" /\ UNCHANGED <<symNext, symName>>
OsDelayOne == prompt = "delay" /\ prompt' = "read"
              /\ UNCHANGED <<symNext, symName, buffCmd, ran, asked>>

ShellNext == (\E w \in Words : Export(w)) \/ ReadLine \/ Parser \/ OsDelayOne
ShellSpec == ShellInit /\ [][ShellNext]_shellVars

-----------------------------------------------------------------------------
\* A line runs the symbol that was exported last under its name, of those there were when
\* it was parsed, and is "not found" exactly if there was none (shell.c parser).
RunsLatest ==
    prompt = "delay" /\ asked[1] # NoText =>
        LET named == {n \in asked[2] : symName[n] = asked[1]} IN
        IF named = {} THEN ran = NIL ELSE ran \in named /\ \A n \in named : n <= ran
=============================================================================
