--------------------------------- MODULE Uart ---------------------------------
(***************************************************************************)
(* The serial line of the OpenRISC simulator (uart.c): tasks that print by *)
(* polling, without masking interrupts, so that one may be preempted       *)
(* between reading the line status and writing the character.  The device  *)
(* is external: a transmit FIFO in front of a shift register; a character  *)
(* written to a full FIFO is lost.                                         *)
(***************************************************************************)
EXTENDS Integers, Sequences, FiniteSets

CONSTANTS
    Writer,     \* the tasks that print
    FifoSize,   \* what the FIFO holds when it is enabled
    Nibbles,    \* hexadecimal digits of an unsigned long, 8 in the code
    Prints      \* what is printed: [how, value], a string, or a number as "long" or "short"

VARIABLES
    depth,      \* how many characters the transmitter takes: FCR
    fifo, shift,    \* what waits, the first one first, and what is being sent (or <<>>)
    seen,       \* what the line has seen of each task
    rest,       \* what each task has still to print
    step,       \* where it is in uart_putc
    printing    \* ghost: what each task was asked to print, <<>> before

uartVars == <<depth, fifo, shift, seen, rest, step, printing>>
Char(t, c) == [by |-> t, char |-> c]

Digit == <<"0", "1", "2", "3", "4", "5", "6", "7", "8", "9", "a", "b", "c", "d", "e", "f">>
\* v shifted right by 0 to Nibbles hexadecimal digits
Shifted(v) == LET u[k \in 0 .. Nibbles] == IF k = 0 THEN v ELSE u[k - 1] \div 16 IN  u
Hex(v) == [i \in 1 .. Nibbles |-> Digit[(Shifted(v)[Nibbles - i] % 16) + 1]]
\* A task has at most one character in the FIFO, since it saw it empty before it wrote.  A
\* number to print fits in an unsigned long.
ASSUME UartAssumption ==
    /\ IsFiniteSet(Writer) /\ FifoSize \in Nat /\ Cardinality(Writer) <= FifoSize
    /\ Nibbles \in Nat \ {0}
    /\ \A p \in Prints :
          \/ p.how = "str" /\ p.value \in Seq(STRING)
          \/ p.how \in {"long", "short"} /\ p.value \in Nat /\ Shifted(p.value)[Nibbles] = 0

\* uart_print_str, uart_print_long and uart_print_short
PrintLong(v) == <<"0", "x">> \o Hex(v)
PrintShort(v) ==
    LET shown == {i \in 1 .. Nibbles : i = Nibbles \/ \E j \in 1 .. i : Hex(v)[j] # "0"} IN
    <<"0", "x">> \o SubSeq(Hex(v), CHOOSE i \in shown : \A j \in shown : i <= j, Nibbles)
Text(p) == IF p.how = "str" THEN p.value ELSE IF p.how = "long" THEN PrintLong(p.value) ELSE PrintShort(p.value)

\* Faulty variant of uart_init: the FIFO is left disabled.
UartInitNoFifo ==
    /\ depth = 1 /\ fifo = <<>> /\ shift = <<>> /\ seen = [t \in Writer |-> <<>>]
    /\ rest = seen /\ printing = seen /\ step = [t \in Writer |-> "out"]

\* uart_init clears both FIFOs and enables them.
UartInit ==
    /\ depth = FifoSize /\ fifo = <<>> /\ shift = <<>> /\ seen = [t \in Writer |-> <<>>]
    /\ rest = seen /\ printing = seen /\ step = [t \in Writer |-> "out"]

PrintCalled(t) ==
    /\ printing[t] = <<>>
    /\ \E p \in Prints : printing' = [printing EXCEPT ![t] = <<p>>] /\ rest' = [rest EXCEPT ![t] = Text(p)]
    /\ UNCHANGED <<depth, fifo, shift, seen, step>>

Goes(t, from, to) == step[t] = from /\ step' = [step EXCEPT ![t] = to]
\* A write to the transmit register
Tx(t, c) == /\ fifo' = IF Len(fifo) < depth THEN Append(fifo, Char(t, c)) ELSE fifo
            /\ UNCHANGED <<depth, shift, seen, printing>>
device == <<depth, fifo, shift, seen, printing>>

\* uart_putc of Head(rest[t])
WaitForThre(t) == /\ rest[t] # <<>> /\ fifo = <<>> /\ Goes(t, "out", "tx")
                  /\ UNCHANGED device /\ UNCHANGED rest
WriteTx(t) == /\ Goes(t, "tx", IF Head(rest[t]) = "nl" THEN "nl" ELSE "sent")
              /\ Tx(t, Head(rest[t])) /\ UNCHANGED rest
WaitForThreNl(t) == fifo = <<>> /\ Goes(t, "nl", "cr") /\ UNCHANGED device /\ UNCHANGED rest
WriteCr(t) == Goes(t, "cr", "sent") /\ Tx(t, "cr") /\ UNCHANGED rest
WaitForXmitr(t) == /\ fifo = <<>> /\ shift = <<>> /\ Goes(t, "sent", "out")
                   /\ rest' = [rest EXCEPT ![t] = Tail(@)] /\ UNCHANGED device

\* The device (external)
Shift == \/ /\ shift = <<>> /\ fifo # <<>> /\ shift' = <<Head(fifo)>> /\ fifo' = Tail(fifo)
            /\ UNCHANGED <<depth, seen, rest, step, printing>>
         \/ /\ shift # <<>> /\ shift' = <<>>
            /\ seen' = [seen EXCEPT ![shift[1].by] = Append(@, shift[1].char)]
            /\ UNCHANGED <<depth, fifo, rest, step, printing>>

UartNext == \/ Shift
            \/ \E t \in Writer : PrintCalled(t) \/ WaitForThre(t) \/ WriteTx(t) \/ WaitForThreNl(t)
                                 \/ WriteCr(t) \/ WaitForXmitr(t)
UartSpec == UartInit /\ [][UartNext]_uartVars

-----------------------------------------------------------------------------
ValueOf(digits) ==
    LET v[i \in 0 .. Len(digits)] == IF i = 0 THEN 0 ELSE v[i - 1] * 16 + CHOOSE d \in 0 .. 15 : Digit[d + 1] = digits[i]
    IN  v[Len(digits)]
\* A carriage return follows each newline.
Wired(s) == LET w[i \in 0 .. Len(s)] ==
                    IF i = 0 THEN <<>> ELSE w[i - 1] \o (IF s[i] = "nl" THEN <<"nl", "cr">> ELSE <<s[i]>>)
            IN  w
Wire(s) == Wired(s)[Len(s)]
\* What the line is to see of a print: a string as it is, numbers in full or without leading
\* zeros.
Right(p, s) ==
    IF p.how = "str" THEN s = Wire(p.value)
    ELSE /\ SubSeq(s, 1, 2) = <<"0", "x">> /\ ValueOf(SubSeq(s, 3, Len(s))) = p.value
         /\ p.how = "long" => Len(s) = Nibbles + 2
         /\ p.how = "short" => Len(s) = 3 \/ s[3] # "0"

\* However the tasks are preempted, when a task's print returns the line has seen all of it,
\* in order; between two characters none is on its way (uart_putc, uart_init).
PrintsArrive ==
    \A t \in Writer : step[t] = "out" =>
        /\ \A i \in 1 .. Len(fifo \o shift) : (fifo \o shift)[i].by # t
        /\ printing[t] # <<>> /\ rest[t] = <<>> => Right(printing[t][1], seen[t])
=============================================================================
