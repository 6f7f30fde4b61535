------------------------------- MODULE FosLibc -------------------------------
(***************************************************************************)
(* The C library of libc/: itoa and print of printf.c, fos_strcmp and the  *)
(* memory functions of lib.c, by what they compute, and uiplib_ipaddrconv  *)
(* of uIP's library.  A string is a sequence of character codes without    *)
(* its final 0.                                                            *)
(***************************************************************************)
EXTENDS Integers, Sequences

CONSTANTS MaxVal,       \* bound on the values printed
          Radix, Chars, MaxLen,
          Items,        \* pieces of format strings: [format, args, text]
          MaxItems,     \* bound on the pieces of one format
          MemSize,      \* bytes of memory
          Parts         \* what an IP address is written with between its dots

\* The last call: its two arguments and its result as sequences, a number as <<number>>.
VARIABLES op, arg, result
libcVars == <<op, arg, result>>

\* itoa, first loop: the digits of val from the last to the first, at least one.
Digits(val, radix) ==
    LET left[i \in 0 .. val + 1] == IF i = 0 THEN val ELSE left[i - 1] \div radix    \* val after i rounds
        n == CHOOSE i \in 1 .. val + 1 : left[i] = 0 /\ \A j \in 1 .. i - 1 : left[j] # 0
    IN  [i \in 1 .. n |-> left[i - 1] % radix]
\* Second loop: the ends are exchanged until firstdig meets p; it runs once at least.
Swap(s, a, b) == [s EXCEPT ![a] = s[b], ![b] = s[a]]
\* Faulty variant: the loop ends one exchange early.
ReversedShort(s) ==
    LET after[k \in 0 .. Len(s)] == IF k = 0 THEN s ELSE Swap(after[k - 1], k, Len(s) + 1 - k)
    IN  after[(Len(s) \div 2) - (IF Len(s) > 3 THEN 1 ELSE 0)]

Reversed(s) ==
    LET rounds == CHOOSE k \in 1 .. Len(s) : 1 + k >= Len(s) - k
                                             /\ \A j \in 1 .. k - 1 : 1 + j < Len(s) - j
        after[k \in 0 .. rounds] == IF k = 0 THEN s ELSE Swap(after[k - 1], k, Len(s) + 1 - k)
    IN  after[rounds]
Itoa(val, radix) == Reversed(Digits(val, radix))

\* fos_strcmp: character by character, the final 0 included.
At(s, i) == IF i <= Len(s) THEN s[i] ELSE 0
Strcmp(cs, ct) ==
    LET stop == CHOOSE i \in 1 .. Len(cs) + 1 :
                    /\ At(cs, i) # At(ct, i) \/ At(cs, i) = 0
                    /\ \A j \in 1 .. i - 1 : At(cs, j) = At(ct, j) /\ At(cs, j) # 0
    IN  IF At(cs, stop) = At(ct, stop) THEN 0 ELSE IF At(cs, stop) < At(ct, stop) THEN -1 ELSE 1

\* print: a character of the format after the other, those after % by their conversion.
DigitChar == <<"0", "1", "2", "3", "4", "5", "6", "7", "8", "9", "a", "b", "c", "d", "e", "f">>
Number(val, radix) == LET s == Itoa(val, radix) IN [i \in DOMAIN s |-> DigitChar[s[i] + 1]]
Conversions == {"c", "d", "i", "o", "x", "s"}
Converted(c, a) == CASE c = "c" -> <<a>>
                     [] c \in {"d", "i"} -> Number(a, 10)
                     [] c = "o" -> Number(a, 8)
                     [] c = "x" -> Number(a, 16)
                     [] OTHER -> a
PrintStep(format, args, s) ==
    IF format[s.at] # "%" THEN [at |-> s.at + 1, arg |-> s.arg, out |-> Append(s.out, format[s.at])]
    ELSE IF format[s.at + 1] \in Conversions
    THEN [at |-> s.at + 2, arg |-> s.arg + 1, out |-> s.out \o Converted(format[s.at + 1], args[s.arg])]
    ELSE [s EXCEPT !.at = @ + 2]
Printed(format, args) ==
    LET run[k \in 0 .. Len(format)] ==
            IF k = 0 THEN [at |-> 1, arg |-> 1, out |-> <<>>]
            ELSE IF run[k - 1].at > Len(format) THEN run[k - 1] ELSE PrintStep(format, args, run[k - 1])
    IN  run[Len(format)].out

\* fos_memcpy, fos_memset, fos_strlen and fos_memchr on memory m from address a on
\* Faulty variant: the last byte is copied first.
MemcpyBackwards(m, to, from, n) ==
    LET copy[k \in 0 .. n] == IF k = 0 THEN m
            ELSE [copy[k - 1] EXCEPT ![to + n - k] = copy[k - 1][from + n - k]]
    IN  copy[n]

Memcpy(m, to, from, n) ==
    LET copy[k \in 0 .. n] == IF k = 0 THEN m
            ELSE [copy[k - 1] EXCEPT ![to + k - 1] = copy[k - 1][from + k - 1]]
    IN  copy[n]
Memset(m, a, byte, n) == [i \in DOMAIN m |-> IF i \in a .. a + n - 1 THEN byte ELSE m[i]]
Strlen(m, a) == (CHOOSE p \in DOMAIN m : p >= a /\ m[p] = 0 /\ \A q \in a .. p - 1 : m[q] # 0) - a
Memchr(m, a, c, n) == LET hits == {p \in a .. a + n - 1 : m[p] = c} IN
    IF hits = {} THEN 0 ELSE CHOOSE p \in hits : \A q \in hits : p <= q

\* uiplib_ipaddrconv: digits stand for themselves; it reads four parts, whether or not the
\* string ends before.  <<>> stands for its result 0.
Dot == 10
Letter == 11
Nul == 12
ConvStep(s, c) ==
    IF s.st = "failed" \/ Len(s.out) = 4 THEN s
    ELSE IF s.j = 4 \/ c = Letter THEN [s EXCEPT !.st = "failed"]
    ELSE IF c \in {Dot, Nul} THEN [st |-> s.st, out |-> Append(s.out, s.tmp), tmp |-> 0, j |-> 0]
    ELSE [st |-> s.st, out |-> s.out, tmp |-> (s.tmp * 10 + c) % 256, j |-> s.j + 1]
IpAddrConv(memory) ==
    LET read[i \in 0 .. Len(memory)] ==
            IF i = 0 THEN [st |-> "reading", out |-> <<>>, tmp |-> 0, j |-> 0]
            ELSE ConvStep(read[i - 1], memory[i])
    IN  IF read[Len(memory)].st = "failed" THEN <<>> ELSE read[Len(memory)].out

\* What the parameters are: a piece of a format is a character other than %, or % and a
\* conversion with its argument, or % and another character, which prints nothing.
IsPiece(x) ==
    \/ x.format = <<x.format[1]>> /\ x.format[1] # "%" /\ x.args = <<>> /\ x.text = x.format
    \/ /\ x.format = <<"%", x.format[2]>> /\ x.text \in Seq(STRING)
       /\ IF x.format[2] \in Conversions
          THEN x.args = <<x.args[1]>> /\ x.text = Converted(x.format[2], x.args[1])
          ELSE x.args = <<>> /\ x.text = <<>>
ASSUME LibcAssumption ==
    /\ {MaxVal, MaxLen, MaxItems, MemSize} \subseteq Nat
    /\ Radix \subseteq Nat \ {0, 1} /\ Chars \subseteq Nat \ {0}
    /\ \A x \in Items : IsPiece(x)
    /\ \A p \in Parts : p \in Seq(0 .. 9 \cup {Letter})

Strings == UNION {[1 .. n -> Chars] : n \in 0 .. MaxLen}
LibcInit == op = "none" /\ arg = <<>> /\ result = <<>>
CallItoa == \E val \in 0 .. MaxVal, radix \in Radix :
                op' = "itoa" /\ arg' = <<<<val>>, <<radix>>>> /\ result' = Itoa(val, radix)
CallStrcmp == \E cs, ct \in Strings :
                  op' = "strcmp" /\ arg' = <<cs, ct>> /\ result' = <<Strcmp(cs, ct)>>
Joined(parts) ==
    LET all[i \in 0 .. Len(parts)] == IF i = 0 THEN <<>> ELSE all[i - 1] \o parts[i]
    IN  all[Len(parts)]
CallPrint ==
    \E n \in 0 .. MaxItems : \E items \in [1 .. n -> Items] :
        LET format == Joined([i \in 1 .. n |-> items[i].format])
            args   == Joined([i \in 1 .. n |-> items[i].args])
        IN  /\ op' = "print" /\ arg' = <<Joined([i \in 1 .. n |-> items[i].text])>>
            /\ result' = Printed(format, args)
Memories == [1 .. MemSize -> {0} \cup Chars]
CallMemory ==
    \E m \in Memories, a, b \in 1 .. MemSize : \E n \in 0 .. MemSize + 1 - (IF a > b THEN a ELSE b) :
        /\ arg' = <<m, <<a, b, n>>>>
        /\ \/ op' = "memcpy" /\ result' = Memcpy(m, a, b, n)
           \/ op' = "memset" /\ result' = Memset(m, a, m[b], n)
           \/ op' = "memchr" /\ result' = <<Memchr(m, a, m[b], n)>>
           \/ /\ \E p \in a .. MemSize : m[p] = 0
              /\ op' = "strlen" /\ result' = <<Strlen(m, a)>>
\* What lies behind the string is anything.
CallIpAddrConv ==
    \E parts \in [1 .. 4 -> Parts], beyond \in {<<Letter>>, <<Dot, 1, Nul>>} :
        /\ op' = "ipaddrconv" /\ arg' = parts
        /\ result' = IpAddrConv(parts[1] \o <<Dot>> \o parts[2] \o <<Dot>> \o parts[3] \o <<Dot>>
                                \o parts[4] \o <<Nul>> \o beyond)
LibcNext == op = "none" /\ (CallItoa \/ CallStrcmp \/ CallPrint \/ CallMemory \/ CallIpAddrConv)
LibcSpec == LibcInit /\ [][LibcNext]_libcVars

-----------------------------------------------------------------------------
Value(digits, radix) ==
    LET v[i \in 0 .. Len(digits)] == IF i = 0 THEN 0 ELSE v[i - 1] * radix + digits[i]
    IN  v[Len(digits)]
Before(s, t) == \E i \in 1 .. Len(t) : (\A j \in 1 .. i - 1 : At(s, j) = t[j]) /\ At(s, i) < t[i]

\* itoa gives the number, first digit first and without leading zeros; fos_strcmp orders
\* strings as a dictionary does and is 0 for equal ones only; print writes the pieces of its
\* format one after the other, each with its own arguments; uiplib_ipaddrconv
\* takes four numbers of up to three digits and nothing else (when there are three dots).
LibcIsRight ==
    /\ op = "itoa" => LET val == arg[1][1]  radix == arg[2][1] IN
                      /\ Value(result, radix) = val /\ \A i \in DOMAIN result : result[i] < radix
                      /\ Len(result) > 1 => result[1] # 0
    /\ op = "strcmp" => result = IF arg[1] = arg[2] THEN <<0>> ELSE IF Before(arg[1], arg[2]) THEN <<-1>> ELSE <<1>>
    /\ op = "print" => result = arg[1]
    /\ op = "ipaddrconv" => result = IF \A i \in 1 .. 4 : Len(arg[i]) < 4 /\ \A k \in DOMAIN arg[i] : arg[i][k] < 10
                                     THEN [i \in 1 .. 4 |-> Value(arg[i], 10) % 256] ELSE <<>>

\* The memory functions touch what they are given and nothing else; fos_memcpy moves data
\* downwards over itself, too (not upwards); fos_strlen and fos_memchr stop at the first match.
MemoryIsRight ==
    op \in {"memcpy", "memset", "memchr", "strlen"} =>
        LET m == arg[1]  a == arg[2][1]  b == arg[2][2]  n == arg[2][3]
            target == a .. a + n - 1
        IN  CASE op = "memcpy" -> a <= b \/ a >= b + n =>
                     result = [i \in DOMAIN m |-> IF i \in target THEN m[b + i - a] ELSE m[i]]
              [] op = "memset" -> \A i \in DOMAIN m : result[i] = IF i \in target THEN m[b] ELSE m[i]
              [] op = "memchr" -> IF result[1] = 0 THEN \A i \in target : m[i] # m[b]
                                  ELSE \A i \in a .. result[1] : m[i] = m[b] <=> i = result[1]
              [] OTHER -> \A i \in a .. a + result[1] : m[i] = 0 <=> i = a + result[1]
=============================================================================
