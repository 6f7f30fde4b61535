------------------------------ MODULE UipArith ------------------------------
(***************************************************************************)
(* The arithmetic of uIP on octets (uip.c, uip-fw.c): 32-bit sequence      *)
(* numbers held in four bytes, and the Internet checksum with its          *)
(* incremental updates.  A byte has Base values (256 in the code), so that *)
(* every carry can be checked on a small base.                             *)
(***************************************************************************)
EXTENDS Integers, Sequences

CONSTANTS
    Base,       \* values of a byte
    MaxData     \* bound: bytes summed up

ASSUME ArithAssumption ==
    /\ Base \in Nat \ {0, 1} /\ MaxData \in Nat
    /\ MaxData + 1 < Base * Base      \* a length fits in a word (uip_len is a u16_t)

VARIABLES
    nxt,    \* a sequence number, most significant byte first (rcv_nxt, iss)
    total,  \* the number it stands for, reduced modulo Base^4
    data    \* bytes that are checksummed

arithVars == <<nxt, total, data>>

Byte == 0 .. Base - 1
Word == 0 .. Base * Base - 1
Up(x) == (x + 1) % Base         \* ++ on a byte

\* uip_add32: the low two bytes are added one by one, each carry by itself.
UipAdd32(op32, op16) ==
    LET hi == op16 \div Base
        lo == op16 % Base
        b4 == (op32[4] + lo) % Base
        b3 == (op32[3] + hi) % Base
        a2 == IF b3 < hi THEN Up(op32[2]) ELSE op32[2]
        a1 == IF b3 < hi /\ a2 = 0 THEN Up(op32[1]) ELSE op32[1]
        c3 == IF b4 < lo THEN Up(b3) ELSE b3
        c2 == IF b4 < lo /\ c3 = 0 THEN Up(a2) ELSE a2
        c1 == IF b4 < lo /\ c3 = 0 /\ c2 = 0 THEN Up(a1) ELSE a1
    IN  <<c1, c2, c3, b4>>

\* The chain of increments on iss and on the acknowledgement of a reset.
Increment(q) ==
    LET d4 == Up(q[4])
        d3 == IF d4 = 0 THEN Up(q[3]) ELSE q[3]
        d2 == IF d4 = 0 /\ d3 = 0 THEN Up(q[2]) ELSE q[2]
        d1 == IF d4 = 0 /\ d3 = 0 /\ d2 = 0 THEN Up(q[1]) ELSE q[1]
    IN  <<d1, d2, d3, d4>>

Htons(w) == (w % Base) * Base + w \div Base

\* Faulty variant: the carry is lost.
AddWordNoCarry(sum, t) == (sum + t) % (Base * Base)

\* sum += t; if(sum < t) sum++
AddWord(sum, t) ==
    LET s == (sum + t) % (Base * Base) IN IF s < t THEN (s + 1) % (Base * Base) ELSE s

\* chksum: the words of the data, an odd last byte as the high half of a word.
WordCount(d) == (Len(d) + 1) \div 2
WordAt(d, i) == d[2 * i - 1] * Base + (IF 2 * i <= Len(d) THEN d[2 * i] ELSE 0)
Chksum(sum, d) ==
    LET after[i \in 0 .. WordCount(d)] ==
            IF i = 0 THEN sum ELSE AddWord(after[i - 1], WordAt(d, i))
    IN  after[WordCount(d)]
UipChksum(d) == Htons(Chksum(0, d))

\* upper_layer_chksum and uip_ipchksum hand out a zero sum as all ones.
HeaderChksum(sum, d) == LET s == Chksum(sum, d) IN IF s = 0 THEN Base * Base - 1 ELSE Htons(s)

\* upper_layer_chksum: the pseudo header, protocol number 1, then the segment.
UpperLayerChksum(addrs, segment) == HeaderChksum(Chksum(Len(segment) + 1, addrs), segment)
\* The checksum field of a segment that is sent, as it lies in memory; a UDP checksum of 0
\* would say that there is none.
SentChksum(addrs, rest, udp) ==
    LET v == Base * Base - 1 - UpperLayerChksum(addrs, <<0, 0>> \o rest)
        w == IF udp /\ v = 0 THEN Base * Base - 1 ELSE v
    IN  <<w % Base, w \div Base>>

\* A word of the packet, high byte h, has been replaced by one that is h * Base
\* smaller; the checksum field (as the little-endian processor reads it) is
\* adjusted instead of summed again: the ECHO type and the TTL.
AdjustedChksum(field, h) ==
    IF field >= Htons(Base * Base - 1 - h * Base)
    THEN (field + Htons(h * Base) + 1) % (Base * Base)
    ELSE (field + Htons(h * Base)) % (Base * Base)
-----------------------------------------------------------------------------
ArithInit == nxt = <<0, 0, 0, 0>> /\ total = 0 /\ data = <<>>

\* uip_add_rcv_nxt
UipAddRcvNxt(n) == /\ nxt' = UipAdd32(nxt, n)
                   /\ total' = (total + n) % (Base * Base * Base * Base)
                   /\ UNCHANGED data

TimerIss == /\ nxt' = Increment(nxt)
            /\ total' = (total + 1) % (Base * Base * Base * Base)
            /\ UNCHANGED data

MoreData(b) == /\ Len(data) < MaxData
               /\ data' = Append(data, b)
               /\ UNCHANGED <<nxt, total>>

ArithNext == \/ data = <<>> /\ (TimerIss \/ \E n \in Word : UipAddRcvNxt(n))
             \/ nxt = <<0, 0, 0, 0>> /\ \E b \in Byte : MoreData(b)

ArithSpec == ArithInit /\ [][ArithNext]_arithVars
-----------------------------------------------------------------------------
\* The four bytes always hold the sum of what was added, modulo 2^32, through
\* every combination of carries (uip_add32 and the increments of iss).
SequenceNumberIsSum ==
    ((nxt[1] * Base + nxt[2]) * Base + nxt[3]) * Base + nxt[4] = total

\* The sum of the words, counted without a limit.
PlainSum(d) ==
    LET after[i \in 0 .. WordCount(d)] == IF i = 0 THEN 0 ELSE after[i - 1] + WordAt(d, i)
    IN  after[WordCount(d)]

\* The checksum is the one's complement sum of the words (congruent modulo
\* 2^16 - 1, and zero only for no data but zeros), in whatever order carries
\* fall; data followed by its own checksum sums to all ones; and when a byte is
\* lowered by h the adjusted field is the checksum of the new data.  A TCP or UDP
\* segment that is sent is accepted by the check of one that is received.
ChecksumIsOnesComplementSum ==
    LET m == Base * Base - 1
        s == Chksum(0, data)
        field == m - UipChksum(data)
    IN  /\ (PlainSum(data) - s) % m = 0
        /\ s = 0 <=> PlainSum(data) = 0
        /\ Len(data) % 2 = 0 => HeaderChksum(0, data \o <<(m - s) \div Base, (m - s) % Base>>) = m
        /\ \A i \in DOMAIN data : \A h \in 1 .. data[i] : i % 2 = 1 =>
              (m - Htons(Chksum(0, [data EXCEPT ![i] = @ - h])) - AdjustedChksum(field, h)) % m = 0
        /\ Len(data) >= 2 => LET addrs == SubSeq(data, 1, 2)  rest == SubSeq(data, 3, Len(data)) IN
              \A udp \in BOOLEAN : LET sent == SentChksum(addrs, rest, udp) IN
                  UpperLayerChksum(addrs, sent \o rest) = m /\ (udp => sent # <<0, 0>>)

\* Both: the octet arithmetic computes what 32-bit and one's complement arithmetic would.
ArithIsRight == SequenceNumberIsSum /\ ChecksumIsOnesComplementSum
=============================================================================
