------------------------------ MODULE UipReass ------------------------------
(***************************************************************************)
(* Reassembly of IP fragments (uip_reass and its timer in uip_process,     *)
(* uip.c, built with UIP_REASSEMBLY, which uipopt.h leaves off).  Offsets  *)
(* and lengths count the blocks of 8 bytes that fragments are made of, for *)
(* datagrams of whole blocks; a byte of the bitmap stands for PerByte      *)
(* blocks (8 in the code) and is the set of its bits, 0 the most           *)
(* significant.  Data lie in the buffer behind an IP header, offsets and   *)
(* uip_reasslen leave the header out.                                      *)
(***************************************************************************)
EXTENDS Integers, FiniteSets

CONSTANTS
    Datagram,       \* senders' datagrams (addresses and IP id)
    Size,           \* blocks of each datagram
    PerByte,
    BufBlocks,      \* whole blocks in UIP_REASS_BUFSIZE bytes
    HeaderBlocks,   \* blocks that UIP_IPH_LEN bytes reach into (3 in the code)
    MAXAGE,         \* UIP_REASS_MAXAGE
    Nobody

ASSUME ReassAssumption ==
    /\ PerByte \in Nat \ {0} /\ BufBlocks \in Nat /\ HeaderBlocks \in Nat /\ MAXAGE \in Nat \ {0}
    /\ Size \in [Datagram -> Nat \ {0}] /\ Nobody \notin Datagram

VARIABLES
    reasstmr, reassbitmap, reassflags, reasslen,
    header,     \* the datagram whose IP header is in the buffer
    received,   \* blocks of that datagram copied into the buffer
    intact      \* nothing was written behind uip_reassbitmap or uip_reassbuf

reassVars == <<reasstmr, reassbitmap, reassflags, reasslen, header, received, intact>>

Bits == 0 .. PerByte - 1
Cells == 0 .. (BufBlocks \div PerByte) - 1     \* the bytes of uip_reassbitmap
\* Faulty variant: the table begins with its second entry.
FromNext(k) == {b \in Bits : b > k}
From(k) == {b \in Bits : b >= k}                \* bitmap_bits[k]
NoBits == [i \in Cells |-> {}]

ReassInit ==
    /\ reasstmr = 0 /\ reassbitmap = NoBits /\ reassflags = FALSE /\ reasslen = 0
    /\ header = Nobody /\ received = {} /\ intact = TRUE

\* The bits of blocks off .. end - 1 are added to bitmap m.
Marked(m, off, end) ==
    LET first == off \div PerByte
        last  == end \div PerByte
    IN  IF first = last
        THEN [m EXCEPT ![first] = @ \cup (From(off % PerByte) \ From(end % PerByte))]
        ELSE [i \in Cells |-> CASE i = first -> m[i] \cup From(off % PerByte)
                                [] first < i /\ i < last -> Bits
                                [] i = last -> m[i] \cup (Bits \ From(end % PerByte))
                                [] OTHER -> m[i]]

\* uip_reass takes a packet of len blocks for complete; the byte before the last is not looked at.
LooksFull(m, len) ==
    /\ \A i \in Cells : i < (len \div PerByte) - 1 => m[i] = Bits
    /\ m[len \div PerByte] = Bits \ From(len % PerByte)

\* A fragment that ends with block end - 1 is marked and copied inside the two arrays.
Inside(end) == end \div PerByte \in Cells /\ HeaderBlocks + end <= BufBlocks

\* uip_reass for the fragment of datagram d with blocks off .. end - 1.
UipReass(d, off, end) ==
    LET fresh == reasstmr = 0
        h     == IF fresh THEN d ELSE header
        m     == IF fresh THEN NoBits ELSE reassbitmap
        got   == IF fresh THEN {} ELSE received
        m2    == Marked(m, off, end)
        got2  == got \cup off .. end - 1
        last  == (~fresh /\ reassflags) \/ end = Size[d]    \* UIP_REASS_FLAG_LASTFRAG
        len2  == IF end = Size[d] THEN end ELSE reasslen
    IN  /\ header' = h
        /\ \/ /\ d # h                              \* of another datagram: dropped
              /\ UNCHANGED <<reasstmr, reassbitmap, reassflags, reasslen, received, intact>>
           \/ /\ d = h /\ end > BufBlocks           \* too large: the whole packet is dropped
              /\ reasstmr' = 0 /\ reassbitmap' = m /\ received' = got
              /\ reassflags' = (~fresh /\ reassflags)
              /\ UNCHANGED <<reasslen, intact>>
           \/ /\ d = h /\ end <= BufBlocks /\ ~Inside(end)  \* undefined: the model ends here
              /\ intact' = FALSE
              /\ UNCHANGED <<reasstmr, reassbitmap, reassflags, reasslen, received>>
           \/ /\ d = h /\ end <= BufBlocks /\ Inside(end) /\ UNCHANGED intact
              /\ reassbitmap' = m2 /\ received' = got2 /\ reassflags' = last /\ reasslen' = len2
              /\ \/ /\ last /\ LooksFull(m2, len2)  \* the packet is complete and returned
                    /\ reasstmr' = 0
                 \/ /\ ~(last /\ LooksFull(m2, len2))
                    /\ reasstmr' = (IF fresh THEN MAXAGE ELSE reasstmr)

\* uip_process(UIP_TIMER)
ReassTimer == /\ reasstmr # 0 /\ reasstmr' = reasstmr - 1
              /\ UNCHANGED <<reassbitmap, reassflags, reasslen, header, received, intact>>

\* Fragments arrive in any order, again, or not at all.
Fragments(d) == {f \in [off : 0 .. Size[d] - 1, end : 1 .. Size[d]] :
                    f.off < f.end /\ f.end - f.off < Size[d]}
ReassNext == intact /\ \/ ReassTimer
                       \/ \E d \in Datagram : \E f \in Fragments(d) : UipReass(d, f.off, f.end)

ReassSpec == ReassInit /\ [][ReassNext]_reassVars
FairReass == WF_reassVars(intact /\ ReassTimer)
-----------------------------------------------------------------------------
\* The bitmap says which blocks of the datagram in the buffer have arrived,
\* whatever the order and overlap of the fragments (bitmap_bits in uip_reass).
BitmapIsReceived ==
    reasstmr # 0 => \A b \in 0 .. BufBlocks - 1 : b \div PerByte \in Cells =>
                        (b % PerByte \in reassbitmap[b \div PerByte] <=> b \in received)

\* Fragments of one datagram that never completes do not keep the buffer.
BufferIsFreed == reasstmr # 0 ~> reasstmr = 0 \/ ~intact

\* A datagram that has arrived whole is returned with its last fragment, whichever that is
\* (the test for the last fragment and for the bits that are set).
WholeIsReturned == reasstmr # 0 /\ intact => received # 0 .. Size[header] - 1

\* All: the bitmap and the buffer agree, what is whole is returned, and the buffer is not held
\* for ever (uip_reass).
ReassSafe == [](BitmapIsReceived /\ WholeIsReturned) /\ BufferIsFreed
=============================================================================
