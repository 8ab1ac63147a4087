------------------------------- MODULE Checksum -----------------------------
(***************************************************************************)
(* The Internet checksum as core/ipv4/ipv4.c computes it, on bytes of a    *)
(* small base: a short is two bytes, an int four, a long four or eight.    *)
(***************************************************************************)
EXTENDS Integers, Sequences, SequencesExt

CONSTANTS
    Base,           \* values of a byte
    LongBytes,      \* bytes of an unsigned long
    LittleEndian    \* the byte order of the host

ASSUME ChecksumAssumption ==
    Base \in Nat \ {0, 1} /\ LongBytes \in {4, 8} /\ LittleEndian \in BOOLEAN

Short == Base * Base
Long == Base ^ LongBytes

\* n bytes of memory as a number, and a number as the two bytes of a short.
Load(s) ==
    LET v[i \in 0 .. Len(s)] ==
            IF i = 0 THEN 0
            ELSE IF LittleEndian THEN v[i - 1] + s[i] * Base ^ (i - 1) ELSE v[i - 1] * Base + s[i]
    IN  v[Len(s)]

Native(n) == IF LittleEndian THEN <<n % Base, n \div Base>> ELSE <<n \div Base, n % Base>>
Network(n) == <<(n \div Base) % Base, n % Base>>

Fold(x) == (x % Short) + (x \div Short)

from32to16(x) == Fold(Fold(x)) % Short

SumInts_CarryLost(s, result) ==
    LET sum[i \in 0 .. Len(s) \div 4] ==
            IF i = 0 THEN result ELSE (sum[i - 1] + Load(SubSeq(s, 4 * i - 3, 4 * i))) % Long
    IN  sum[Len(s) \div 4]

\* The loop over the 32 bit words: a carry of one addition goes into the next.
SumInts(s, result) ==
    LET sum[i \in 0 .. Len(s) \div 4] ==
            IF i = 0 THEN [result |-> result, carry |-> 0]
            ELSE LET last == sum[i - 1]
                     w == Load(SubSeq(s, 4 * i - 3, 4 * i))
                     new == (last.result + last.carry + w) % Long
                 IN  [result |-> new, carry |-> IF w > new THEN 1 ELSE 0]
        end == sum[Len(s) \div 4]
    IN  (end.result + end.carry) % Long

From(s, n) == SubSeq(s, n + 1, Len(s))

\* The bytes s at an address: a first byte up to an even address, a short up to a
\* multiple of four, whole ints, a last short and a last byte.
do_csum(s, address) ==
    LET odd == address % 2 = 1 /\ s # << >>
        first == IF odd THEN s[1] ELSE 0
        a == IF odd THEN From(s, 1) ELSE s
        skip == Len(a) >= 2 /\ (address + Len(s) - Len(a)) % 4 = 2
        second == first + (IF skip THEN Load(SubSeq(a, 1, 2)) ELSE 0)
        b == IF skip THEN From(a, 2) ELSE a
        ints == (Len(b) \div 4) * 4
        words == IF ints > 0 THEN Fold(SumInts(SubSeq(b, 1, ints), second)) ELSE second
        short == IF Len(b) - ints >= 2 THEN Load(SubSeq(b, ints + 1, ints + 2)) ELSE 0
        byte == IF Len(b) % 2 = 1 THEN b[Len(b)] * Base ELSE 0
        sum == from32to16((words + short + byte) % Long)
    IN  IF odd THEN (sum \div Base) + (sum % Base) * Base ELSE sum

\* csum_partial adds an old sum, with its carry.
csum_partial(s, address, sum) ==
    LET int == Base ^ 4
        result == (do_csum(s, address) + sum) % int
    IN  IF sum > result THEN (result + 1) % int ELSE result

Complement(short) == Short - 1 - short

csum_fold(sum) == Complement(from32to16(sum))

\* What the checksum is meant to be: the sum of the shorts, modulo all ones, where the
\* last byte of an odd number is the first of a short.
InternetSum(s) ==
    LET padded == IF Len(s) % 2 = 1 THEN Append(s, 0) ELSE s
        sum[i \in 0 .. Len(padded) \div 2] ==
            IF i = 0 THEN 0 ELSE sum[i - 1] + Load(SubSeq(padded, 2 * i - 1, 2 * i))
    IN  sum[Len(padded) \div 2] % (Short - 1)
=============================================================================
