---------------------------- MODULE PacketBytes ----------------------------
(***************************************************************************)
(* A packet as the code under test may think of it: a string of bytes and  *)
(* a place in it where the network header begins.  Bytes change one at a   *)
(* time and by a write only; the string grows and shrinks at its ends, by  *)
(* as much as was asked for; how it is laid out in memory does not show.   *)
(***************************************************************************)
EXTENDS Integers, Sequences

CONSTANTS
    Byte,
    MaxLen  \* bound: the length of a new packet, and of what is added or cut off

VARIABLES
    bytes,  \* the packet
    nh      \* offset of the network header from its first byte

vars == <<bytes, nh>>

Init == bytes = <<>> /\ nh = 0

\* Nothing has happened that would show.
Keep == UNCHANGED vars

\* A byte is written; beyond the ends it does not show.
Write(i, b) ==
    /\ bytes' = [k \in DOMAIN bytes |-> IF k = i THEN b ELSE bytes[k]]
    /\ UNCHANGED nh

\* q is p without some of its last, or of its first, bytes.
Front(p, q) == Len(q) <= Len(p) /\ q = SubSeq(p, 1, Len(q))

Back(p, q) == Len(q) <= Len(p) /\ q = SubSeq(p, Len(p) - Len(q) + 1, Len(p))

\* n bytes are uncovered in front, or added at the end; they have no promised value.
Push(n) == Len(bytes') = Len(bytes) + n /\ Back(bytes', bytes) /\ nh' = nh + n

Put(n) == Len(bytes') = Len(bytes) + n /\ Front(bytes', bytes) /\ UNCHANGED nh

\* The first n bytes go.
Pull(n) == Len(bytes) = Len(bytes') + n /\ Back(bytes, bytes') /\ nh' = nh - n

\* The first n bytes stay.
Trim(n) == Len(bytes') = n /\ Front(bytes, bytes') /\ UNCHANGED nh

\* The packet has gone, or the next one, p, comes.
Gone == bytes' = <<>> /\ nh' = 0

New(p) == bytes = <<>> /\ bytes' = p /\ nh' = 0

Next ==
    \/ \E i \in DOMAIN bytes, b \in Byte : Write(i, b)
    \/ \E n \in 1 .. MaxLen : Push(n) \/ Put(n) \/ Pull(n) \/ Trim(n - 1)
    \/ Gone
    \/ \E m \in 1 .. MaxLen : \E p \in [1 .. m -> Byte] : New(p)

Spec == Init /\ [][Next]_vars
=============================================================================
