-------------------------------- MODULE Skb --------------------------------
(***************************************************************************)
(* nfsim's socket buffers (kernelenv/kernelenv.c).  A packet that comes    *)
(* from a script is non-linear: the buffer between head and end holds its  *)
(* first bytes only, a hidden master copy (extra) holds all of them and    *)
(* says how many the code under test may change.  Every routine compares   *)
(* the buffer with the master, so that code that writes where it must not, *)
(* or looks beyond the linear part, is caught; the routines that give      *)
(* write access always move the packet.                                    *)
(*                                                                         *)
(* Modelled is one packet at a time, from its arrival until it is freed.   *)
(* Offsets count from head.  Device, route and mark go along unchanged     *)
(* (copy_skb_header) and are left out, as are the checksums.               *)
(***************************************************************************)
EXTENDS Integers, Sequences

CONSTANTS
    Byte,       \* values of a byte
    MaxLen,     \* longest packet
    MaxRoom     \* head- and tailroom asked for

ASSUME SkbAssumption == Byte # {} /\ MaxLen \in Nat /\ MaxRoom \in Nat

VARIABLES
    skb,     \* the packet, or None
    linear,  \* linear_packets: the command line asked for linear packets only
    inHook,  \* the code under test has the packet
    stained, \* history: places it has changed without the right to
    dead     \* "no", or the check that ended the run

skbVars == <<skb, linear, inHook, stained, dead>>

None == [ buf |-> <<>>, data |-> 0, tail |-> 0, len |-> 0, nh |-> 0,
          extra |-> <<>>, writable |-> 0, nonlinear |-> FALSE ]

Strings(n) == UNION { [1 .. k -> Byte] : k \in 0 .. n }

\* The largest buffer.
Longest == MaxLen + MaxRoom

\* struct sk_buff with struct skb_extra_info: buf is what lies between head and end,
\* extra and writable are the master copy and its writable_len, if there is one.
SkBuff ==
    [ buf : Strings(Longest), data : 0 .. Longest, tail : 0 .. Longest, len : 0 .. Longest,
      nh : -MaxLen .. Longest + MaxLen, extra : Strings(Longest), writable : 0 .. Longest,
      nonlinear : BOOLEAN ]

skb_headroom(s) == s.data

nfsim_linear_length(s) == Len(s.buf) - s.data

skb_is_nonlinear(s) == s.data + s.len > Len(s.buf)

skb_tailroom(s) == IF skb_is_nonlinear(s) THEN 0 ELSE Len(s.buf) - s.tail

\* nfsim_check_packet(): the places at which buffer and master differ although the
\* packet is not writable there.
Modified(s) ==
    IF s.nonlinear
    THEN { i \in DOMAIN s.buf : i > s.writable /\ s.buf[i] # s.extra[i] }
    ELSE {}

nfsim_check_packet(s) == Modified(s) = {}

\* skb_copy_bits(): from the buffer as far as it goes, the rest from the master.
skb_copy_bits(s, offset, len) ==
    LET fromData == IF offset < nfsim_linear_length(s)
                    THEN IF len < nfsim_linear_length(s) - offset
                         THEN len ELSE nfsim_linear_length(s) - offset
                    ELSE 0
    IN  SubSeq(s.buf, s.data + offset + 1, s.data + offset + fromData)
        \o SubSeq(s.extra, skb_headroom(s) + offset + fromData + 1,
                  skb_headroom(s) + offset + len)

\* nfsim_skb(size), nothing in it yet: what the buffer holds is undefined.
nfsim_skb(buf) == [None EXCEPT !.buf = buf]

\* nfsim_nonlinear_skb(data1, data2)
nfsim_nonlinear_skb(data1, data2) ==
    LET all == data1 \o data2
    IN  IF linear
        THEN [nfsim_skb(all) EXCEPT !.tail = Len(all), !.len = Len(all)]
        ELSE [ buf |-> data1, data |-> 0, tail |-> Len(data1), len |-> Len(all), nh |-> 0,
               extra |-> all, writable |-> 0, nonlinear |-> TRUE ]

\* copy_skb_header(): the header pointers keep their distance from data.
copy_skb_header(new, old) == [new EXCEPT !.nh = old.nh + new.data - old.data]

-----------------------------------------------------------------------------
(* The code under test has the packet *)

Running == dead = "no"

Kernel == Running /\ inHook

Barf(why) ==
    /\ dead' = why
    /\ UNCHANGED <<skb, linear, inHook, stained>>

\* A routine that begins with nfsim_check_packet(): it ends the run when the packet
\* was modified, or does its work.
Checked(s, Work) == IF nfsim_check_packet(s) THEN Work ELSE Barf("modified")

\* The packet is as it was, or has been replaced.
Becomes(s) == skb' = s /\ UNCHANGED <<linear, inHook, stained, dead>>

\* skb_header_pointer(), skb_copy_bits(), skb_checksum(), skb_is_nonlinear(): reading
\* changes nothing.
Read == Kernel /\ Checked(skb, Becomes(skb))

\* A store through a pointer into the linear part.
Store(i, b) ==
    /\ Kernel
    /\ i \in skb.data + 1 .. skb.data + skb.len /\ i \in DOMAIN skb.buf
    /\ skb' = [skb EXCEPT !.buf[i] = b]
    /\ stained' = IF skb.nonlinear /\ i > skb.writable
                  THEN IF b = skb.extra[i] THEN stained \ {i} ELSE stained \cup {i}
                  ELSE stained
    /\ UNCHANGED <<linear, inHook, dead>>

skb_put(n) ==
    /\ Kernel
    /\ IF skb.tail + n > Len(skb.buf)
       THEN Barf("overrun")
       ELSE Becomes([skb EXCEPT !.tail = @ + n, !.len = @ + n])

\* A bound: the network header stays within a packet's length of the data.
InReach(offset) == offset \in -MaxLen .. MaxLen

skb_push(n) ==
    /\ Kernel
    /\ InReach(skb.nh - skb.data + n)
    /\ IF n > skb.data
       THEN Barf("underrun")
       ELSE Becomes([skb EXCEPT !.data = @ - n, !.len = @ + n])

\* Nobody pulls more than there is.
skb_pull(n) ==
    /\ Kernel
    /\ n <= skb.len /\ InReach(skb.nh - skb.data - n)
    /\ Becomes([skb EXCEPT !.data = @ + n, !.len = @ - n])

skb_trim(n) ==
    /\ Kernel
    /\ n < skb.len
    /\ Becomes([skb EXCEPT !.len = n, !.tail = skb.data + n])

\* skb_copy_expand(): a linear copy with room; the caller frees the original.  The
\* rooms hold what malloc left there.  skb_realloc_headroom() and skb_copy() are calls
\* of it.
skb_copy_expand(newheadroom, newtailroom) ==
    /\ Kernel
    /\ newheadroom + skb.len + newtailroom <= Longest
    /\ Checked(skb,
         \E head \in [1 .. newheadroom -> Byte], tail \in [1 .. newtailroom -> Byte] :
            LET n == [nfsim_skb(head \o skb_copy_bits(skb, 0, skb.len) \o tail)
                        EXCEPT !.data = newheadroom,
                               !.tail = newheadroom + skb.len,
                               !.len = skb.len]
            IN  Becomes(copy_skb_header(n, skb)))

\* Mutant: only what the buffer holds is copied.
skb_linearize_BufferOnly ==
    /\ Kernel
    /\ LET n == IF skb.len < nfsim_linear_length(skb) THEN skb.len ELSE nfsim_linear_length(skb)
       IN  Checked(skb,
             /\ n >= 0
             /\ Becomes([skb EXCEPT !.buf = SubSeq(@, 1, skb.data + n), !.tail = skb.data + n,
                            !.len = n, !.extra = <<>>, !.writable = 0, !.nonlinear = FALSE]))

\* skb_linearize(): the headroom is copied from the buffer, which may be shorter.
skb_linearize ==
    /\ Kernel
    /\ Checked(skb,
         \E head \in [1 .. skb_headroom(skb) -> Byte] :
            /\ \A i \in DOMAIN head : i <= Len(skb.buf) => head[i] = skb.buf[i]
            /\ LET new == head \o skb_copy_bits(skb, 0, skb.len)
               IN  Becomes([skb EXCEPT !.buf = new, !.tail = Len(new),
                                       !.extra = <<>>, !.writable = 0, !.nonlinear = FALSE]))

MakeWritable_AsAsked(s, writable_len) ==
    LET data == skb_copy_bits(s, 0, s.len)
        new == copy_skb_header(nfsim_nonlinear_skb(SubSeq(data, 1, writable_len),
                                                   SubSeq(data, writable_len + 1, s.len)), s)
    IN  IF new.nonlinear THEN [new EXCEPT !.writable = writable_len] ELSE new

\* skb_ip_make_writable(): always a new packet, without the headroom, linear as far as
\* it is writable.
MakeWritable(s, writable_len) ==
    LET data == skb_copy_bits(s, 0, s.len)
        n == IF s.nonlinear /\ writable_len < s.writable
             THEN IF s.writable < s.len THEN s.writable ELSE s.len
             ELSE writable_len
        new == copy_skb_header(nfsim_nonlinear_skb(SubSeq(data, 1, n),
                                                   SubSeq(data, n + 1, s.len)), s)
    IN  IF new.nonlinear THEN [new EXCEPT !.writable = n] ELSE new

skb_ip_make_writable(writable_len) ==
    /\ Kernel
    /\ Checked(skb,
         /\ writable_len <= skb.len
         /\ Becomes(MakeWritable(skb, writable_len)))

-----------------------------------------------------------------------------
(* nfsim has the packet *)

Nfsim == Running /\ ~inHook /\ skb # None

\* send_packet(): Ethernet and IP header are linear, the rest is not.
SendPacket(data1, data2) ==
    /\ Running /\ ~inHook /\ skb = None
    /\ data1 # <<>>
    /\ Becomes(nfsim_nonlinear_skb(data1, data2))

\* alloc_skb(), skb_reserve() and skb_put() as icmp_send() uses them.
AllocSkb(room, data) ==
    /\ Running /\ ~inHook /\ skb = None
    /\ \E head \in [1 .. room -> Byte] :
        Becomes([nfsim_skb(head \o data) EXCEPT !.data = room, !.tail = room + Len(data),
                                               !.len = Len(data), !.nh = room])

\* call_elem_hook(): checked before the hook, and when it has returned the packet is
\* described, which reads it.
CallElemHook ==
    /\ Nfsim
    /\ IF nfsim_check_packet(skb)
       THEN inHook' = TRUE /\ UNCHANGED <<skb, linear, stained, dead>>
       ELSE Barf("modified")

HookReturns ==
    /\ Kernel
    /\ IF nfsim_check_packet(skb)
       THEN inHook' = FALSE /\ UNCHANGED <<skb, linear, stained, dead>>
       ELSE Barf("modified")

nfsim_update_skb_Forgotten(s, i) == s

\* nfsim_update_skb(): nfsim itself has changed a byte, which therefore goes to the
\* master unless the byte is writable anyway.
nfsim_update_skb(s, i) ==
    IF s.nonlinear /\ i > s.writable THEN [s EXCEPT !.extra[i] = s.buf[i]] ELSE s

\* The header that ip_forward() rewrites: the first byte of the packet stands for the
\* time to live and the checksum.
HeaderAt(s) == s.nh + 1

\* ip_forward(): another hop.
IpForward(b) ==
    /\ Nfsim
    /\ skb.nh = skb.data /\ HeaderAt(skb) \in DOMAIN skb.buf
    /\ LET s == nfsim_update_skb([skb EXCEPT !.buf[HeaderAt(skb)] = b], HeaderAt(skb))
       IN  IF nfsim_check_packet(s) THEN Becomes(s) ELSE Barf("modified")

\* ip_forward() when the time to live is over: the header has changed, the master has
\* not been told, and icmp_send() may copy from the packet before it is freed.
IpForwardExpired(b) ==
    /\ Nfsim
    /\ skb.nh = skb.data /\ HeaderAt(skb) \in DOMAIN skb.buf
    /\ LET s == [skb EXCEPT !.buf[HeaderAt(skb)] = b]
       IN  \/ Becomes(None)
           \/ ~nfsim_check_packet(s) /\ Barf("expired")

\* kfree_skb(), by nfsim or by a hook that steals the packet.
kfree_skb ==
    /\ Running /\ skb # None
    /\ skb' = None
    /\ inHook' = FALSE
    /\ stained' = {}
    /\ UNCHANGED <<linear, dead>>

-----------------------------------------------------------------------------
SkbInit ==
    /\ skb = None
    /\ linear \in BOOLEAN
    /\ inHook = FALSE
    /\ stained = {}
    /\ dead = "no"

SkbNext ==
    \/ \E m \in 1 .. MaxLen : \E all \in [1 .. m -> Byte], k \in 1 .. m :
        SendPacket(SubSeq(all, 1, k), SubSeq(all, k + 1, m))
    \/ \E m \in 1 .. MaxLen : \E data \in [1 .. m -> Byte], room \in 0 .. MaxRoom :
        AllocSkb(room, data)
    \/ CallElemHook \/ HookReturns \/ kfree_skb \/ Read \/ skb_linearize
    \/ \E b \in Byte :
        \/ IpForward(b) \/ IpForwardExpired(b)
        \/ \E i \in DOMAIN skb.buf : Store(i, b)
    \/ \E n \in 1 .. MaxLen :
        \/ skb_put(n) \/ skb_push(n) \/ skb_pull(n) \/ skb_trim(n - 1)
        \/ skb_ip_make_writable(n)
    \/ \E h, t \in 0 .. MaxRoom : skb_copy_expand(h, t)

SkbSpec == SkbInit /\ [][SkbNext]_skbVars

-----------------------------------------------------------------------------
(* Properties *)

SkbTypeOK ==
    /\ skb \in SkBuff
    /\ linear \in BOOLEAN
    /\ inHook \in BOOLEAN
    /\ stained \in SUBSET (1 .. Longest)
    /\ dead \in {"no", "modified", "overrun", "underrun", "expired"}

\* No sequence of pushes, pulls, trims, copies and moves makes a routine read beyond
\* the buffer or its master, or compare a negative number of bytes: the packet lies
\* inside of one of them, and the part that may be written inside of the buffer.
InsideItsBuffers ==
    /\ SkbTypeOK
    /\ IF skb.nonlinear
       THEN /\ skb.writable <= Len(skb.buf)
            /\ skb.data + skb.len <= Len(skb.extra)
            /\ Len(skb.buf) <= Len(skb.extra)
       ELSE skb.data + skb.len = skb.tail /\ skb.tail <= Len(skb.buf)

\* The byte of the packet at place i, wherever it is kept.
ByteAt(s, i) == IF i <= Len(s.buf) THEN s.buf[i] ELSE s.extra[i]

Contents(s) == [k \in 1 .. s.len |-> ByteAt(s, s.data + k)]

Abstract == INSTANCE PacketBytes WITH bytes <- Contents(skb), nh <- skb.nh - skb.data

\* What a routine does to the bytes is S, or it ends the run.
Does(S) == IF dead' = "no" THEN S ELSE Abstract!Keep

\* What each routine does to the packet as a string of bytes.
AsAsked ==
    /\ CallElemHook \/ HookReturns \/ Read \/ skb_linearize => Abstract!Keep
    /\ \A h, t \in 0 .. MaxRoom : skb_copy_expand(h, t) => Abstract!Keep
    /\ \A n \in 1 .. MaxLen :
        /\ skb_ip_make_writable(n) => Abstract!Keep
        /\ skb_put(n) => Does(Abstract!Put(n))
        /\ skb_push(n) => Does(Abstract!Push(n))
        /\ skb_pull(n) => Abstract!Pull(n)
        /\ skb_trim(n - 1) => Abstract!Trim(n - 1)
    /\ \A b \in Byte :
        /\ \A i \in DOMAIN skb.buf : Store(i, b) => Abstract!Write(i - skb.data, b)
        /\ IpForward(b) => Does(Abstract!Write(1, b))
        /\ IpForwardExpired(b) => Does(Abstract!Gone)
    /\ kfree_skb => Abstract!Gone
    /\ \A m \in 1 .. MaxLen : \A p \in [1 .. m -> Byte] :
        /\ \A k \in 1 .. m : SendPacket(SubSeq(p, 1, k), SubSeq(p, k + 1, m)) => Abstract!New(p)
        /\ \A room \in 0 .. MaxRoom : AllocSkb(room, p) => Abstract!New(p)

\* Where the bytes of a packet lie never shows: linearizing, making writable, copying and
\* expanding change neither a byte nor the place of the header, which moves along; a store
\* changes its byte and no other; skb_put, skb_push, skb_pull and skb_trim add or take away
\* as many bytes as they are told to, at their end (skb_copy_bits, copy_skb_header).
LayoutHidden == Abstract!Spec /\ [][AsAsked]_skbVars

\* nfsim cries "skb modified without being made writable" exactly when the code under
\* test has done that: never for a change it allowed or made itself, and no such change
\* is forgotten or copied to the master before the hook has returned.  What is compared
\* lies inside of both buffers.
AlarmIsTrue ==
    /\ InsideItsBuffers
    /\ dead = "modified" => stained # {}
    /\ Running => stained = Modified(skb)
    /\ Running /\ ~inHook => stained = {}

\* "Packet should not have been changed where not writable": the alarm is raised for the
\* code under test only, not for what nfsim itself has changed.  TLC refutes it: see
\* IpForwardExpired.
AlarmIsNeverOurs == dead # "expired"

\* How many bytes from data on may be written.
WritableBytes(s) ==
    IF ~s.nonlinear THEN s.len
    ELSE IF s.writable <= s.data THEN 0
    ELSE IF s.writable - s.data < s.len THEN s.writable - s.data ELSE s.len

\* "We never make packet *less* writable": asking for write access takes none away, as
\* long as the packet is not a linear one.
NeverLessWritable ==
    [][ \A n \in 1 .. MaxLen :
          skb_ip_make_writable(n) /\ dead' = "no" /\ skb.nonlinear =>
            WritableBytes(skb') >= WritableBytes(skb) /\ WritableBytes(skb') >= n ]_skbVars
=============================================================================
