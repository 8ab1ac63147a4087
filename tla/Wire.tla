-------------------------------- MODULE Wire --------------------------------
(***************************************************************************)
(* Packets as bytes: what gen_ip makes (tools/gen_ip.c) and ip_forward     *)
(* passes on, the fragments ip_defrag puts together (core/ipv4/ipv4.c),    *)
(* and the two ends of a connection that tcpsession plays, each packet     *)
(* with an expectation of how it comes out (tools/tcpsession.c).           *)
(*                                                                         *)
(* The numbers are scaled: sequence numbers and lengths are shorts, a      *)
(* fragment starts at any byte.  The box the packets go through may change *)
(* the length of data (that is what LENCHANGE announces) and then has to   *)
(* shift sequence numbers; it is what is tested and external.              *)
(***************************************************************************)
EXTENDS Checksum, FiniteSets, FiniteSetsExt

CONSTANTS
    MaxUses,    \* how often a run uses gen_ip, tcpsession or gen_ip FRAG=
    MaxData,    \* bytes of data
    Isn,        \* [End -> first sequence number], 1000 and 2000 in the code
    Changes,    \* arguments of LENCHANGE
    NumFrags    \* ARRAY_SIZE(f->frags)

End == {"original", "reply"}
Peer(e) == IF e = "original" THEN "reply" ELSE "original"

ASSUME WireAssumption ==
    /\ MaxUses \in [{"gen_ip", "tcpsession", "FRAG"} -> Nat]
    /\ MaxData \in Nat /\ NumFrags \in Nat \ {0}
    /\ Isn \in [End -> 0 .. Short - 1] /\ Changes \subseteq Int \ {0}

VARIABLES
    script,     \* which of the commands this run uses
    uses,       \* commands so far
    wire,       \* the last packet (of the session, if there is one), as it came out
    curr,       \* the session
    todo,       \* the sends of the command under way
    frags,      \* fraglist: the fragments of the datagram that is not complete
    whole,      \* the datagram that was put together
    shift,      \* the box: how much the data of an end has grown
    announced,  \* history: the change LENCHANGE announced for the next data
    misled,     \* history: a change was announced and then something else than data sent,
                \* or the data went out and its send failed
    crashed     \* the simulator crashed

sessionVars == <<curr, todo, shift, announced, misled>>
wireVars == <<script, uses, wire, frags, whole, sessionVars, crashed>>

NoPacket == [kind |-> "none"]
NoSession == [open |-> FALSE]
Nothing == [cmd |-> "none"]
NoDatagram == [len |-> -1]

WireTypeOK ==
    /\ script \in DOMAIN MaxUses /\ uses \in 0 .. MaxUses[script]
    /\ wire.kind \in {"none", "icmp", "udp", "tcp"}
    /\ curr # NoSession =>
        /\ curr.seq \in [End -> 0 .. Short - 1] /\ curr.ack \in [End -> 0 .. Short - 1]
        /\ curr.lenchange \in Int
    /\ todo # Nothing => todo.cmd \in {"open", "data", "close", "reset"} /\ todo.in \in End
    /\ Len(frags) <= NumFrags
    /\ shift \in [End -> Int] /\ misled \in BOOLEAN /\ crashed \in BOOLEAN

WireInit ==
    /\ script \in DOMAIN MaxUses
    /\ uses = 0 /\ wire = NoPacket /\ curr = NoSession /\ todo = Nothing
    /\ frags = << >> /\ whole = NoDatagram
    /\ shift = [e \in End |-> 0] /\ announced = 0 /\ misled = FALSE /\ crashed = FALSE

Uses(use) ==
    /\ script = use /\ ~crashed /\ todo = Nothing
    /\ uses < MaxUses[use]
    /\ uses' = uses + 1
-----------------------------------------------------------------------------
(* gen_ip and ip_forward                                                   *)

Proto(kind) == CASE kind = "icmp" -> 1 [] kind = "tcp" -> 2 [] kind = "udp" -> 3
Address == <<1, Base - 1>>

\* The IP header in front of its checksum: length, offset, ttl and protocol, addresses.
IpHeader(kind, ttl, length) ==
    Network(length) \o <<0, 0>> \o <<ttl, Proto(kind)>> \o Address

PseudoHeader(kind, length) == Address \o <<0, Proto(kind)>> \o Network(length)

\* The transport header in front of its checksum, and the data behind it.
Transport(head, check, data) == head \o Native(check) \o data

\* parse_tcp, parse_udp and, without the pseudo header, parse_icmp.
L4Check(kind, head, data) ==
    LET l4 == Transport(head, 0, data)
        pseudo == IF kind = "icmp" THEN 0
                  ELSE csum_partial(PseudoHeader(kind, Len(l4)), 0, 0)
    IN  csum_fold(csum_partial(l4, 0, pseudo))

\* parse_packet: the transport part, then the header with its checksum.
Packet(kind, ttl, head, data) ==
    LET l4 == Transport(head, L4Check(kind, head, data), data)
        header == IpHeader(kind, ttl, Len(l4))
    IN  [kind |-> kind, l4 |-> l4, header |-> header, made |-> ttl,
         check |-> Complement(csum_partial(header, 0, 0) % Short)]

Ttl(p) == p.header[5]

\* ip_forward: the ttl is one less, a byte, and the checksum one more in the place of
\* the ttl, htons(0x0100), with the carry added.
Forwarded(p) ==
    LET check == p.check + (IF LittleEndian THEN 1 ELSE Base)
    IN  [p EXCEPT !.header[5] = (@ + Base - 1) % Base,
                  !.check = (check + (IF check >= Short - 1 THEN 1 ELSE 0)) % Short]

\* A packet is generated, received and forwarded unless its time is up.
Travels(p) ==
    wire' = IF Ttl(p) = 1 THEN NoPacket ELSE Forwarded(p)

Extremes(n) == UNION { [1 .. k -> {0, 1, Base - 1}] : k \in 0 .. n }

gen_ip(kind, ttl, data) ==
    /\ Uses("gen_ip")
    /\ Travels(Packet(kind, ttl, <<Base - 1, 1>>, data))
    /\ UNCHANGED <<script, frags, whole, sessionVars, crashed>>
-----------------------------------------------------------------------------
(* Fragments                                                               *)

\* The datagram that is sent in fragments, byte by byte.
Datagram == [i \in 1 .. MaxData |-> i]

Fragment(off, len) ==
    [off |-> off, data |-> SubSeq(Datagram, off + 1, off + len), more |-> off + len < MaxData]

Covered(fs) == UNION { f.off + 1 .. f.off + Len(f.data) : f \in Range(fs) }
Top(fs) == Max({ f.off + Len(f.data) : f \in Range(fs) })
Complete(fs) == (\E f \in Range(fs) : ~f.more) /\ Covered(fs) = 1 .. Top(fs)

\* gather_frag's data: where fragments overlap, the later one wins.
Data(fs) ==
    [b \in 1 .. Top(fs) |->
        LET i == Max({ k \in DOMAIN fs : b \in fs[k].off + 1 .. fs[k].off + Len(fs[k].data) })
        IN  fs[i].data[b - fs[i].off]]

Gathered_AtTheEnd(fs) ==
    IF fs[Len(fs)].more THEN NoDatagram ELSE [len |-> Top(fs), payload |-> << >>]

\* skb_copy_expand copies the first fragment, data and all, and skb_put appends the
\* gathered data behind it; the header says how long the datagram is.
Gathered(fs) ==
    IF Complete(fs)
    THEN [len |-> Top(fs), payload |-> SubSeq(fs[1].data \o Data(fs), 1, Top(fs))]
    ELSE NoDatagram

\* gen_ip FRAG=off,len, and ip_defrag_user when the packet meets connection tracking.
\* All fragments are between the same addresses, so they meet in one list.  The first
\* one only makes the list.
ip_defrag(off, len) ==
    /\ Uses("FRAG")
    /\ LET fs == Append(frags, Fragment(off, len))
       IN  IF Len(fs) > NumFrags
           THEN crashed' = TRUE /\ UNCHANGED <<frags, whole>>
           ELSE /\ whole' = IF Len(fs) = 1 THEN NoDatagram ELSE Gathered(fs)
                /\ frags' = IF whole' = NoDatagram THEN fs ELSE << >>
                /\ UNCHANGED crashed
    /\ UNCHANGED <<script, wire, sessionVars>>
-----------------------------------------------------------------------------
(* tcpsession                                                              *)

\* The sends of a command: who sends, which flags, and what they count for.
Step(cmd, in, len) ==
    CASE cmd = "open" -> << [from |-> "original", flags |-> "SYN", count |-> 1],
                            [from |-> "reply", flags |-> "SYN/ACK", count |-> 1],
                            [from |-> "original", flags |-> "ACK", count |-> 0] >>
      [] cmd = "data" -> << [from |-> in, flags |-> "ACK", count |-> len],
                            [from |-> Peer(in), flags |-> "ACK", count |-> 0] >>
      [] cmd = "close" -> << [from |-> in, flags |-> "FIN/ACK", count |-> 1],
                             [from |-> Peer(in), flags |-> "FIN/ACK", count |-> 1],
                             [from |-> in, flags |-> "ACK", count |-> 0] >>
      [] cmd = "reset" -> << [from |-> in, flags |-> "RST", count |-> 0] >>

FlagByte(flags) ==
    CASE flags = "SYN" -> 1 [] flags = "ACK" -> 2 [] flags = "SYN/ACK" -> 3
      [] flags = "RST" -> 4 [] flags = "FIN/ACK" -> 5

Starts(cmd, in, len) ==
    /\ todo' = [cmd |-> cmd, in |-> in, len |-> len, step |-> 1]
    /\ misled' = (misled \/ (announced # 0 /\ cmd # "data"))

open_session ==
    /\ Uses("tcpsession") /\ curr = NoSession
    /\ curr' = [open |-> TRUE, seq |-> Isn, ack |-> [e \in End |-> Isn[Peer(e)]], lenchange |-> 0]
    /\ todo' = [cmd |-> "open", in |-> "original", len |-> 0, step |-> 1]
    /\ shift' = [e \in End |-> 0] /\ announced' = 0 /\ misled' = FALSE /\ wire' = NoPacket
    /\ UNCHANGED <<script, frags, whole, crashed>>

send_data(in, len) ==
    /\ Uses("tcpsession") /\ curr # NoSession
    /\ Starts("data", in, len)
    /\ UNCHANGED <<script, wire, frags, whole, curr, shift, announced, crashed>>

close_session(in) ==
    /\ Uses("tcpsession") /\ curr # NoSession
    /\ Starts("close", in, 0)
    /\ UNCHANGED <<script, wire, frags, whole, curr, shift, announced, crashed>>

reset_session(in) ==
    /\ Uses("tcpsession") /\ curr # NoSession
    /\ Starts("reset", in, 0)
    /\ UNCHANGED <<script, wire, frags, whole, curr, shift, announced, crashed>>

\* LENCHANGE, which does not look whether there is a session.
lenchange(change) ==
    /\ Uses("tcpsession")
    /\ IF curr = NoSession
       THEN crashed' = TRUE /\ UNCHANGED <<curr, announced>>
       ELSE /\ curr' = [curr EXCEPT !.lenchange = change]
            /\ announced' = change
            /\ UNCHANGED crashed
    /\ UNCHANGED <<script, wire, frags, whole, todo, shift, misled>>

abandon ==
    /\ Uses("tcpsession") /\ curr # NoSession
    /\ curr' = NoSession
    /\ UNCHANGED <<script, wire, frags, whole, todo, shift, announced, misled, crashed>>

\* A packet with how it is expected to come out and how the box sends it on.
WithExpectation(p, expected, boxed) ==
    [kind |-> p.kind, l4 |-> p.l4, header |-> p.header, made |-> p.made, check |-> p.check,
     expected |-> expected, boxed |-> boxed]

\* tcp_send's packet: it is expected to come out with the numbers the other end waits for;
\* the box changes its data as announced and shifts the numbers of both ends.
Sent(s, datalen, change) ==
    LET in == s.from
        out == Peer(in)
    IN  WithExpectation(
            Forwarded(Packet("tcp", 2,
                Network(curr.seq[in]) \o Network(curr.ack[in]) \o <<FlagByte(s.flags), 0>>,
                [i \in 1 .. datalen |-> i % Base])),
            <<curr.ack[out], curr.seq[out], datalen + curr.lenchange>>,
            << (curr.seq[in] + shift[in]) % Short, (curr.ack[in] - shift[out]) % Short,
               datalen + change >>)

\* The send under way is the one of the data of DATA.
SendsData == todo.cmd = "data" /\ todo.step = 1

Counted_ChangeKept(s) ==
    LET out == Peer(s.from) grows == IF SendsData THEN curr.lenchange ELSE 0
    IN  [curr EXCEPT !.seq[s.from] = (@ + s.count) % Short,
                     !.ack[out] = (@ + s.count + grows) % Short]

\* The sender has sent, the other end will acknowledge it, changed as it is.
Counted(s) ==
    LET out == Peer(s.from) grows == IF SendsData THEN curr.lenchange ELSE 0
    IN  [curr EXCEPT !.seq[s.from] = (@ + s.count) % Short,
                     !.ack[out] = (@ + s.count + grows) % Short,
                     !.lenchange = @ - grows]

\* Its packet goes out, and the box does as announced.
GoesOut(s) ==
    /\ wire' = Sent(s, IF SendsData THEN todo.len ELSE 0, IF SendsData THEN announced ELSE 0)
    /\ shift' = IF SendsData THEN [shift EXCEPT ![s.from] = @ + announced] ELSE shift
    /\ announced' = IF SendsData THEN 0 ELSE announced

\* tcp_send succeeds: on to the next send.  The last one of CLOSE and RESET ends the
\* session.
tcp_send ==
    /\ todo # Nothing
    /\ LET sends == Step(todo.cmd, todo.in, todo.len)
           s == sends[todo.step]
           last == todo.step = Len(sends)
       IN  /\ GoesOut(s)
           /\ curr' = IF last /\ todo.cmd \in {"close", "reset"} THEN NoSession ELSE Counted(s)
           /\ todo' = IF last THEN Nothing ELSE [todo EXCEPT !.step = @ + 1]
    /\ UNCHANGED <<script, uses, frags, whole, misled, crashed>>

\* A send that fails ends its command.  OPEN takes its session along, the others leave
\* it as it was, nothing counted.
GivesUp ==
    /\ todo # Nothing
    /\ todo' = Nothing
    /\ curr' = IF todo.cmd = "open" THEN NoSession ELSE curr
    /\ UNCHANGED <<script, uses, frags, whole, crashed>>

\* It fails before the packet is made: the interface is gone, the data cannot be parsed.
tcp_send_fails ==
    /\ GivesUp
    /\ UNCHANGED <<wire, shift, announced, misled>>

\* It fails when the packet has gone out: when gen_ip returns, an expectation of it is
\* not met, this one or another one (expect_post_command).
tcp_send_fails_late ==
    /\ GivesUp
    /\ GoesOut(Step(todo.cmd, todo.in, todo.len)[todo.step])
    /\ misled' = (misled \/ (SendsData /\ announced # 0))

WireNext ==
    \/ \E kind \in {"icmp", "udp"}, ttl \in 0 .. 2, data \in Extremes(MaxData) : gen_ip(kind, ttl, data)
    \/ \E off \in 0 .. MaxData - 1, len \in 1 .. MaxData : off + len <= MaxData /\ len < MaxData /\ ip_defrag(off, len)
    \/ open_session
    \/ \E in \in End : (\E len \in 0 .. MaxData : send_data(in, len)) \/ close_session(in)
                       \/ reset_session(in)
    \/ \E change \in Changes : lenchange(change)
    \/ abandon
    \/ tcp_send
    \/ tcp_send_fails \/ tcp_send_fails_late

WireSpec == WireInit /\ [][WireNext]_wireVars /\ WF_wireVars(tcp_send)
-----------------------------------------------------------------------------
\* A packet that comes out of ip_forward still carries the checksum of its header, and
\* the one of its contents as whoever receives it computes it, wherever it has the
\* bytes (at an even address) - unless it was made with a ttl of 0, which the decrement
\* turns into 255 (ipv4.c:346).  The sum is the Internet checksum on a host that stores
\* the first byte first, and of an even number of bytes at an even address everywhere.
ChecksumsHold ==
    wire # NoPacket =>
        /\ wire.made # 0 => (InternetSum(wire.header) + wire.check) % (Short - 1) = 0
        /\ \A address \in {0, 2} :
             LET pseudo == IF wire.kind = "icmp" THEN 0
                           ELSE csum_partial(PseudoHeader(wire.kind, Len(wire.l4)), 0, 0)
             IN  csum_fold(csum_partial(wire.l4, address, pseudo)) = 0
        /\ \A address \in 0 .. 3 :
             (LittleEndian => Len(wire.l4) % 2 = 0 /\ address % 2 = 0)
             => do_csum(wire.l4, address) % (Short - 1) = InternetSum(wire.l4)

\* tcpsession expects of every packet what a box sends that changes the length of data
\* exactly as LENCHANGE announced it and shifts the numbers of both directions from then
\* on, however often numbers wrap and sessions are begun again, and through sends that
\* fail before or after their packet has gone out - as long as the announced change is
\* used for data, by a send that does not fail late: there the change has been made and
\* tcpsession goes on waiting for it.
SessionInStep ==
    /\ WireTypeOK
    /\ wire # NoPacket /\ script = "tcpsession" /\ ~misled => wire.expected = wire.boxed
    /\ crashed /\ script = "tcpsession" => curr = NoSession

\* Fragments wait only as long as one is missing, in whatever order and however often
\* they come and overlap, and the datagram that is put together is as long as the one
\* that was sent (gather_frag).
NothingHeldBack ==
    /\ frags # << >> => ~Complete(frags)
    /\ whole # NoDatagram => whole.len = MaxData /\ frags = << >>

\* ipv4.c:530 "Copy header and data.", ipv4.c:539 "Except we're not a fragment, and we're
\* longer.": but for that, the datagram is the one that was sent.
ReassembledWhole ==
    whole # NoDatagram => whole.payload = Datagram
=============================================================================
