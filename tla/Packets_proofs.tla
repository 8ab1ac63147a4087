---------------------------- MODULE Packets_proofs --------------------------
(***************************************************************************)
(* Proofs about Packets, for any number of packets, devices and hooks: no  *)
(* packet is lost or held twice, every packet has the one life that Fates  *)
(* promises, and what is stale has one of two causes.                      *)
(*                                                                         *)
(* EveryPacketAccounted speaks of the time between commands only.  During  *)
(* one the packets under way are those on the stack, each once (UnderWay), *)
(* and the queue holds the packets that wait, each once, beside the item   *)
(* that the queue command has reinjected and not unlinked yet (Held): its  *)
(* packet may have come to its end, be under way or wait in an item of its *)
(* own again.  That the queue command unlinks that item and no other needs *)
(* the ids to ascend and to be below the next one (Ordered).               *)
(***************************************************************************)
EXTENDS Packets, Lists_proofs

AnyFate == {"unborn", "path", "queued", "sent", "local", "dropped", "stolen"}
QueueItem == [id : 0..MaxIds, skb : Packet, hook : Hook, by : Places]
AnyCommand == [op : {"none", "gen_ip", "queue"}, item : 0..MaxIds]

\* The fates of the packets k.
Fate(k) == [p \in Packet |-> k[p].fate]

\* The packets k, or their fates, with s for the packet p.
Put(k, p, s) == [k EXCEPT ![p] = s]

\* The packets with the fates F that are under way are the ones on the stack st.
UnderWay(F, st) ==
    /\ \A d \in DOMAIN st : F[st[d]] = "path"
    /\ \A p \in Packet : F[p] = "path" => \E d \in DOMAIN st : st[d] = p
    /\ \A d, e \in DOMAIN st : st[d] = st[e] => d = e

\* The i-th item of the queue q is not the one that the command c has reinjected.
Live(q, c, i) == ~(c.op = "queue" /\ q[i].id = c.item)

\* The packets that wait are in the queue, each once.
Held(F, q, c) ==
    /\ \A i \in DOMAIN q : Live(q, c, i) => F[q[i].skb] = "queued"
    /\ \A p \in Packet : F[p] = "queued" => \E i \in DOMAIN q : Live(q, c, i) /\ q[i].skb = p
    /\ \A i, j \in DOMAIN q :
         Live(q, c, i) /\ Live(q, c, j) /\ q[i].skb = q[j].skb => i = j
    /\ c.op = "queue" => \E i \in DOMAIN q : q[i].id = c.item

\* The ids of the queue ascend, up to the n-th.
Ordered(q, n) ==
    /\ \A i, j \in DOMAIN q : i < j => q[i].id < q[j].id
    /\ \A i \in DOMAIN q : q[i].id < n

Accounted(F, st, q, c, n) ==
    /\ UnderWay(F, st)
    /\ Held(F, q, c)
    /\ Ordered(q, n)
    /\ c = NoCommand => st = <<>>

\* The packet s uses no freed device or route, given the devices u that are up.
Fresh(s, u) ==
    s.fate \in {"path", "queued"} /\ ~s.exposed =>
        /\ ~s.gone
        /\ s.hook = "PRE_ROUTING" => s.dev \in u
        /\ s.hook = "POST_ROUTING" => s.dev \in u \cup {loopback}
        /\ s.hook \in {"FORWARD", "LOCAL_OUT"} => s.dst \in u \cup {loopback}

IInv ==
    /\ TypeOK
    /\ Accounted(Fate(pk), stack, nfsim_queue, cmd, queueid)
    /\ \A p \in Packet : Fresh(pk[p], up)
    /\ StaleHasACause

\* A step of Fates from the fates F to the fates G.
Life(F, G) ==
    \/ G = F
    \/ \E p \in Packet :
         \/ F[p] = "unborn" /\ G = Put(F, p, "path")
         \/ F[p] = "path" /\ G = Put(F, p, "queued")
         \/ F[p] = "queued" /\ G = Put(F, p, "path")
         \/ /\ F[p] \in {"path", "queued"}
            /\ \E x \in {"sent", "local", "dropped", "stolen"} : G = Put(F, p, x)

-----------------------------------------------------------------------------
(* The books, one lemma for each way in which they change. *)

\* The last element and the rest of a list.
LEMMA FrontProperties ==
    ASSUME NEW S, NEW s \in Seq(S), s # <<>>
    PROVE  /\ Len(s) \in DOMAIN s /\ s[Len(s)] \in S
           /\ Front(s) \in Seq(S)
           /\ \A i \in DOMAIN Front(s) :
                i \in DOMAIN s /\ i # Len(s) /\ Front(s)[i] = s[i]
           /\ \A i \in DOMAIN s : i # Len(s) => i \in DOMAIN Front(s)
<1> DEFINE n == Len(s)
           t == SubSeq(s, 1, n - 1)
<1>1. n \in Nat /\ n >= 1 /\ DOMAIN s = 1 .. n /\ \A i \in 1 .. n : s[i] \in S
  BY EmptySeq
<1>2. /\ t \in Seq(S) /\ Len(t) = n - 1
      /\ \A i \in 1 .. n - 1 : t[i] = s[i]
  <2>1. \A i \in 1 .. n - 1 : s[i] \in S
    BY <1>1
  <2>2. 1 \in Int /\ n - 1 \in Int
    BY <1>1
  <2>3. /\ t \in Seq(S) /\ Len(t) = IF 1 <= n - 1 THEN n - 1 - 1 + 1 ELSE 0
        /\ \A i \in 1 .. n - 1 - 1 + 1 : t[i] = s[1 + i - 1]
    BY <2>1, <2>2, SubSeqProperties
  <2> HIDE DEF t, n
  <2> QED
    BY <1>1, <2>3
<1>3. Front(s) = t
  BY DEF Front
<1> HIDE DEF t
<1>4. DOMAIN t = 1 .. n - 1
  BY <1>1, <1>2
<1> HIDE DEF n
<1> QED
  BY <1>1, <1>2, <1>3, <1>4 DEF n

\* The innermost packet leaves the stack.
LEMMA TopLeaves ==
    ASSUME NEW F \in [Packet -> AnyFate], NEW st \in Seq(Packet), st # <<>>,
           UnderWay(F, st), NEW x \in AnyFate \ {"path"},
           NEW p, p = st[Len(st)], NEW G, G = Put(F, p, x)
    PROVE  UnderWay(G, Front(st)) /\ p \in Packet /\ F[p] = "path"
<1> DEFINE su == Front(st)
<1>1. /\ Len(st) \in DOMAIN st /\ p \in Packet
      /\ \A i \in DOMAIN su : i \in DOMAIN st /\ i # Len(st) /\ su[i] = st[i]
      /\ \A i \in DOMAIN st : i # Len(st) => i \in DOMAIN su
  BY FrontProperties
<1>2. F[p] = "path"
  BY <1>1 DEF UnderWay
<1>3. \A o \in Packet : G[o] = IF o = p THEN x ELSE F[o]
  BY <1>1 DEF Put
<1>4. \A d \in DOMAIN st : st[d] \in Packet
  OBVIOUS
<1> HIDE DEF su
<1>5. ASSUME NEW d \in DOMAIN su PROVE G[su[d]] = "path"
  <2>1. d \in DOMAIN st /\ d # Len(st) /\ su[d] = st[d]
    BY <1>1
  <2>2. st[d] # p
    BY <1>1, <2>1 DEF UnderWay
  <2> QED
    BY <1>3, <1>4, <2>1, <2>2 DEF UnderWay
<1>6. ASSUME NEW o \in Packet, G[o] = "path" PROVE \E d \in DOMAIN su : su[d] = o
  <2>1. o # p /\ F[o] = "path"
    BY <1>3, <1>6
  <2>2. PICK d \in DOMAIN st : st[d] = o
    BY <2>1 DEF UnderWay
  <2>3. d # Len(st)
    BY <2>1, <2>2
  <2> QED
    BY <1>1, <2>2, <2>3
<1>7. \A d, e \in DOMAIN su : su[d] = su[e] => d = e
  BY <1>1 DEF UnderWay
<1>8. UnderWay(G, su)
  BY <1>5, <1>6, <1>7 DEF UnderWay
<1> QED
  BY <1>1, <1>2, <1>8 DEF su

\* Which command is run does not matter while no item is reinjected.
LEMMA HeldAnyway ==
    ASSUME NEW F, NEW q, NEW c, NEW d, Held(F, q, c), c.op # "queue", d.op # "queue"
    PROVE  Held(F, q, d)
<1>1. \A i : Live(q, c, i) /\ Live(q, d, i)
  BY DEF Live
<1> QED
  BY <1>1 DEF Held

\* The innermost packet comes to its end.
LEMMA BooksEnd ==
    ASSUME NEW F \in [Packet -> AnyFate], NEW st \in Seq(Packet), st # <<>>,
           NEW q \in Seq(QueueItem), NEW c, NEW n, Accounted(F, st, q, c, n),
           NEW x \in {"sent", "local", "dropped", "stolen"},
           NEW p, p = st[Len(st)], NEW G, G = Put(F, p, x)
    PROVE  Accounted(G, Front(st), q, c, n)
<1>1. UnderWay(G, Front(st)) /\ p \in Packet /\ F[p] = "path"
  BY TopLeaves DEF Accounted, AnyFate
<1>2. \A i \in DOMAIN q : q[i].skb \in Packet
  <2>1. \A i \in DOMAIN q : q[i] \in QueueItem
    OBVIOUS
  <2> QED
    BY <2>1 DEF QueueItem
<1>3. \A o \in Packet : G[o] = "queued" <=> F[o] = "queued"
  BY <1>1 DEF Put
<1>4. Held(G, q, c)
  BY <1>2, <1>3 DEF Accounted, Held
<1>5. c = NoCommand => Front(st) = <<>>
  BY DEF Accounted
<1> QED
  BY <1>1, <1>4, <1>5 DEF Accounted

\* The innermost packet is queued.
LEMMA BooksQueue ==
    ASSUME NEW F \in [Packet -> AnyFate], NEW st \in Seq(Packet), st # <<>>,
           NEW q \in Seq(QueueItem), NEW c, NEW n \in Nat, Accounted(F, st, q, c, n),
           NEW p, p = st[Len(st)], NEW G, G = Put(F, p, "queued"),
           NEW it \in QueueItem, it.id = n, it.skb = p, NEW r, r = Append(q, it)
    PROVE  Accounted(G, Front(st), r, c, n + 1)
<1> DEFINE su == Front(st)
           m == Len(q) + 1
<1>1. UnderWay(G, su) /\ p \in Packet /\ F[p] = "path"
  <2> DEFINE x == "queued"
  <2>1. x \in AnyFate \ {"path"} /\ UnderWay(F, st)
    BY DEF Accounted, AnyFate
  <2>2. G = Put(F, p, x)
    OBVIOUS
  <2> HIDE DEF x
  <2> QED
    BY <2>1, <2>2, TopLeaves
<1>2. F[p] = "path"
  BY <1>1
<1>3. \A i \in DOMAIN q : q[i].skb \in Packet /\ q[i].id \in Nat
  <2>1. \A i \in DOMAIN q : q[i] \in QueueItem
    OBVIOUS
  <2>2. MaxIds \in Nat
    BY PacketsAssumption
  <2> QED
    BY <2>1, <2>2 DEF QueueItem
<1>4. \A o \in Packet : G[o] = IF o = p THEN "queued" ELSE F[o]
  BY <1>1 DEF Put
<1>6. /\ m \in DOMAIN r /\ r[m] = it /\ m \notin DOMAIN q /\ m \in Nat
      /\ \A i \in DOMAIN q : i \in DOMAIN r /\ r[i] = q[i] /\ i < m /\ i \in Nat
      /\ \A i \in DOMAIN r : i \in DOMAIN q \/ i = m
  BY AppendProperties
<1> HIDE DEF su, m
<1>8. \A i \in DOMAIN q : q[i].id < n
  BY DEF Accounted, Ordered
<1>9. Live(r, c, m)
  <2>1. c.op = "queue" => \E i \in DOMAIN q : q[i].id = c.item
    BY DEF Accounted, Held
  <2> QED
    BY <1>3, <1>6, <1>8, <2>1 DEF Live
<1>10. \A i \in DOMAIN q : Live(r, c, i) <=> Live(q, c, i)
  BY <1>6 DEF Live
<1>11. Held(G, r, c)
  <2>1. ASSUME NEW i \in DOMAIN r, Live(r, c, i) PROVE G[r[i].skb] = "queued"
    <3>1. CASE i = m
      BY <1>1, <1>4, <1>6, <3>1
    <3>2. CASE i \in DOMAIN q
      <4>1. F[q[i].skb] = "queued"
        BY <1>10, <2>1, <3>2 DEF Accounted, Held
      <4> QED
        BY <1>3, <1>4, <1>6, <3>2, <4>1
    <3> QED
      BY <1>6, <3>1, <3>2
  <2>2. ASSUME NEW o \in Packet, G[o] = "queued"
        PROVE  \E i \in DOMAIN r : Live(r, c, i) /\ r[i].skb = o
    <3>1. CASE o = p
      BY <1>6, <1>9, <3>1
    <3>2. CASE o # p
      <4>1. PICK i \in DOMAIN q : Live(q, c, i) /\ q[i].skb = o
        BY <1>4, <2>2, <3>2 DEF Accounted, Held
      <4> QED
        BY <1>6, <1>10, <4>1
    <3> QED
      BY <3>1, <3>2
  <2>3. ASSUME NEW i \in DOMAIN q, Live(q, c, i) PROVE q[i].skb # p
    BY <1>2, <2>3 DEF Accounted, Held
  <2>4. ASSUME NEW i \in DOMAIN r, NEW j \in DOMAIN r,
               Live(r, c, i), Live(r, c, j), r[i].skb = r[j].skb
        PROVE  i = j
    <3>1. CASE i \in DOMAIN q /\ j \in DOMAIN q
      BY <1>6, <1>10, <2>4, <3>1 DEF Accounted, Held
    <3>2. CASE i = m /\ j \in DOMAIN q
      BY <1>6, <1>10, <2>3, <2>4, <3>2
    <3>3. CASE j = m /\ i \in DOMAIN q
      BY <1>6, <1>10, <2>3, <2>4, <3>3
    <3> QED
      BY <1>6, <3>1, <3>2, <3>3
  <2>5. c.op = "queue" => \E i \in DOMAIN r : r[i].id = c.item
    BY <1>6 DEF Accounted, Held
  <2> QED
    BY <2>1, <2>2, <2>4, <2>5 DEF Held
<1>12. Ordered(r, n + 1)
  <2>1. ASSUME NEW i \in DOMAIN r, NEW j \in DOMAIN r, i < j PROVE r[i].id < r[j].id
    <3>1. CASE j \in DOMAIN q
      <4>1. i \in DOMAIN q
        BY <1>6, <2>1, <3>1
      <4> QED
        BY <1>6, <2>1, <3>1, <4>1 DEF Accounted, Ordered
    <3>2. CASE j = m
      <4>1. i \in DOMAIN q
        BY <1>6, <2>1, <3>2
      <4> QED
        BY <1>6, <1>8, <3>2, <4>1
    <3> QED
      BY <1>6, <3>1, <3>2
  <2>2. ASSUME NEW i \in DOMAIN r PROVE r[i].id < n + 1
    BY <1>3, <1>6, <1>8
  <2> QED
    BY <2>1, <2>2 DEF Ordered
<1>13. c = NoCommand => su = <<>>
  BY DEF Accounted
<1> QED
  BY <1>1, <1>11, <1>12, <1>13 DEF Accounted, su

\* A packet enters: from gen_ip, or from the host while it handles another.
LEMMA BooksEnter ==
    ASSUME NEW F \in [Packet -> AnyFate], NEW st \in Seq(Packet),
           NEW q \in Seq(QueueItem), NEW c, NEW d, NEW n, Accounted(F, st, q, c, n),
           NEW p \in Packet, F[p] = "unborn", d # NoCommand,
           d = c \/ (c.op # "queue" /\ d.op # "queue"),
           NEW G, G = Put(F, p, "path"), NEW su, su = Append(st, p)
    PROVE  Accounted(G, su, q, d, n)
<1> DEFINE m == Len(st) + 1
<1>1. /\ m \in DOMAIN su /\ su[m] = p /\ m \notin DOMAIN st
      /\ \A i \in DOMAIN st : i \in DOMAIN su /\ su[i] = st[i]
      /\ \A i \in DOMAIN su : i \in DOMAIN st \/ i = m
  BY AppendProperties
<1>2. \A o \in Packet : G[o] = IF o = p THEN "path" ELSE F[o]
  BY DEF Put
<1>3. \A i \in DOMAIN st : st[i] \in Packet /\ st[i] # p
  <2>1. \A i \in DOMAIN st : st[i] \in Packet
    OBVIOUS
  <2> QED
    BY <2>1 DEF Accounted, UnderWay
<1>4. \A i \in DOMAIN q : q[i].skb \in Packet
  <2>1. \A i \in DOMAIN q : q[i] \in QueueItem
    OBVIOUS
  <2> QED
    BY <2>1 DEF QueueItem
<1> HIDE DEF m
<1>5. UnderWay(G, su)
  <2>1. ASSUME NEW i \in DOMAIN su PROVE G[su[i]] = "path"
    <3>1. CASE i = m
      BY <1>1, <1>2, <3>1
    <3>2. CASE i \in DOMAIN st
      BY <1>1, <1>2, <1>3, <3>2 DEF Accounted, UnderWay
    <3> QED
      BY <1>1, <3>1, <3>2
  <2>2. ASSUME NEW o \in Packet, G[o] = "path" PROVE \E i \in DOMAIN su : su[i] = o
    <3>1. CASE o = p
      BY <1>1, <3>1
    <3>2. CASE o # p
      <4>1. PICK i \in DOMAIN st : st[i] = o
        BY <1>2, <2>2, <3>2 DEF Accounted, UnderWay
      <4> QED
        BY <1>1, <4>1
    <3> QED
      BY <3>1, <3>2
  <2>3. ASSUME NEW i \in DOMAIN su, NEW j \in DOMAIN su, su[i] = su[j] PROVE i = j
    <3>1. CASE i \in DOMAIN st /\ j \in DOMAIN st
      BY <1>1, <2>3, <3>1 DEF Accounted, UnderWay
    <3> QED
      BY <1>1, <1>3, <2>3, <3>1
  <2> QED
    BY <2>1, <2>2, <2>3 DEF UnderWay
<1>6. Held(F, q, d)
  BY HeldAnyway DEF Accounted
<1>7. Held(G, q, d)
  <2>1. \A o \in Packet : G[o] = "queued" <=> F[o] = "queued"
    BY <1>2
  <2> QED
    BY <1>4, <1>6, <2>1 DEF Held
<1> QED
  BY <1>5, <1>7 DEF Accounted

\* A command that reinjects nothing starts or ends.
LEMMA BooksCommand ==
    ASSUME NEW F, NEW q, NEW c, NEW d, NEW n, Accounted(F, <<>>, q, c, n),
           c.op # "queue", d.op # "queue"
    PROVE  Accounted(F, <<>>, q, d, n)
BY HeldAnyway DEF Accounted

\* The packet of an item is reinjected: it comes to its end or is under way.
LEMMA BooksReinject ==
    ASSUME NEW F \in [Packet -> AnyFate], NEW q \in Seq(QueueItem), NEW n,
           Accounted(F, <<>>, q, NoCommand, n), NEW i \in DOMAIN q,
           NEW x \in {"path", "sent", "local", "dropped", "stolen"}, 
           NEW p, p = q[i].skb, NEW G, G = Put(F, p, x),
           NEW su, su = IF x = "path" THEN <<p>> ELSE <<>>,
           NEW d, d.op = "queue", d.item = q[i].id
    PROVE  Accounted(G, su, q, d, n) /\ p \in Packet /\ F[p] = "queued"
<1>1. \A j \in DOMAIN q : q[j].skb \in Packet /\ q[j].id \in Nat
  <2>1. \A j \in DOMAIN q : q[j] \in QueueItem
    OBVIOUS
  <2>2. MaxIds \in Nat
    BY PacketsAssumption
  <2> QED
    BY <2>1, <2>2 DEF QueueItem
<1>2. \A j \in DOMAIN q : Live(q, NoCommand, j)
  BY DEF Live, NoCommand
<1>3. \A j \in DOMAIN q : F[q[j].skb] = "queued"
  BY <1>2 DEF Accounted, Held
<1>4. \A j \in DOMAIN q : Live(q, d, j) <=> j # i
  <2>1. \A j \in DOMAIN q : q[j].id = q[i].id => j = i
    <3> SUFFICES ASSUME NEW j \in DOMAIN q, j # i PROVE q[j].id # q[i].id
      OBVIOUS
    <3>1. i \in Nat /\ j \in Nat
      OBVIOUS
    <3>2. i < j \/ j < i
      BY <3>1
    <3>3. q[i].id < q[j].id \/ q[j].id < q[i].id
      BY <3>2 DEF Accounted, Ordered
    <3> QED
      BY <1>1, <3>3
  <2> QED
    BY <2>1 DEF Live
<1>5. \A j \in DOMAIN q : q[j].skb = p => j = i
  BY <1>2 DEF Accounted, Held
<1>6. p \in Packet /\ \A o \in Packet : G[o] = IF o = p THEN x ELSE F[o]
  BY <1>1 DEF Put
<1>7. \A o \in Packet : F[o] # "path"
  BY DEF Accounted, UnderWay
<1>8. UnderWay(G, su)
  <2>1. CASE x = "path"
    <3>1. su = <<p>>
      BY <2>1
    <3>2. DOMAIN <<p>> = {1} /\ <<p>>[1] = p
      OBVIOUS
    <3>3. DOMAIN su = {1} /\ su[1] = p
      BY <3>1, <3>2, Zenon
    <3> QED
      BY <1>6, <1>7, <2>1, <3>3 DEF UnderWay
  <2>2. CASE x # "path"
    <3>1. DOMAIN su = {}
      BY <2>2
    <3>2. \A o \in Packet : G[o] # "path"
      BY <1>6, <1>7, <2>2
    <3> QED
      BY <3>1, <3>2 DEF UnderWay
  <2> QED
    BY <2>1, <2>2
<1>9. Held(G, q, d)
  <2>1. ASSUME NEW j \in DOMAIN q, Live(q, d, j) PROVE G[q[j].skb] = "queued"
    <3>1. q[j].skb # p
      BY <1>4, <1>5, <2>1
    <3> QED
      BY <1>1, <1>3, <1>6, <3>1
  <2>2. ASSUME NEW o \in Packet, G[o] = "queued"
        PROVE  \E j \in DOMAIN q : Live(q, d, j) /\ q[j].skb = o
    <3>1. o # p /\ F[o] = "queued"
      BY <1>6, <2>2
    <3>2. PICK j \in DOMAIN q : q[j].skb = o
      BY <3>1 DEF Accounted, Held
    <3>3. j # i
      BY <3>1, <3>2
    <3> QED
      BY <1>4, <3>2, <3>3
  <2>3. \A j, k \in DOMAIN q : q[j].skb = q[k].skb => j = k
    BY <1>2 DEF Accounted, Held
  <2> QED
    BY <2>1, <2>2, <2>3 DEF Held
<1>10. d # NoCommand
  BY DEF NoCommand
<1> QED
  BY <1>3, <1>6, <1>8, <1>9, <1>10 DEF Accounted

\* The packet of an item is queued again.
LEMMA BooksRequeue ==
    ASSUME NEW F \in [Packet -> AnyFate], NEW q \in Seq(QueueItem), NEW n \in Nat,
           Accounted(F, <<>>, q, NoCommand, n), NEW i \in DOMAIN q,
           NEW it \in QueueItem, it.id = n, it.skb = q[i].skb,
           NEW d, d.op = "queue", d.item = q[i].id, NEW r, r = Append(q, it)
    PROVE  Accounted(F, <<>>, r, d, n + 1)
<1> DEFINE m == Len(q) + 1
<1>1. \A j \in DOMAIN q : q[j].skb \in Packet /\ q[j].id \in Nat
  <2>1. \A j \in DOMAIN q : q[j] \in QueueItem
    OBVIOUS
  <2>2. MaxIds \in Nat
    BY PacketsAssumption
  <2> QED
    BY <2>1, <2>2 DEF QueueItem
<1>2. /\ m \in DOMAIN r /\ r[m] = it /\ m \notin DOMAIN q /\ m \in Nat
      /\ \A j \in DOMAIN q : j \in DOMAIN r /\ r[j] = q[j] /\ j < m /\ j \in Nat
      /\ \A j \in DOMAIN r : j \in DOMAIN q \/ j = m
  BY AppendProperties
<1> HIDE DEF m
<1>3. \A j \in DOMAIN q : Live(q, NoCommand, j)
  BY DEF Live, NoCommand
<1>4. /\ \A j \in DOMAIN q : F[q[j].skb] = "queued"
      /\ \A j, k \in DOMAIN q : q[j].skb = q[k].skb => j = k
      /\ \A p \in Packet : F[p] = "queued" => \E j \in DOMAIN q : q[j].skb = p
  BY <1>3 DEF Accounted, Held
<1>5. /\ \A j, k \in DOMAIN q : j < k => q[j].id < q[k].id
      /\ \A j \in DOMAIN q : q[j].id < n
  BY DEF Accounted, Ordered
<1>6. Ordered(r, n + 1)
  <2>1. ASSUME NEW j \in DOMAIN r, NEW k \in DOMAIN r, j < k PROVE r[j].id < r[k].id
    <3>1. j \in DOMAIN q
      BY <1>2, <2>1
    <3> QED
      BY <1>2, <1>5, <2>1, <3>1
  <2>2. ASSUME NEW j \in DOMAIN r PROVE r[j].id < n + 1
    BY <1>1, <1>2, <1>5
  <2> QED
    BY <2>1, <2>2 DEF Ordered
<1>7. Live(r, d, m) /\ \A j \in DOMAIN q : Live(r, d, j) <=> j # i
  <2>1. r[m].id # q[i].id
    BY <1>1, <1>2, <1>5
  <2>2. \A j \in DOMAIN q : q[j].id = q[i].id => j = i
    BY <1>1, <1>2, <1>5
  <2> QED
    BY <1>2, <2>1, <2>2 DEF Live
<1>8. Held(F, r, d)
  <2>1. ASSUME NEW j \in DOMAIN r PROVE F[r[j].skb] = "queued"
    BY <1>2, <1>4
  <2>2. ASSUME NEW p \in Packet, F[p] = "queued"
        PROVE  \E j \in DOMAIN r : Live(r, d, j) /\ r[j].skb = p
    <3>1. PICK j \in DOMAIN q : q[j].skb = p
      BY <1>4, <2>2
    <3>2. CASE j = i
      BY <1>2, <1>7, <3>1, <3>2
    <3>3. CASE j # i
      BY <1>2, <1>7, <3>1, <3>3
    <3> QED
      BY <3>2, <3>3
  <2>3. ASSUME NEW j \in DOMAIN r, NEW k \in DOMAIN r, Live(r, d, j), Live(r, d, k),
               r[j].skb = r[k].skb
        PROVE  j = k
    BY <1>2, <1>4, <1>7, <2>3
  <2>4. \E j \in DOMAIN r : r[j].id = d.item
    BY <1>2
  <2> QED
    BY <2>1, <2>2, <2>3, <2>4 DEF Held
<1>9. UnderWay(F, <<>>)
  BY DEF Accounted
<1> QED
  BY <1>6, <1>8, <1>9 DEF Accounted

\* The reinjected item is unlinked.
LEMMA BooksUnlink ==
    ASSUME NEW F, NEW q \in Seq(QueueItem), NEW c, NEW n,
           Accounted(F, <<>>, q, c, n), c.op = "queue",
           NEW i \in DOMAIN q, q[i].id = c.item, NEW r, r = RemoveAt(q, i)
    PROVE  Accounted(F, <<>>, r, NoCommand, n) /\ r \in Seq(QueueItem)
<1> DEFINE f == [k \in 1 .. Len(q) - 1 |-> IF k < i THEN k ELSE k + 1]
<1>1. Len(q) \in Nat /\ DOMAIN q = 1 .. Len(q) /\ i \in 1 .. Len(q)
  OBVIOUS
<1>2. /\ r \in Seq(QueueItem) /\ Len(r) = Len(q) - 1
      /\ \A k \in 1 .. Len(q) - 1 : r[k] = IF k < i THEN q[k] ELSE q[k + 1]
  BY RemoveAtProperties
<1>3. DOMAIN r = 1 .. Len(q) - 1
  BY <1>1, <1>2
<1>4. ASSUME NEW k \in DOMAIN r
      PROVE  f[k] \in DOMAIN q /\ f[k] # i /\ r[k] = q[f[k]] /\ f[k] \in Nat
  BY <1>1, <1>2, <1>3
<1>5. \A j, k \in DOMAIN r : j < k => f[j] < f[k]
  BY <1>1, <1>3
<1>6. ASSUME NEW j \in DOMAIN q, j # i
      PROVE  \E k \in DOMAIN r : f[k] = j
  <2>1. CASE j < i
    <3>1. j \in DOMAIN r /\ f[j] = j
      BY <1>1, <1>3, <2>1
    <3> QED
      BY <3>1
  <2>2. CASE j > i
    <3>1. j - 1 \in DOMAIN r /\ f[j - 1] = j
      BY <1>1, <1>3, <2>2
    <3> QED
      BY <3>1
  <2>3. j < i \/ j > i
    BY <1>1, <1>6
  <2> QED
    BY <2>1, <2>2, <2>3
<1>7. \A j, k \in DOMAIN r : f[j] = f[k] => j = k
  BY <1>1, <1>3
<1> HIDE DEF f
<1>8. \A j \in DOMAIN q : j # i => Live(q, c, j)
  <2> SUFFICES ASSUME NEW j \in DOMAIN q, j # i PROVE q[j].id # q[i].id
    BY DEF Live
  <2>1. i < j \/ j < i
    BY <1>1
  <2>2. q[i].id < q[j].id \/ q[j].id < q[i].id
    BY <2>1 DEF Accounted, Ordered
  <2>3. q[i].id \in Nat /\ q[j].id \in Nat
    <3>1. q[i] \in QueueItem /\ q[j] \in QueueItem /\ MaxIds \in Nat
      BY PacketsAssumption
    <3> QED
      BY <3>1 DEF QueueItem
  <2> QED
    BY <2>2, <2>3
<1>9. \A j \in DOMAIN q : Live(q, c, j) => j # i
  BY DEF Live
<1>10. Ordered(r, n)
  BY <1>4, <1>5 DEF Accounted, Ordered
<1>11. Held(F, r, NoCommand)
  <2>1. ASSUME NEW k \in DOMAIN r PROVE F[r[k].skb] = "queued"
    BY <1>4, <1>8 DEF Accounted, Held
  <2>2. ASSUME NEW p \in Packet, F[p] = "queued" PROVE \E k \in DOMAIN r : r[k].skb = p
    <3>1. PICK j \in DOMAIN q : Live(q, c, j) /\ q[j].skb = p
      BY <2>2 DEF Accounted, Held
    <3>2. PICK k \in DOMAIN r : f[k] = j
      BY <1>6, <1>9, <3>1
    <3> QED
      BY <1>4, <3>1, <3>2
  <2>3. ASSUME NEW j \in DOMAIN r, NEW k \in DOMAIN r, r[j].skb = r[k].skb PROVE j = k
    <3>1. f[j] = f[k]
      BY <1>4, <1>8, <2>3 DEF Accounted, Held
    <3> QED
      BY <1>7, <3>1
  <2>4. \A k : Live(r, NoCommand, k)
    BY DEF Live, NoCommand
  <2>5. NoCommand.op # "queue"
    BY DEF NoCommand
  <2> QED
    BY <2>1, <2>2, <2>3, <2>4, <2>5 DEF Held
<1>12. UnderWay(F, <<>>)
  BY DEF Accounted
<1> QED
  BY <1>2, <1>10, <1>11, <1>12 DEF Accounted

-----------------------------------------------------------------------------
(* The innermost packet. *)

\* The fates after one packet has changed.
LEMMA FateOfChanged ==
    ASSUME NEW k \in [Packet -> Skb], NEW p \in Packet, NEW s \in Skb,
           NEW l, l = Put(k, p, s)
    PROVE  /\ Fate(l) = Put(Fate(k), p, s.fate)
           /\ Fate(k) \in [Packet -> AnyFate]
           /\ l \in [Packet -> Skb]
<1>1. \A r \in Skb : r.fate \in AnyFate
  BY DEF Skb, AnyFate
<1>2. Fate(l) = Put(Fate(k), p, s.fate)
  BY DEF Fate, Put
<1> QED
  BY <1>1, <1>2 DEF Fate, Put

\* The innermost packet is under way.
LEMMA CurFacts ==
    ASSUME IInv, stack # <<>>
    PROVE  /\ Cur = stack[Len(stack)] /\ Cur \in Packet
           /\ pk \in [Packet -> Skb] /\ pk[Cur] \in Skb /\ pk[Cur].fate = "path"
           /\ stack \in Seq(Packet) /\ nfsim_queue \in Seq(QueueItem)
           /\ Fate(pk) \in [Packet -> AnyFate] /\ Fresh(pk[Cur], up)
           /\ cmd # NoCommand
<1>1. stack \in Seq(Packet) /\ pk \in [Packet -> Skb] /\ nfsim_queue \in Seq(QueueItem)
  BY DEF IInv, TypeOK, QueueItem
<1>2. Cur = stack[Len(stack)] /\ Len(stack) \in DOMAIN stack /\ Cur \in Packet
  BY <1>1, FrontProperties DEF Cur, Depth
<1>3. Fate(pk)[Cur] = "path"
  BY <1>2 DEF IInv, Accounted, UnderWay
<1>4. pk[Cur].fate = "path" /\ pk[Cur] \in Skb
  BY <1>1, <1>2, <1>3 DEF Fate
<1>5. Fate(pk) \in [Packet -> AnyFate]
  BY <1>1, <1>2, <1>4, FateOfChanged
<1>6. Fresh(pk[Cur], up) /\ cmd # NoCommand
  BY <1>2 DEF IInv, Accounted
<1> QED
  BY <1>1, <1>2, <1>4, <1>5, <1>6

\* The innermost packet goes on.
LEMMA PacketStays ==
    ASSUME IInv, dead = "no", stack # <<>>, NEW s \in Skb, s.fate = "path", Fresh(s, up),
           pk' = Put(pk, Cur, s),
           UNCHANGED <<stack, nfsim_queue, queueid, config, cmd, dead>>
    PROVE  IInv' /\ Life(Fate(pk), Fate(pk'))
<1>1. Cur \in Packet /\ pk \in [Packet -> Skb] /\ pk[Cur].fate = "path"
  BY CurFacts
<1> HIDE DEF Cur
<1>2. Fate(pk') = Put(Fate(pk), Cur, s.fate) /\ pk' \in [Packet -> Skb]
      /\ Fate(pk) \in [Packet -> AnyFate]
  BY <1>1, FateOfChanged
<1>3. Fate(pk)[Cur] = s.fate
  BY <1>1 DEF Fate
<1>4. Fate(pk') = Fate(pk)
  BY <1>1, <1>2, <1>3 DEF Put
<1>5. TypeOK'
  BY <1>2 DEF IInv, TypeOK, config
<1>6. \A p \in Packet : Fresh(pk'[p], up')
  <2>1. up' = up
    BY DEF config
  <2> QED
    BY <1>1, <2>1 DEF IInv, Put
<1>7. StaleHasACause'
  BY DEF StaleHasACause
<1>8. Accounted(Fate(pk'), stack', nfsim_queue', cmd', queueid')
  BY <1>4 DEF IInv
<1> QED
  BY <1>4, <1>5, <1>6, <1>7, <1>8 DEF IInv, Life

\* A packet before it enters.
LEMMA UnbornTyped ==
    /\ Unborn \in Skb /\ Unborn.fate = "unborn" /\ ~Unborn.gone /\ ~Unborn.exposed
    /\ Unborn.hook = "PRE_ROUTING"
<1>1. Start \in Place
  BY DEF Start, Place
<1>2. "PRE_ROUTING" \in Hook /\ 0 \in Dev \cup {0}
  BY DEF Hook
<1> QED
  BY <1>1, <1>2 DEF Unborn, Skb

\* The innermost packet comes to its end.
LEMMA PacketEnds ==
    ASSUME IInv, dead = "no", stack # <<>>, NEW x \in {"sent", "local", "dropped", "stolen"},
           pk' = Put(pk, Cur, Late(x)), stack' = Front(stack),
           UNCHANGED <<nfsim_queue, queueid, config, cmd, dead>>
    PROVE  IInv' /\ Life(Fate(pk), Fate(pk'))
<1> DEFINE s == Late(x)
<1>1. Cur \in Packet /\ pk \in [Packet -> Skb] /\ pk[Cur].fate = "path"
      /\ Cur = stack[Len(stack)] /\ stack \in Seq(Packet) /\ nfsim_queue \in Seq(QueueItem)
      /\ Fate(pk) \in [Packet -> AnyFate]
  BY CurFacts
<1>2. s \in Skb /\ s.fate = x
  BY UnbornTyped DEF Late, Skb
<1>3. pk' = Put(pk, Cur, s)
  OBVIOUS
<1> HIDE DEF Cur, s
<1>4. Fate(pk') = Put(Fate(pk), Cur, x) /\ pk' \in [Packet -> Skb]
  <2>1. s \in Skb /\ Cur \in Packet /\ pk \in [Packet -> Skb]
    BY <1>1, <1>2
  <2>2. Fate(pk') = Put(Fate(pk), Cur, s.fate) /\ pk' \in [Packet -> Skb]
    BY <1>3, <2>1, FateOfChanged
  <2> QED
    BY <1>2, <2>2
<1>5. Accounted(Fate(pk'), stack', nfsim_queue', cmd', queueid')
  <2>1. Accounted(Fate(pk), stack, nfsim_queue, cmd, queueid)
    BY DEF IInv
  <2> QED
    BY <1>1, <1>4, <2>1, BooksEnd
<1>6. TypeOK'
  <2>1. stack' \in Seq(Packet)
    BY <1>1, FrontProperties
  <2> QED
    BY <1>4, <2>1 DEF IInv, TypeOK, config
<1>7. \A p \in Packet : Fresh(pk'[p], up')
  <2>1. up' = up
    BY DEF config
  <2>2. Fresh(s, up)
    BY <1>2 DEF Fresh
  <2> QED
    BY <1>1, <1>3, <2>1, <2>2 DEF IInv, Put
<1>8. StaleHasACause'
  BY DEF StaleHasACause
<1>9. Life(Fate(pk), Fate(pk'))
  <2>1. Fate(pk)[Cur] = "path"
    BY <1>1 DEF Fate
  <2> QED
    BY <1>1, <1>4, <2>1 DEF Life
<1> QED
  BY <1>5, <1>6, <1>7, <1>8, <1>9 DEF IInv

\* The innermost packet is queued.
LEMMA PacketQueued ==
    ASSUME IInv, dead = "no", stack # <<>>, NEW by \in Places, Enqueue(Cur, by),
           pk' = [pk EXCEPT ![Cur].fate = "queued"], stack' = Front(stack),
           UNCHANGED <<config, cmd, dead>>
    PROVE  IInv' /\ Life(Fate(pk), Fate(pk'))
<1> DEFINE s == [pk[Cur] EXCEPT !.fate = "queued"]
           it == Item(Cur, by)
<1>1. Cur \in Packet /\ pk \in [Packet -> Skb] /\ pk[Cur].fate = "path" /\ pk[Cur] \in Skb
      /\ Cur = stack[Len(stack)] /\ stack \in Seq(Packet) /\ nfsim_queue \in Seq(QueueItem)
      /\ Fate(pk) \in [Packet -> AnyFate] /\ Fresh(pk[Cur], up)
  BY CurFacts
<1>2. /\ queueid < MaxIds /\ nfsim_queue' = Append(nfsim_queue, it) /\ queueid' = queueid + 1
      /\ MaxIds \in Nat /\ queueid \in 0 .. MaxIds
  BY PacketsAssumption DEF Enqueue, IInv, TypeOK
<1>3. pk' = Put(pk, Cur, s)
  BY <1>1 DEF Put
<1> HIDE DEF Cur
<1>4. it \in QueueItem /\ it.id = queueid /\ it.skb = Cur
  <2>1. pk[Cur].hook \in Hook
    BY <1>1 DEF Skb
  <2> QED
    BY <1>1, <1>2, <2>1 DEF Item, QueueItem
<1>5. s \in Skb /\ s.fate = "queued" /\ Fresh(s, up)
  <2>1. /\ s \in Skb /\ s.fate = "queued" /\ s.exposed = pk[Cur].exposed
        /\ s.gone = pk[Cur].gone /\ s.hook = pk[Cur].hook /\ s.dev = pk[Cur].dev
        /\ s.dst = pk[Cur].dst
    BY <1>1 DEF Skb
  <2> QED
    BY <1>1, <2>1 DEF Fresh
<1> HIDE DEF s, it
<1>6. Fate(pk') = Put(Fate(pk), Cur, "queued") /\ pk' \in [Packet -> Skb]
  <2>1. s \in Skb /\ Cur \in Packet /\ pk \in [Packet -> Skb]
    BY <1>1, <1>5
  <2>2. Fate(pk') = Put(Fate(pk), Cur, s.fate) /\ pk' \in [Packet -> Skb]
    BY <1>3, <2>1, FateOfChanged
  <2> QED
    BY <1>5, <2>2
<1>7. Accounted(Fate(pk'), stack', nfsim_queue', cmd', queueid')
  <2>1. Accounted(Fate(pk), stack, nfsim_queue, cmd, queueid) /\ queueid \in Nat
    BY <1>2 DEF IInv
  <2> QED
    BY <1>1, <1>2, <1>4, <1>6, <2>1, BooksQueue
<1>8. TypeOK'
  <2>1. stack' \in Seq(Packet)
    BY <1>1, FrontProperties
  <2>2. nfsim_queue' \in Seq(QueueItem)
    BY <1>1, <1>2, <1>4
  <2>3. queueid' \in 0 .. MaxIds
    BY <1>2
  <2> QED
    BY <1>6, <2>1, <2>2, <2>3 DEF IInv, TypeOK, config, QueueItem
<1>9. \A p \in Packet : Fresh(pk'[p], up')
  <2>1. up' = up
    BY DEF config
  <2> QED
    BY <1>1, <1>3, <1>5, <2>1 DEF IInv, Put
<1>10. StaleHasACause'
  BY DEF StaleHasACause
<1>11. Life(Fate(pk), Fate(pk'))
  <2>1. Fate(pk)[Cur] = "path"
    BY <1>1 DEF Fate
  <2> QED
    BY <1>1, <1>6, <2>1 DEF Life
<1> QED
  BY <1>7, <1>8, <1>9, <1>10, <1>11 DEF IInv

\* A freed device or route is used, by a packet that has waited or by a walk along
\* the routes.
LEMMA GoesStale ==
    ASSUME IInv, Stale,
           \/ loopback \notin up
           \/ Dangling /\ LookingUp
           \/ stack # <<>> /\ pk[Cur].exposed,
           UNCHANGED <<nfsim_queue, queueid, config, cmd>>
    PROVE  IInv' /\ Life(Fate(pk), Fate(pk'))
<1>1. dead' = "stale" /\ pk' = pk /\ stack' = stack /\ up' = up /\ hand' = hand /\ lost' = lost
  BY DEF Stale, config
<1>2. TypeOK'
  BY <1>1 DEF IInv, TypeOK, config
<1>3. Accounted(Fate(pk'), stack', nfsim_queue', cmd', queueid')
  BY <1>1 DEF IInv
<1>4. StaleHasACause'
  BY <1>1 DEF StaleHasACause, Dangling, LookingUp, Cur, Depth
<1> QED
  BY <1>1, <1>2, <1>3, <1>4 DEF IInv, Life

-----------------------------------------------------------------------------
(* The steps of a packet. *)

\* The hook that decides is one of a module or of the hook command.
LEMMA OutcomeTyped ==
    ASSUME TypeOK, NEW h, NEW from, NEW o \in Outcomes(h, from)
    PROVE  o.by \in Places
<1>1. \A s \in shots : s.place \in Places
  BY DEF TypeOK
<1>2. MaxShots \in Nat
  BY PacketsAssumption
<1>3. [prio : ModulePrio, n : {0}] \subseteq Places
  BY <1>2 DEF Places
<1>4. Start \in Places
  BY <1>2 DEF Start, Places
<1> QED
  BY <1>1, <1>3, <1>4 DEF Outcomes

\* The hooks speak.
LEMMA HooksSayKeeps ==
    ASSUME IInv, HooksSay
    PROVE  IInv' /\ Life(Fate(pk), Fate(pk'))
<1>1. /\ dead = "no" /\ stack # <<>> /\ UNCHANGED <<config, cmd, dead>>
      /\ \E o \in Outcomes(pk[Cur].hook, pk[Cur].from) :
         \/ /\ o.v = "NF_ACCEPT"
            /\ pk' = [pk EXCEPT ![Cur].pc = "okfn"]
            /\ UNCHANGED <<stack, nfsim_queue, queueid>>
         \/ /\ o.v \in {"NF_DROP", "NF_STOLEN"}
            /\ pk' = [pk EXCEPT ![Cur] =
                        Late(IF o.v = "NF_DROP" THEN "dropped" ELSE "stolen")]
            /\ stack' = Front(stack)
            /\ UNCHANGED <<nfsim_queue, queueid>>
         \/ /\ o.v = "NF_QUEUE"
            /\ Enqueue(Cur, o.by)
            /\ pk' = [pk EXCEPT ![Cur].fate = "queued"]
            /\ stack' = Front(stack)
  BY Zenon DEF HooksSay, Running
<1>2. Cur \in Packet /\ pk \in [Packet -> Skb] /\ pk[Cur] \in Skb /\ pk[Cur].fate = "path"
      /\ Fresh(pk[Cur], up)
  BY <1>1, CurFacts
<1> HIDE DEF Cur
<1>3. CASE pk' = [pk EXCEPT ![Cur].pc = "okfn"] /\ UNCHANGED <<stack, nfsim_queue, queueid>>
  <2> DEFINE s == [pk[Cur] EXCEPT !.pc = "okfn"]
  <2>1. /\ s \in Skb /\ s.fate = "path" /\ s.exposed = pk[Cur].exposed
        /\ s.gone = pk[Cur].gone /\ s.hook = pk[Cur].hook /\ s.dev = pk[Cur].dev
        /\ s.dst = pk[Cur].dst
    BY <1>2 DEF Skb
  <2>2. pk' = Put(pk, Cur, s)
    BY <1>2, <1>3 DEF Put
  <2> HIDE DEF s
  <2>3. Fresh(s, up)
    BY <1>2, <2>1 DEF Fresh
  <2>4. s \in Skb /\ s.fate = "path"
    BY <2>1
  <2> QED
    BY <1>1, <1>3, <2>2, <2>3, <2>4, PacketStays
<1>4. ASSUME NEW x \in {"dropped", "stolen"}, pk' = [pk EXCEPT ![Cur] = Late(x)],
             stack' = Front(stack), UNCHANGED <<nfsim_queue, queueid>>
      PROVE  IInv' /\ Life(Fate(pk), Fate(pk'))
  <2>1. pk' = Put(pk, Cur, Late(x))
    BY <1>4 DEF Put
  <2>2. x \in {"sent", "local", "dropped", "stolen"}
    OBVIOUS
  <2> QED
    BY <1>1, <1>4, <2>1, <2>2, PacketEnds
<1>5. ASSUME NEW by \in Places, Enqueue(Cur, by), pk' = [pk EXCEPT ![Cur].fate = "queued"],
             stack' = Front(stack)
      PROVE  IInv' /\ Life(Fate(pk), Fate(pk'))
  BY <1>1, <1>5, PacketQueued
<1>6. \A o \in Outcomes(pk[Cur].hook, pk[Cur].from) : o.by \in Places
  BY OutcomeTyped DEF IInv
<1>7. PICK o \in Outcomes(pk[Cur].hook, pk[Cur].from) :
         \/ /\ o.v = "NF_ACCEPT"
            /\ pk' = [pk EXCEPT ![Cur].pc = "okfn"]
            /\ UNCHANGED <<stack, nfsim_queue, queueid>>
         \/ /\ o.v \in {"NF_DROP", "NF_STOLEN"}
            /\ pk' = [pk EXCEPT ![Cur] =
                        Late(IF o.v = "NF_DROP" THEN "dropped" ELSE "stolen")]
            /\ stack' = Front(stack)
            /\ UNCHANGED <<nfsim_queue, queueid>>
         \/ /\ o.v = "NF_QUEUE"
            /\ Enqueue(Cur, o.by)
            /\ pk' = [pk EXCEPT ![Cur].fate = "queued"]
            /\ stack' = Front(stack)
  BY <1>1, Zenon
<1>8. CASE o.v = "NF_DROP" /\ pk' = [pk EXCEPT ![Cur] = Late("dropped")]
           /\ stack' = Front(stack) /\ UNCHANGED <<nfsim_queue, queueid>>
  BY <1>4, <1>8
<1>9. CASE o.v = "NF_STOLEN" /\ pk' = [pk EXCEPT ![Cur] = Late("stolen")]
           /\ stack' = Front(stack) /\ UNCHANGED <<nfsim_queue, queueid>>
  BY <1>4, <1>9
<1> QED
  BY <1>3, <1>5, <1>6, <1>7, <1>8, <1>9

\* What a lookup finds leads to a device that is up, or to the loopback device.
LEMMA LookupTyped ==
    ASSUME TypeOK, NEW r \in Lookups
    PROVE  /\ r.dst \in Dev \cup {0} /\ r.owner \in Dev \cup {0} /\ r.local \in BOOLEAN
           /\ r.gone = FALSE /\ r.dst \in up \cup {loopback}
<1>1. up \subseteq Dev /\ routed \subseteq up
  BY DEF TypeOK
<1>2. loopback \in Dev
  BY PacketsAssumption DEF loopback, Dev
<1>3. CASE r \in [dst : {loopback}, owner : up, local : {TRUE}, gone : {FALSE}]
  BY <1>1, <1>2, <1>3
<1>4. ASSUME NEW d \in routed,
             r = [dst |-> d, owner |-> d, local |-> FALSE, gone |-> FALSE]
      PROVE  /\ r.dst \in Dev \cup {0} /\ r.owner \in Dev \cup {0} /\ r.local \in BOOLEAN
             /\ r.gone = FALSE /\ r.dst \in up \cup {loopback}
  BY <1>1, <1>4
<1>5. ASSUME NEW d \in hand \cap up,
             r = [dst |-> d, owner |-> 0, local |-> FALSE, gone |-> FALSE]
      PROVE  /\ r.dst \in Dev \cup {0} /\ r.owner \in Dev \cup {0} /\ r.local \in BOOLEAN
             /\ r.gone = FALSE /\ r.dst \in up \cup {loopback}
  BY <1>1, <1>5
<1> QED
  BY <1>3, <1>4, <1>5 DEF Lookups

\* A packet with a route, in front of a hook.
LEMMA Placed ==
    ASSUME NEW s \in Skb, NEW h \in Hook
    PROVE  LET t == AtHook(s, h)
           IN  /\ t \in Skb /\ t.fate = s.fate /\ t.hook = h /\ t.dev = s.dev
               /\ t.dst = s.dst /\ t.gone = s.gone /\ t.exposed = s.exposed
<1>1. Start \in Place
  BY DEF Start, Place
<1> QED
  BY <1>1 DEF AtHook, Skb

\* A packet gets a route.
LEMMA Routed ==
    ASSUME TypeOK, NEW s \in Skb, NEW r \in Lookups
    PROVE  LET t == WithDst(s, r)
           IN  /\ t \in Skb /\ t.fate = s.fate /\ t.hook = s.hook /\ t.dev = s.dev
               /\ t.dst = r.dst /\ t.gone = FALSE /\ t.exposed = s.exposed
               /\ t.dst \in up \cup {loopback}
<1>1. /\ r.dst \in Dev \cup {0} /\ r.owner \in Dev \cup {0} /\ r.local \in BOOLEAN
      /\ r.gone = FALSE /\ r.dst \in up \cup {loopback}
  BY LookupTyped
<1> QED
  BY <1>1 DEF WithDst, Skb

\* The hooks have accepted a packet that has come in.
LEMMA IpRcvFinishKeeps ==
    ASSUME IInv, IpRcvFinish
    PROVE  IInv' /\ Life(Fate(pk), Fate(pk'))
<1>1. /\ dead = "no" /\ stack # <<>> /\ pk[Cur].hook = "PRE_ROUTING"
      /\ UNCHANGED <<config, nfsim_queue, queueid, cmd>>
  BY DEF IpRcvFinish, Running
<1>2. Cur \in Packet /\ pk \in [Packet -> Skb] /\ pk[Cur] \in Skb /\ pk[Cur].fate = "path"
      /\ Fresh(pk[Cur], up)
  BY <1>1, CurFacts
<1>3. CASE pk[Cur].dev \notin up /\ Stale
  <2>1. pk[Cur].exposed
    BY <1>1, <1>2, <1>3 DEF Fresh
  <2> QED
    BY <1>1, <1>3, <2>1, GoesStale
<1>7. CASE WalkIsStale
  BY <1>1, <1>7, GoesStale DEF WalkIsStale, LookingUp
<1>4. CASE Ended("dropped")
  <2>1. pk' = Put(pk, Cur, Late("dropped")) /\ stack' = Front(stack) /\ UNCHANGED dead
    BY <1>4 DEF Ended, Put
  <2> QED
    BY <1>1, <2>1, PacketEnds
<1> HIDE DEF Cur
<1>5. ASSUME NEW r \in Lookups, UNCHANGED <<stack, dead>>,
             NEW q \in (IF r.local THEN {AtHook(WithDst(pk[Cur], r), "LOCAL_IN")}
                        ELSE {AtHook(WithDst(pk[Cur], r), "FORWARD"),
                              [WithDst(pk[Cur], r) EXCEPT !.pc = "dying"]}),
             pk' = [pk EXCEPT ![Cur] = q]
      PROVE  IInv' /\ Life(Fate(pk), Fate(pk'))
  <2> DEFINE p == WithDst(pk[Cur], r)
  <2>1. /\ p \in Skb /\ p.fate = "path" /\ p.hook = "PRE_ROUTING" /\ p.dev = pk[Cur].dev
        /\ p.gone = FALSE /\ p.exposed = pk[Cur].exposed /\ p.dst \in up \cup {loopback}
    BY <1>1, <1>2, Routed DEF IInv
  <2>2. \/ q = AtHook(p, "LOCAL_IN") \/ q = AtHook(p, "FORWARD")
        \/ q = [p EXCEPT !.pc = "dying"]
    BY <1>5
  <2> HIDE DEF p
  <2>3. ASSUME NEW h \in {"LOCAL_IN", "FORWARD"}, q = AtHook(p, h)
        PROVE  q \in Skb /\ q.fate = "path" /\ Fresh(q, up)
    <3>1. h \in Hook /\ p \in Skb
      BY <2>1 DEF Hook
    <3>2. /\ q \in Skb /\ q.fate = p.fate /\ q.hook = h /\ q.dev = p.dev
          /\ q.dst = p.dst /\ q.gone = p.gone /\ q.exposed = p.exposed
      BY <2>3, <3>1, Placed
    <3> QED
      BY <2>1, <3>2 DEF Fresh
  <2>4. ASSUME q = [p EXCEPT !.pc = "dying"]
        PROVE  q \in Skb /\ q.fate = "path" /\ Fresh(q, up)
    <3>1. /\ q \in Skb /\ q.fate = p.fate /\ q.hook = p.hook /\ q.dev = p.dev
          /\ q.dst = p.dst /\ q.gone = p.gone /\ q.exposed = p.exposed
      BY <2>1, <2>4 DEF Skb
    <3> QED
      BY <1>1, <1>2, <2>1, <3>1 DEF Fresh
  <2>5. q \in Skb /\ q.fate = "path" /\ Fresh(q, up)
    BY <2>2, <2>3, <2>4
  <2>6. pk' = Put(pk, Cur, q)
    BY <1>5 DEF Put
  <2> QED
    BY <1>1, <1>5, <2>5, <2>6, PacketStays
<1>6. \/ pk[Cur].dev \notin up /\ Stale
      \/ WalkIsStale
      \/ Ended("dropped")
      \/ /\ \E r \in Lookups :
              \E q \in (IF r.local THEN {AtHook(WithDst(pk[Cur], r), "LOCAL_IN")}
                        ELSE {AtHook(WithDst(pk[Cur], r), "FORWARD"),
                              [WithDst(pk[Cur], r) EXCEPT !.pc = "dying"]}) :
                pk' = [pk EXCEPT ![Cur] = q]
         /\ UNCHANGED <<stack, dead>>
  BY Zenon DEF IpRcvFinish
<1> QED
  BY <1>3, <1>4, <1>5, <1>6, <1>7

\* Walks along the routes that meet something freed: for an ICMP packet, or of a
\* command.
LEMMA WalkKeeps ==
    ASSUME IInv, IcmpStale \/ CommandIsStale
    PROVE  IInv' /\ Life(Fate(pk), Fate(pk'))
<1>1. WalkIsStale /\ UNCHANGED <<config, nfsim_queue, queueid, cmd>>
  BY DEF IcmpStale, CommandIsStale
<1>2. CASE CommandIsStale
  <2>1. stack = <<>>
    BY <1>2 DEF CommandIsStale, Prompt, IInv, Accounted
  <2> QED
    BY <1>1, <2>1, GoesStale DEF WalkIsStale, LookingUp
<1>3. CASE IcmpStale
  BY <1>1, <1>3, GoesStale DEF WalkIsStale, LookingUp, IcmpStale, Running
<1> QED
  BY <1>2, <1>3

\* The hooks have accepted a packet that goes out, before its device is set.
LEMMA DstOutputKeeps ==
    ASSUME IInv, DstOutput
    PROVE  IInv' /\ Life(Fate(pk), Fate(pk'))
<1>1. /\ dead = "no" /\ stack # <<>> /\ pk[Cur].hook \in {"FORWARD", "LOCAL_OUT"}
      /\ UNCHANGED <<config, nfsim_queue, queueid, cmd>>
  BY DEF DstOutput, Running
<1>2. Cur \in Packet /\ pk \in [Packet -> Skb] /\ pk[Cur] \in Skb /\ pk[Cur].fate = "path"
      /\ Fresh(pk[Cur], up)
  BY <1>1, CurFacts
<1>3. CASE pk[Cur].gone /\ Stale
  <2>1. pk[Cur].exposed
    BY <1>1, <1>2, <1>3 DEF Fresh
  <2> QED
    BY <1>1, <1>3, <2>1, GoesStale
<1> DEFINE t == AtHook(pk[Cur], "POST_ROUTING")
           s == [t EXCEPT !.dev = pk[Cur].dst]
<1>4. CASE ~pk[Cur].gone /\ pk' = [pk EXCEPT ![Cur] = s] /\ UNCHANGED <<stack, dead>>
  <2>1. "POST_ROUTING" \in Hook /\ pk[Cur].dst \in Dev \cup {0}
    BY <1>2 DEF Hook, Skb
  <2>2. /\ t \in Skb /\ t.fate = "path" /\ t.hook = "POST_ROUTING" /\ t.dst = pk[Cur].dst
        /\ t.gone = pk[Cur].gone /\ t.exposed = pk[Cur].exposed
    BY <1>2, <2>1, Placed
  <2> HIDE DEF t, Cur
  <2>3. /\ s \in Skb /\ s.fate = "path" /\ s.hook = "POST_ROUTING" /\ s.dev = pk[Cur].dst
        /\ s.gone = pk[Cur].gone /\ s.exposed = pk[Cur].exposed
    BY <2>1, <2>2 DEF Skb
  <2>4. pk' = Put(pk, Cur, s)
    BY <1>4 DEF Put
  <2> HIDE DEF s
  <2>5. Fresh(s, up)
    BY <1>1, <1>2, <1>4, <2>3 DEF Fresh
  <2>6. s \in Skb /\ s.fate = "path"
    BY <2>3
  <2> QED
    BY <1>1, <1>4, <2>4, <2>5, <2>6, PacketStays
<1>5. \/ pk[Cur].gone /\ Stale
      \/ ~pk[Cur].gone /\ pk' = [pk EXCEPT ![Cur] = s] /\ UNCHANGED <<stack, dead>>
  BY <1>2 DEF DstOutput
<1> QED
  BY <1>3, <1>4, <1>5

\* The hooks have accepted a packet on its last way: it is sent, or delivered.
LEMMA SendKeeps ==
    ASSUME IInv, NfSend \/ NfSendLocal \/ Expired
    PROVE  IInv' /\ Life(Fate(pk), Fate(pk'))
<1>1. /\ dead = "no" /\ stack # <<>>
      /\ UNCHANGED <<config, nfsim_queue, queueid, cmd>>
  BY DEF NfSend, NfSendLocal, Expired, Running
<1>2. ASSUME NEW x \in {"sent", "local", "dropped"}, Ended(x)
      PROVE  IInv' /\ Life(Fate(pk), Fate(pk'))
  <2>1. pk' = Put(pk, Cur, Late(x)) /\ stack' = Front(stack) /\ UNCHANGED dead
    BY <1>2 DEF Ended, Put
  <2>2. x \in {"sent", "local", "dropped", "stolen"}
    OBVIOUS
  <2> QED
    BY <1>1, <2>1, <2>2, PacketEnds
<1>3. CASE pk[Cur].hook = "POST_ROUTING" /\ pk[Cur].dev \notin up /\ Stale
  <2>1. Fresh(pk[Cur], up) /\ pk[Cur].fate = "path"
    BY <1>1, CurFacts
  <2>2. loopback \notin up \/ pk[Cur].exposed
    BY <1>3, <2>1 DEF Fresh
  <2> QED
    BY <1>1, <1>3, <2>2, GoesStale
<1> QED
  BY <1>2, <1>3 DEF NfSend, NfSendLocal, Expired

-----------------------------------------------------------------------------
(* Packets that enter. *)

\* A packet enters with a device that is up, or with a route.
LEMMA PacketEnters ==
    ASSUME IInv, dead = "no", NEW p \in Packet, pk[p].fate = "unborn",
           NEW k \in [Packet -> Skb], Fate(k) = Fate(pk), \A o \in Packet : Fresh(k[o], up),
           NEW s \in Skb, s.fate = "path", Fresh(s, up),
           pk' = Put(k, p, s), stack' = Append(stack, p),
           cmd' = cmd \/ (cmd = NoCommand /\ cmd'.op = "gen_ip"),
           cmd' # NoCommand, cmd' \in AnyCommand,
           UNCHANGED <<nfsim_queue, queueid, config, dead>>
    PROVE  IInv' /\ Life(Fate(pk), Fate(pk'))
<1>1. /\ stack \in Seq(Packet) /\ nfsim_queue \in Seq(QueueItem) /\ pk \in [Packet -> Skb]
      /\ Accounted(Fate(pk), stack, nfsim_queue, cmd, queueid)
  BY DEF IInv, TypeOK, QueueItem
<1>2. Fate(pk') = Put(Fate(pk), p, "path") /\ pk' \in [Packet -> Skb]
      /\ Fate(pk) \in [Packet -> AnyFate]
  <2>1. Fate(pk') = Put(Fate(k), p, s.fate) /\ pk' \in [Packet -> Skb]
        /\ Fate(k) \in [Packet -> AnyFate]
    BY FateOfChanged
  <2> QED
    BY <2>1
<1>3. Fate(pk)[p] = "unborn"
  BY DEF Fate
<1>4. Accounted(Fate(pk'), stack', nfsim_queue', cmd', queueid')
  <2>1. cmd' = cmd \/ (cmd.op # "queue" /\ cmd'.op # "queue")
    BY DEF NoCommand
  <2>2. Accounted(Fate(pk'), stack', nfsim_queue, cmd', queueid)
    BY <1>1, <1>2, <1>3, <2>1, BooksEnter
  <2> QED
    BY <2>2
<1>5. TypeOK'
  <2>1. stack' \in Seq(Packet)
    BY <1>1
  <2> QED
    BY <1>2, <2>1 DEF IInv, TypeOK, config, AnyCommand
<1>6. \A o \in Packet : Fresh(pk'[o], up')
  <2>1. up' = up
    BY DEF config
  <2> QED
    BY <2>1 DEF Put
<1>7. StaleHasACause'
  BY DEF StaleHasACause
<1>8. Life(Fate(pk), Fate(pk'))
  BY <1>2, <1>3 DEF Life
<1> QED
  BY <1>4, <1>5, <1>6, <1>7, <1>8 DEF IInv

\* A packet that goes out gets its route before it meets a hook.
LEMMA OutgoingFresh ==
    ASSUME TypeOK, NEW r \in Lookups, NEW d \in Dev \cup {0}, NEW s,
           s = [WithDst(AtHook(Unborn, "LOCAL_OUT"), r) EXCEPT !.fate = "path", !.dev = d]
    PROVE  s \in Skb /\ s.fate = "path" /\ Fresh(s, up)
<1> DEFINE t == AtHook(Unborn, "LOCAL_OUT")
           u == WithDst(t, r)
<1>1. "LOCAL_OUT" \in Hook /\ Unborn \in Skb
  BY UnbornTyped DEF Hook
<1>2. t \in Skb /\ t.hook = "LOCAL_OUT"
  BY <1>1, Placed
<1> HIDE DEF t
<1>3. /\ u \in Skb /\ u.hook = "LOCAL_OUT" /\ u.gone = FALSE
      /\ u.dst \in up \cup {loopback}
  BY <1>2, Routed
<1>4. s = [u EXCEPT !.fate = "path", !.dev = d]
  BY DEF t
<1> HIDE DEF u
<1>5. s \in Skb /\ s.fate = "path" /\ s.hook = "LOCAL_OUT" /\ s.gone = FALSE
      /\ s.dst \in up \cup {loopback}
  BY <1>3, <1>4 DEF Skb
<1> QED
  BY <1>5 DEF Fresh

\* gen_ip sends a packet, from outside or from this host.
LEMMA GenIpKeeps ==
    ASSUME IInv,
           \/ \E p \in Packet, d \in Dev : GenIp(p, d)
           \/ \E p \in Packet, r \in Lookups : GenIpLocal(p, r)
    PROVE  IInv' /\ Life(Fate(pk), Fate(pk'))
<1>1. /\ dead = "no" /\ cmd = NoCommand
      /\ cmd' = [op |-> "gen_ip", item |-> 0]
      /\ UNCHANGED <<config, nfsim_queue, queueid, dead>>
  BY DEF GenIp, GenIpLocal, Prompt
<1>2. stack = <<>> /\ pk \in [Packet -> Skb] /\ \A o \in Packet : Fresh(pk[o], up)
  BY <1>1 DEF IInv, Accounted, TypeOK
<1>3. cmd' \in AnyCommand /\ cmd' # NoCommand /\ cmd'.op = "gen_ip"
  <2>1. 0 \in 0 .. MaxIds
    BY PacketsAssumption
  <2> QED
    BY <1>1, <2>1 DEF AnyCommand, NoCommand
<1>4. ASSUME NEW p \in Packet, NEW s \in Skb, pk[p].fate = "unborn", s.fate = "path",
             Fresh(s, up), pk' = [pk EXCEPT ![p] = s], stack' = <<p>>
      PROVE  IInv' /\ Life(Fate(pk), Fate(pk'))
  <2>1. pk' = Put(pk, p, s)
    BY <1>4 DEF Put
  <2>2. stack' = Append(stack, p)
    BY <1>2, <1>4
  <2> QED
    BY <1>1, <1>2, <1>3, <1>4, <2>1, <2>2, PacketEnters
<1>5. ASSUME NEW p \in Packet, NEW d \in Dev, GenIp(p, d)
      PROVE  IInv' /\ Life(Fate(pk), Fate(pk'))
  <2> DEFINE s == [Unborn EXCEPT !.fate = "path", !.dev = d]
  <2>1. /\ d \in up /\ pk[p].fate = "unborn" /\ pk' = [pk EXCEPT ![p] = s] /\ stack' = <<p>>
    BY <1>5 DEF GenIp
  <2>2. s \in Skb /\ s.fate = "path" /\ s.hook = "PRE_ROUTING" /\ s.dev = d /\ ~s.gone
    BY UnbornTyped DEF Skb
  <2> HIDE DEF s
  <2>3. Fresh(s, up)
    BY <2>1, <2>2 DEF Fresh
  <2>4. s \in Skb /\ s.fate = "path"
    BY <2>2
  <2> QED
    BY <1>4, <2>1, <2>3, <2>4
<1>6. ASSUME NEW p \in Packet, NEW r \in Lookups, GenIpLocal(p, r)
      PROVE  IInv' /\ Life(Fate(pk), Fate(pk'))
  <2> DEFINE s == [WithDst(AtHook(Unborn, "LOCAL_OUT"), r) EXCEPT !.fate = "path",
                                                                  !.dev = r.dst]
  <2>1. pk[p].fate = "unborn" /\ pk' = [pk EXCEPT ![p] = s] /\ stack' = <<p>>
    BY <1>6 DEF GenIpLocal
  <2>2. r.dst \in Dev \cup {0}
    BY LookupTyped DEF IInv
  <2>3. s \in Skb /\ s.fate = "path" /\ Fresh(s, up)
    BY <2>2, OutgoingFresh DEF IInv
  <2> HIDE DEF s
  <2> QED
    BY <1>4, <2>1, <2>3
<1> QED
  BY <1>5, <1>6

\* The host sends an ICMP packet about the innermost one.
LEMMA IcmpSendKeeps ==
    ASSUME IInv, NEW q \in Packet, NEW r \in Lookups, IcmpSend(q, r)
    PROVE  IInv' /\ Life(Fate(pk), Fate(pk'))
<1> DEFINE pl == [prio |-> 1, n |-> 0]
           a == [pk[Cur] EXCEPT !.from = pl]
           s == [WithDst(AtHook(Unborn, "LOCAL_OUT"), r) EXCEPT !.fate = "path"]
           k == [pk EXCEPT ![Cur] = a]
<1>1. /\ dead = "no" /\ stack # <<>> /\ pk[q].fate = "unborn"
      /\ stack' = Append(stack, q)
      /\ UNCHANGED <<config, nfsim_queue, queueid, cmd, dead>>
  BY DEF IcmpSend, Running
<1>2. pk' = [pk EXCEPT ![Cur].from = pl, ![q] = s]
  BY DEF IcmpSend
<1>3. Cur \in Packet /\ pk \in [Packet -> Skb] /\ pk[Cur] \in Skb /\ pk[Cur].fate = "path"
      /\ Fresh(pk[Cur], up) /\ cmd # NoCommand
  BY <1>1, CurFacts
<1> HIDE DEF Cur
<1>4. pl \in Place
  BY DEF Place
<1> HIDE DEF pl
<1>5. /\ a \in Skb /\ a.fate = "path" /\ a.exposed = pk[Cur].exposed
      /\ a.gone = pk[Cur].gone /\ a.hook = pk[Cur].hook /\ a.dev = pk[Cur].dev
      /\ a.dst = pk[Cur].dst
  BY <1>3, <1>4 DEF Skb
<1>6. Fresh(a, up)
  BY <1>3, <1>5 DEF Fresh
<1>7. s \in Skb /\ s.fate = "path" /\ Fresh(s, up)
  <2> DEFINE u == WithDst(AtHook(Unborn, "LOCAL_OUT"), r)
  <2>1. "LOCAL_OUT" \in Hook /\ Unborn \in Skb
    BY UnbornTyped DEF Hook
  <2>2. AtHook(Unborn, "LOCAL_OUT") \in Skb
    BY <2>1, Placed
  <2>3. u \in Skb
    BY <2>2, Routed DEF IInv
  <2>4. u.dev \in Dev \cup {0}
    BY <2>3 DEF Skb
  <2>5. s = [u EXCEPT !.fate = "path", !.dev = u.dev]
    <3> HIDE DEF u
    <3>1. s = [u EXCEPT !.fate = "path"]
      BY DEF u
    <3> QED
      BY <2>3, <3>1 DEF Skb
  <2> QED
    BY <2>4, <2>5, OutgoingFresh DEF IInv
<1> HIDE DEF s
<1>8. pk' = [k EXCEPT ![q] = s]
  BY <1>2, <1>3
<1> HIDE DEF a
<1>9. k \in [Packet -> Skb] /\ \A o \in Packet : Fresh(k[o], up)
  BY <1>3, <1>5, <1>6 DEF IInv
<1>10. Fate(k) = Fate(pk)
  <2>1. k = Put(pk, Cur, a)
    BY DEF Put
  <2> HIDE DEF k
  <2>2. a \in Skb /\ Cur \in Packet /\ pk \in [Packet -> Skb]
    BY <1>3, <1>5
  <2>3. Fate(k) = Put(Fate(pk), Cur, a.fate) /\ Fate(pk) \in [Packet -> AnyFate]
    BY <2>1, <2>2, FateOfChanged
  <2>4. Fate(pk)[Cur] = a.fate
    BY <1>3, <1>5 DEF Fate
  <2> QED
    BY <2>2, <2>3, <2>4 DEF Put
<1> HIDE DEF k
<1>11. pk' = Put(k, q, s)
  BY <1>8 DEF Put
<1>12. cmd' = cmd /\ cmd' \in AnyCommand /\ cmd' # NoCommand
  BY <1>1, <1>3 DEF IInv, TypeOK, AnyCommand
<1>13. s \in Skb /\ k \in [Packet -> Skb]
  BY <1>7, <1>9
<1> QED
  BY <1>1, <1>7, <1>9, <1>10, <1>11, <1>12, <1>13, PacketEnters

-----------------------------------------------------------------------------
(* Commands. *)

\* Commands that leave the packets alone.
LEMMA NoPacketKeeps ==
    ASSUME IInv, dead = "no", GenIpFails \/ GenIpEnds \/ QueueEmpty
    PROVE  IInv' /\ Life(Fate(pk), Fate(pk'))
<1>1. /\ UNCHANGED <<pk, stack, nfsim_queue, queueid, nshots, up, routed, hand, lost>>
      /\ shots' \in {shots, {}}
      /\ dead' \in {"no", "empty", "free"}
  BY DEF GenIpFails, GenIpEnds, QueueEmpty, config, tables
<1>2. \/ cmd' = cmd
      \/ stack = <<>> /\ cmd.op # "queue" /\ cmd'.op # "queue" /\ cmd' \in AnyCommand
  <2>1. 0 \in 0 .. MaxIds
    BY PacketsAssumption
  <2>2. CASE GenIpFails
    <3>1. stack = <<>>
      BY <2>2 DEF GenIpFails, Prompt, IInv, Accounted
    <3> QED
      BY <2>1, <2>2, <3>1 DEF GenIpFails, Prompt, NoCommand, AnyCommand
  <2>3. CASE GenIpEnds
    BY <2>1, <2>3 DEF GenIpEnds, NoCommand, AnyCommand
  <2>4. CASE QueueEmpty
    BY <2>4 DEF QueueEmpty
  <2> QED
    BY <2>2, <2>3, <2>4
<1>3. Accounted(Fate(pk), stack, nfsim_queue, cmd', queueid)
  <2>1. Accounted(Fate(pk), stack, nfsim_queue, cmd, queueid)
    BY DEF IInv
  <2> QED
    BY <1>2, <2>1, BooksCommand
<1>4. TypeOK'
  BY <1>1, <1>2 DEF IInv, TypeOK, AnyCommand
<1>5. StaleHasACause'
  BY <1>1 DEF StaleHasACause
<1> QED
  BY <1>1, <1>3, <1>4, <1>5 DEF IInv, Life

\* The hook command.
LEMMA HookCmdKeeps ==
    ASSUME IInv, NEW h \in ShotHook, NEW prio \in ShotPrio,
           NEW v \in {"NF_ACCEPT", "NF_DROP", "NF_QUEUE"}, HookCmd(h, prio, v)
    PROVE  IInv' /\ Life(Fate(pk), Fate(pk'))
<1> DEFINE pl == [prio |-> prio, n |-> nshots + 1]
           s == [hook |-> h, verdict |-> v, place |-> pl]
<1>1. /\ dead = "no" /\ nshots < MaxShots /\ shots' = shots \cup {s} /\ nshots' = nshots + 1
      /\ UNCHANGED <<pk, stack, nfsim_queue, queueid, up, routed, hand, lost, cmd, dead>>
  BY DEF HookCmd, Prompt, tables
<1>2. nshots + 1 \in 0 .. MaxShots
  BY <1>1, PacketsAssumption DEF IInv, TypeOK
<1>3. pl \in Places
  BY <1>2 DEF Places
<1> HIDE DEF pl
<1>4. s \in [hook : ShotHook, verdict : Verdict, place : Places]
  BY <1>3 DEF Verdict
<1> HIDE DEF s
<1>5. TypeOK'
  BY <1>1, <1>2, <1>4 DEF IInv, TypeOK
<1>6. StaleHasACause'
  BY <1>1 DEF StaleHasACause
<1> QED
  BY <1>1, <1>5, <1>6 DEF IInv, Life

\* Where an item on the queue came from is a place a packet may be sent back to.
LEMMA PlacesArePlaces ==
    ASSUME NEW b \in Places
    PROVE  b \in Place
<1>1. ModulePrio \cup ShotPrio \cup {0} \subseteq Nat /\ 0 .. MaxShots \subseteq Int
  BY PacketsAssumption
<1> QED
  BY <1>1 DEF Places, Place

\* A packet is reinjected.
LEMMA ReinjectKeeps ==
    ASSUME IInv, NEW i, NEW v \in Verdict, Reinject(i, v)
    PROVE  IInv' /\ Life(Fate(pk), Fate(pk'))
<1> DEFINE it == nfsim_queue[i]
           p == it.skb
           w == IF it.by.n = 0 \/ \E s \in shots : s.place = it.by THEN v ELSE "NF_DROP"
<1>1. /\ dead = "no" /\ cmd = NoCommand /\ i \in DOMAIN nfsim_queue
      /\ cmd' = [op |-> "queue", item |-> it.id] /\ UNCHANGED <<config, dead>>
  BY DEF Reinject, Prompt
<1>2. /\ stack = <<>> /\ pk \in [Packet -> Skb] /\ nfsim_queue \in Seq(QueueItem)
      /\ queueid \in 0 .. MaxIds
  BY <1>1 DEF IInv, Accounted, TypeOK, QueueItem
<1>3. it \in QueueItem
  BY <1>1, <1>2
<1>4. p \in Packet /\ it.by \in Places /\ it.id \in 0 .. MaxIds /\ it.hook \in Hook
  BY <1>3 DEF QueueItem
<1>5. cmd'.op = "queue" /\ cmd'.item = it.id /\ cmd' \in AnyCommand
  BY <1>1, <1>4 DEF AnyCommand
<1>6. Accounted(Fate(pk), <<>>, nfsim_queue, NoCommand, queueid)
  BY <1>1, <1>2 DEF IInv
<1>7. Fate(pk) \in [Packet -> AnyFate]
  <2>1. pk[p] \in Skb
    BY <1>2, <1>4
  <2>2. pk = Put(pk, p, pk[p])
    BY <1>2, <1>4 DEF Put
  <2> QED
    BY <1>2, <1>4, <2>1, <2>2, FateOfChanged
<1>8. Fate(pk)[p] = "queued"
  <2>1. Live(nfsim_queue, NoCommand, i)
    BY DEF Live, NoCommand
  <2> QED
    BY <1>1, <1>6, <2>1 DEF Accounted, Held
<1>9. pk[p].fate = "queued" /\ pk[p] \in Skb
  BY <1>2, <1>4, <1>8 DEF Fate
<1>10. StaleHasACause'
  BY <1>1 DEF StaleHasACause
<1>11. Fresh(pk[p], up) /\ up' = up
  BY <1>1, <1>4 DEF IInv, config
<1>12. ASSUME NEW x \in {"path", "dropped", "stolen"}, NEW s \in Skb, s.fate = x, Fresh(s, up),
              pk' = [pk EXCEPT ![p] = s], stack' = IF x = "path" THEN <<p>> ELSE <<>>,
              UNCHANGED <<nfsim_queue, queueid>>
       PROVE  IInv' /\ Life(Fate(pk), Fate(pk'))
  <2> HIDE DEF p
  <2>1. pk' = Put(pk, p, s)
    BY <1>12 DEF Put
  <2>2. Fate(pk') = Put(Fate(pk), p, x) /\ pk' \in [Packet -> Skb]
    <3>1. Fate(pk') = Put(Fate(pk), p, s.fate) /\ pk' \in [Packet -> Skb]
      BY <1>2, <1>4, <2>1, FateOfChanged
    <3> QED
      BY <1>12, <3>1
  <2>3. Accounted(Fate(pk'), stack', nfsim_queue, cmd', queueid)
    <3>1. x \in {"path", "sent", "local", "dropped", "stolen"} /\ p = nfsim_queue[i].skb
      BY DEF p
    <3> QED
      BY <1>1, <1>2, <1>5, <1>6, <1>7, <1>12, <2>2, <3>1, BooksReinject
  <2>4. stack' \in Seq(Packet)
    <3>1. <<p>> \in Seq(Packet) /\ <<>> \in Seq(Packet)
      BY <1>4
    <3>2. stack' = <<p>> \/ stack' = <<>>
      BY <1>12
    <3> QED
      BY <3>1, <3>2
  <2>5. TypeOK'
    BY <1>1, <1>5, <1>12, <2>2, <2>4 DEF IInv, TypeOK, AnyCommand, config
  <2>6. \A o \in Packet : Fresh(pk'[o], up')
    BY <1>2, <1>4, <1>11, <1>12 DEF IInv
  <2>7. Life(Fate(pk), Fate(pk'))
    <3>1. CASE x = "path"
      BY <1>4, <1>8, <2>2, <3>1 DEF Life
    <3>2. CASE x # "path"
      <4>1. x \in {"sent", "local", "dropped", "stolen"}
        BY <3>2
      <4> QED
        BY <1>4, <1>8, <2>2, <4>1 DEF Life
    <3> QED
      BY <3>1, <3>2
  <2> QED
    BY <1>10, <1>12, <2>3, <2>5, <2>6, <2>7 DEF IInv
<1>13. ASSUME NEW x \in {"dropped", "stolen"}, pk' = [pk EXCEPT ![p] = Late(x)],
              UNCHANGED <<stack, nfsim_queue, queueid>>
       PROVE  IInv' /\ Life(Fate(pk), Fate(pk'))
  <2> DEFINE s == Late(x)
  <2>1. s \in Skb /\ s.fate = x
    BY UnbornTyped DEF Late, Skb
  <2>2. pk' = [pk EXCEPT ![p] = s] /\ x \in {"path", "dropped", "stolen"}
    BY <1>13
  <2> HIDE DEF s
  <2>3. Fresh(s, up)
    BY <2>1 DEF Fresh
  <2>4. stack' = IF x = "path" THEN <<p>> ELSE <<>>
    BY <1>2, <1>13
  <2>5. s \in Skb
    BY <2>1
  <2> QED
    BY <1>12, <1>13, <2>1, <2>2, <2>3, <2>4, <2>5
<1>14. ASSUME NEW f \in Place, pk' = [pk EXCEPT ![p].fate = "path", ![p].from = f],
              stack' = <<p>>, UNCHANGED <<nfsim_queue, queueid>>
       PROVE  IInv' /\ Life(Fate(pk), Fate(pk'))
  <2> HIDE DEF p
  <2> DEFINE x == "path"
             s == [pk[p] EXCEPT !.fate = "path", !.from = f]
  <2>1. /\ s \in Skb /\ s.fate = "path" /\ s.exposed = pk[p].exposed
        /\ s.gone = pk[p].gone /\ s.hook = pk[p].hook /\ s.dev = pk[p].dev
        /\ s.dst = pk[p].dst
    BY <1>9 DEF Skb
  <2>2. pk' = [pk EXCEPT ![p] = s]
    BY <1>2, <1>4, <1>14
  <2> HIDE DEF s
  <2>3. Fresh(s, up)
    BY <1>9, <1>11, <2>1 DEF Fresh
  <2>4. x \in {"path", "dropped", "stolen"} /\ stack' = IF x = "path" THEN <<p>> ELSE <<>>
    BY <1>14
  <2>5. s \in Skb /\ s.fate = x
    BY <2>1
  <2> HIDE DEF x
  <2> QED
    BY <1>12, <1>14, <2>2, <2>3, <2>4, <2>5
<1>15. ASSUME Enqueue(p, it.by), UNCHANGED <<pk, stack>>
       PROVE  IInv' /\ Life(Fate(pk), Fate(pk'))
  <2> DEFINE n == Item(p, it.by)
  <2>1. queueid < MaxIds /\ nfsim_queue' = Append(nfsim_queue, n) /\ queueid' = queueid + 1
    BY <1>15 DEF Enqueue
  <2>2. MaxIds \in Nat /\ queueid \in Nat /\ queueid' \in 0 .. MaxIds
    BY <1>2, <2>1, PacketsAssumption
  <2>3. n \in QueueItem /\ n.id = queueid /\ n.skb = p
    <3>1. pk[p].hook \in Hook
      BY <1>9 DEF Skb
    <3> HIDE DEF p, it
    <3> QED
      BY <1>2, <1>4, <3>1 DEF Item, QueueItem
  <2> HIDE DEF n
  <2>4. Accounted(Fate(pk), <<>>, nfsim_queue', cmd', queueid + 1)
    <3>1. n \in QueueItem /\ n.id = queueid /\ n.skb = nfsim_queue[i].skb /\ queueid \in Nat
      BY <2>2, <2>3
    <3> QED
      BY <1>1, <1>2, <1>5, <1>6, <1>7, <2>1, <3>1, BooksRequeue
  <2>5. nfsim_queue' \in Seq(QueueItem)
    BY <1>2, <2>1, <2>3
  <2>6. TypeOK'
    BY <1>1, <1>5, <1>15, <2>2, <2>5 DEF IInv, TypeOK, AnyCommand, config, QueueItem
  <2> QED
    BY <1>2, <1>10, <1>11, <1>15, <2>1, <2>4, <2>6 DEF IInv, Life
<1>16. \/ /\ w \in {"NF_DROP", "NF_STOLEN"}
          /\ pk' = [pk EXCEPT ![p] = Late(IF w = "NF_DROP" THEN "dropped" ELSE "stolen")]
          /\ UNCHANGED <<stack, nfsim_queue, queueid>>
       \/ /\ w \in {"NF_ACCEPT", "NF_REPEAT"}
          /\ pk' = [pk EXCEPT ![p].fate = "path",
                      ![p].from = IF w = "NF_ACCEPT" THEN it.by
                                  ELSE [it.by EXCEPT !.n = it.by.n - 1]]
          /\ stack' = <<p>>
          /\ UNCHANGED <<nfsim_queue, queueid>>
       \/ /\ w = "NF_QUEUE"
          /\ Enqueue(p, it.by)
          /\ UNCHANGED <<pk, stack>>
  BY Zenon DEF Reinject
<1>17. it.by \in Place /\ [it.by EXCEPT !.n = it.by.n - 1] \in Place
  <2> HIDE DEF it
  <2>1. it.by \in Place
    BY <1>4, PlacesArePlaces
  <2> QED
    BY <2>1 DEF Place
<1> HIDE DEF w, p, it
<1>18. CASE /\ w \in {"NF_DROP", "NF_STOLEN"}
            /\ pk' = [pk EXCEPT ![p] = Late(IF w = "NF_DROP" THEN "dropped" ELSE "stolen")]
            /\ UNCHANGED <<stack, nfsim_queue, queueid>>
  <2>1. PICK x \in {"dropped", "stolen"} : x = IF w = "NF_DROP" THEN "dropped" ELSE "stolen"
    OBVIOUS
  <2> QED
    BY <1>13, <1>18, <2>1
<1>19. CASE /\ pk' = [pk EXCEPT ![p].fate = "path",
                        ![p].from = IF w = "NF_ACCEPT" THEN it.by
                                    ELSE [it.by EXCEPT !.n = it.by.n - 1]]
            /\ stack' = <<p>>
            /\ UNCHANGED <<nfsim_queue, queueid>>
  <2>1. PICK f \in Place : f = IF w = "NF_ACCEPT" THEN it.by
                               ELSE [it.by EXCEPT !.n = it.by.n - 1]
    BY <1>17
  <2> QED
    BY <1>14, <1>19, <2>1
<1> QED
  BY <1>15, <1>16, <1>18, <1>19

\* The queue command ends.
LEMMA QueueEndsKeeps ==
    ASSUME IInv, QueueEnds
    PROVE  IInv' /\ Life(Fate(pk), Fate(pk'))
<1> DEFINE i == CHOOSE j \in DOMAIN nfsim_queue : nfsim_queue[j].id = cmd.item
<1>1. /\ cmd.op = "queue" /\ stack = <<>> /\ nfsim_queue' = RemoveAt(nfsim_queue, i)
      /\ dead' \in {"no", "item"} /\ cmd' = NoCommand
      /\ UNCHANGED <<pk, stack, queueid, config>>
  BY DEF QueueEnds
<1>2. Accounted(Fate(pk), <<>>, nfsim_queue, cmd, queueid) /\ nfsim_queue \in Seq(QueueItem)
  BY <1>1 DEF IInv, TypeOK, QueueItem
<1>3. i \in DOMAIN nfsim_queue /\ nfsim_queue[i].id = cmd.item
  <2>1. \E j \in DOMAIN nfsim_queue : nfsim_queue[j].id = cmd.item
    BY <1>1, <1>2 DEF Accounted, Held
  <2> QED
    BY <2>1
<1> HIDE DEF i
<1>4. /\ Accounted(Fate(pk), <<>>, nfsim_queue', NoCommand, queueid)
      /\ nfsim_queue' \in Seq(QueueItem)
  BY <1>1, <1>2, <1>3, BooksUnlink
<1>5. NoCommand \in AnyCommand
  BY PacketsAssumption DEF NoCommand, AnyCommand
<1>6. TypeOK'
  BY <1>1, <1>4, <1>5 DEF IInv, TypeOK, AnyCommand, QueueItem, config
<1>7. StaleHasACause' /\ up' = up
  BY <1>1 DEF StaleHasACause, config
<1> QED
  BY <1>1, <1>4, <1>6, <1>7 DEF IInv, Life

\* Devices and routes go between commands: the packets that use them are exposed.
LEMMA WithdrawKeeps ==
    ASSUME IInv, NEW d \in Dev, IfDown(d) \/ RouteDel(d) \/ RouteDelByHand(d)
    PROVE  IInv' /\ Life(Fate(pk), Fate(pk'))
<1>1. /\ dead = "no" /\ cmd = NoCommand /\ \E freed : Withdraw(freed)
      /\ up' \subseteq up /\ routed' \subseteq up'
      /\ hand' \subseteq Dev /\ lost' \subseteq Dev
      /\ dead' = "no" \/ (dead' = "stale" /\ lost' # {})
      /\ UNCHANGED <<stack, nfsim_queue, queueid, shots, nshots, cmd>>
  <2>1. routed \subseteq up /\ hand \subseteq Dev /\ lost \subseteq Dev
    BY DEF IInv, TypeOK
  <2>2. CASE IfDown(d)
    <3>1. dead' = "no" \/ (dead' = "stale" /\ lost # {})
      BY <2>2 DEF IfDown, UnlinkMayBeWild
    <3>2. /\ dead = "no" /\ cmd = NoCommand /\ \E freed : Withdraw(freed)
          /\ up' = up \ {d} /\ routed' = routed \ {d}
          /\ UNCHANGED <<stack, nfsim_queue, queueid, shots, nshots, hand, lost, cmd>>
      BY <2>2, Zenon DEF IfDown, Prompt
    <3> QED
      BY <2>1, <3>1, <3>2
  <2>3. CASE RouteDel(d)
    <3>1. dead' = "no" \/ (dead' = "stale" /\ lost # {})
      BY <2>3 DEF RouteDel, UnlinkMayBeWild
    <3>2. /\ dead = "no" /\ cmd = NoCommand /\ \E freed : Withdraw(freed)
          /\ up' = up /\ routed' = routed \ {d}
          /\ UNCHANGED <<stack, nfsim_queue, queueid, shots, nshots, hand, lost, cmd>>
      BY <2>3, Zenon DEF RouteDel, Prompt
    <3> QED
      BY <2>1, <3>1, <3>2
  <2>4. CASE RouteDelByHand(d)
    <3>1. /\ dead = "no" /\ dead' = dead /\ cmd = NoCommand /\ \E freed : Withdraw(freed)
          /\ up' = up /\ routed' = routed /\ hand' = hand \ {d} /\ lost' = lost \cup {d}
          /\ UNCHANGED <<stack, nfsim_queue, queueid, shots, nshots, cmd>>
      BY <2>4, Zenon DEF RouteDelByHand, Prompt
    <3> QED
      BY <2>1, <3>1
  <2> QED
    BY <2>2, <2>3, <2>4
<1>2. PICK freed : Withdraw(freed)
  BY <1>1
<1>3. pk \in [Packet -> Skb] /\ stack = <<>>
  BY <1>1 DEF IInv, TypeOK, Accounted
<1>4. ASSUME NEW p \in Packet
      PROVE  /\ pk'[p] \in Skb /\ pk'[p].fate = pk[p].fate
             /\ pk[p].fate = "queued" => pk'[p].exposed
  <2>1. pk'[p] = [pk[p] EXCEPT !.gone = pk[p].gone \/ p \in freed,
                               !.exposed = pk[p].exposed \/ pk[p].fate = "queued"]
    BY <1>2 DEF Withdraw
  <2>2. pk[p] \in Skb
    BY <1>3
  <2>3. /\ (pk[p].gone \/ p \in freed) \in BOOLEAN
        /\ (pk[p].exposed \/ pk[p].fate = "queued") \in BOOLEAN
    OBVIOUS
  <2> QED
    BY <2>1, <2>2, <2>3 DEF Skb
<1>5. pk' \in [Packet -> Skb]
  <2>1. pk' = [p \in Packet |-> pk'[p]]
    BY <1>2 DEF Withdraw
  <2> QED
    BY <1>4, <2>1
<1>6. Fate(pk') = Fate(pk)
  BY <1>4 DEF Fate
<1>7. \A p \in Packet : pk[p].fate # "path"
  <2>1. \A p \in Packet : Fate(pk)[p] # "path"
    BY <1>3 DEF IInv, Accounted, UnderWay
  <2> QED
    BY <2>1 DEF Fate
<1>8. \A p \in Packet : Fresh(pk'[p], up')
  BY <1>4, <1>7 DEF Fresh
<1>9. TypeOK'
  BY <1>1, <1>5 DEF IInv, TypeOK
<1>10. StaleHasACause'
  BY <1>1, <1>3 DEF StaleHasACause, Dangling, LookingUp
<1> QED
  BY <1>1, <1>6, <1>8, <1>9, <1>10 DEF IInv, Life

\* A route is added by hand: no packet has it yet.
LEMMA RouteAddKeeps ==
    ASSUME IInv, NEW d \in Dev, RouteAdd(d)
    PROVE  IInv' /\ Life(Fate(pk), Fate(pk'))
<1>1. /\ dead = "no" /\ hand' = hand \cup {d}
      /\ UNCHANGED <<pk, stack, nfsim_queue, queueid, shots, nshots, up, routed, lost, cmd, dead>>
  BY DEF RouteAdd, Prompt
<1>2. TypeOK'
  BY <1>1 DEF IInv, TypeOK
<1>3. StaleHasACause'
  BY <1>1 DEF StaleHasACause
<1> QED
  BY <1>1, <1>2, <1>3 DEF IInv, Life

-----------------------------------------------------------------------------
(* The theorems. *)

\* The initial state satisfies the invariant.
LEMMA InitHolds == Init => IInv
<1> SUFFICES ASSUME Init PROVE IInv
  OBVIOUS
<1>1. /\ pk = [p \in Packet |-> Unborn] /\ stack = <<>> /\ nfsim_queue = <<>> /\ queueid = 0
      /\ shots = {} /\ nshots = 0 /\ up = Dev /\ routed = Dev /\ hand = {} /\ lost = {}
      /\ cmd = NoCommand /\ dead = "no"
  BY DEF Init
<1>2. NoCommand \in AnyCommand /\ 0 \in 0 .. MaxIds /\ 0 \in 0 .. MaxShots
  BY PacketsAssumption DEF NoCommand, AnyCommand
<1>3. TypeOK
  BY <1>1, <1>2, UnbornTyped DEF TypeOK, AnyCommand
<1>4. \A p \in Packet : Fate(pk)[p] = "unborn" /\ pk[p].fate = "unborn"
  BY <1>1, UnbornTyped DEF Fate
<1>5. DOMAIN stack = {} /\ DOMAIN nfsim_queue = {} /\ cmd.op # "queue"
  BY <1>1 DEF NoCommand
<1>6. Accounted(Fate(pk), stack, nfsim_queue, cmd, queueid)
  BY <1>1, <1>4, <1>5 DEF Accounted, UnderWay, Held, Ordered
<1>7. \A p \in Packet : Fresh(pk[p], up)
  BY <1>4 DEF Fresh
<1> QED
  BY <1>1, <1>3, <1>6, <1>7 DEF IInv, StaleHasACause

\* Every step keeps the invariant and is a step in the life of a packet, or of none.
LEMMA NextKeeps ==
    ASSUME IInv, [Next]_vars
    PROVE  IInv' /\ Life(Fate(pk), Fate(pk'))
<1>1. CASE HooksSay
  BY <1>1, HooksSayKeeps
<1>2. CASE IpRcvFinish
  BY <1>2, IpRcvFinishKeeps
<1>3. CASE DstOutput
  BY <1>3, DstOutputKeeps
<1>4. CASE NfSend \/ NfSendLocal \/ Expired
  BY <1>4, SendKeeps
<1>5. ASSUME NEW q \in Packet, NEW r \in Lookups, IcmpSend(q, r)
      PROVE  IInv' /\ Life(Fate(pk), Fate(pk'))
  BY <1>5, IcmpSendKeeps
<1>6. CASE GenIpEnds \/ GenIpFails \/ QueueEmpty
  <2>1. dead = "no"
    BY <1>6 DEF GenIpEnds, GenIpFails, QueueEmpty, Prompt
  <2> QED
    BY <1>6, <2>1, NoPacketKeeps
<1>7. CASE QueueEnds
  BY <1>7, QueueEndsKeeps
<1>8. CASE \/ \E p \in Packet, d \in Dev : GenIp(p, d)
           \/ \E p \in Packet, r \in Lookups : GenIpLocal(p, r)
  BY <1>8, GenIpKeeps
<1>9. ASSUME NEW h \in ShotHook, NEW prio \in ShotPrio,
             NEW v \in {"NF_ACCEPT", "NF_DROP", "NF_QUEUE"}, HookCmd(h, prio, v)
      PROVE  IInv' /\ Life(Fate(pk), Fate(pk'))
  BY <1>9, HookCmdKeeps
<1>10. ASSUME NEW i \in 1 .. NPacket, NEW v \in Verdict, Reinject(i, v)
       PROVE  IInv' /\ Life(Fate(pk), Fate(pk'))
  BY <1>10, ReinjectKeeps
<1>11. ASSUME NEW d \in Unsteady, IfDown(d) \/ RouteDel(d)
       PROVE  IInv' /\ Life(Fate(pk), Fate(pk'))
  <2>1. d \in Dev
    BY PacketsAssumption DEF Dev
  <2> QED
    BY <1>11, <2>1, WithdrawKeeps
<1>14. ASSUME NEW d \in ByHand, RouteAdd(d) \/ RouteDelByHand(d)
       PROVE  IInv' /\ Life(Fate(pk), Fate(pk'))
  <2>1. d \in Dev
    BY PacketsAssumption DEF Dev
  <2> QED
    BY <1>14, <2>1, WithdrawKeeps, RouteAddKeeps
<1>15. CASE IcmpStale \/ CommandIsStale
  BY <1>15, WalkKeeps
<1>12. CASE UNCHANGED vars
  <2>1. /\ pk' = pk /\ stack' = stack /\ nfsim_queue' = nfsim_queue /\ queueid' = queueid
        /\ up' = up /\ cmd' = cmd
    BY <1>12 DEF vars
  <2>2. TypeOK' /\ StaleHasACause'
    BY <1>12 DEF IInv, TypeOK, StaleHasACause, Dangling, LookingUp, Cur, Depth, vars
  <2> QED
    BY <2>1, <2>2 DEF IInv, Life
<1>13. CASE Step
  BY <1>1, <1>2, <1>3, <1>4, <1>5, <1>6, <1>7, <1>13, <1>15 DEF Step
<1> QED
  BY <1>6, <1>8, <1>9, <1>10, <1>11, <1>12, <1>13, <1>14, <1>15 DEF Next

\* The invariant holds in every behaviour.
THEOREM IInvAlways == Spec => []IInv
<1>1. IInv /\ [Next]_vars => IInv'
  BY NextKeeps
<1> QED
  BY <1>1, InitHolds, PTL DEF Spec

\* No packet is lost and none is held twice: between commands the queue holds exactly
\* the packets that wait, and every other packet has come to its end.
THEOREM EveryPacketAlwaysAccounted == Spec => []EveryPacketAccounted
<1>1. IInv => EveryPacketAccounted
  <2> SUFFICES ASSUME IInv, Prompt
               PROVE  /\ {nfsim_queue[i].skb : i \in DOMAIN nfsim_queue}
                           = {p \in Packet : pk[p].fate = "queued"}
                      /\ \A i, j \in DOMAIN nfsim_queue :
                           i < j => /\ nfsim_queue[i].id < nfsim_queue[j].id
                                    /\ nfsim_queue[i].skb # nfsim_queue[j].skb
                      /\ \A p \in Packet : pk[p].fate # "path"
    BY DEF EveryPacketAccounted, IInv
  <2> DEFINE q == nfsim_queue
  <2>1. cmd = NoCommand
    BY DEF Prompt
  <2>2. stack = <<>> /\ Held(Fate(pk), q, NoCommand) /\ Ordered(q, queueid)
        /\ UnderWay(Fate(pk), stack)
    BY <2>1 DEF IInv, Accounted
  <2>3. \A i : Live(q, NoCommand, i)
    BY DEF Live, NoCommand
  <2>4. \A p \in Packet : Fate(pk)[p] = pk[p].fate
    BY DEF Fate
  <2>5. \A i \in DOMAIN q : q[i].skb \in Packet
    <3>1. q \in Seq(QueueItem)
      BY DEF IInv, TypeOK, QueueItem
    <3>2. \A i \in DOMAIN q : q[i] \in QueueItem
      BY <3>1
    <3> QED
      BY <3>2 DEF QueueItem
  <2>6. /\ \A i \in DOMAIN q : pk[q[i].skb].fate = "queued"
        /\ \A p \in Packet : pk[p].fate = "queued" => \E i \in DOMAIN q : q[i].skb = p
        /\ \A i, j \in DOMAIN q : q[i].skb = q[j].skb => i = j
    BY <2>2, <2>3, <2>4, <2>5 DEF Held
  <2>7. \A i, j \in DOMAIN q : i < j => i # j
    BY DEF IInv, TypeOK
  <2>8. \A p \in Packet : pk[p].fate # "path"
    BY <2>2, <2>4 DEF UnderWay
  <2>9. {q[i].skb : i \in DOMAIN q} = {p \in Packet : pk[p].fate = "queued"}
    BY <2>5, <2>6
  <2>10. \A i, j \in DOMAIN q : i < j => q[i].id < q[j].id
    BY <2>2 DEF Ordered
  <2> QED
    BY <2>6, <2>7, <2>8, <2>9, <2>10
<1> QED
  BY <1>1, IInvAlways, PTL

\* What is used after it was freed is used by packets that have waited in the queue,
\* or by a walk along routes of which one was added by hand.
THEOREM StaleAlwaysHasACause == Spec => []StaleHasACause
<1>1. IInv => StaleHasACause
  BY DEF IInv
<1> QED
  BY <1>1, IInvAlways, PTL

\* Refinement: the simulator gives every packet one of the lives that Fates promises.
THEOREM PacketsHaveOneLife == Spec => OneLife
<1>1. Init => Abstract!Init
  <2>1. ASSUME Init PROVE [p \in Packet |-> pk[p].fate] = [p \in Packet |-> "unborn"]
    BY <2>1, UnbornTyped DEF Init
  <2> QED
    BY <2>1 DEF Abstract!Init
<1>2. IInv /\ [Next]_vars => [Abstract!Next]_([p \in Packet |-> pk[p].fate])
  <2> SUFFICES ASSUME IInv, [Next]_vars,
                      [p \in Packet |-> pk[p].fate]' # [p \in Packet |-> pk[p].fate]
               PROVE  Abstract!Next
    OBVIOUS
  <2> DEFINE F == [p \in Packet |-> pk[p].fate]
             G == [p \in Packet |-> pk'[p].fate]
  <2>1. Life(F, G) /\ G # F
    BY NextKeeps DEF Fate
  <2>2. PICK p \in Packet :
         \/ F[p] = "unborn" /\ G = [F EXCEPT ![p] = "path"]
         \/ F[p] = "path" /\ G = [F EXCEPT ![p] = "queued"]
         \/ F[p] = "queued" /\ G = [F EXCEPT ![p] = "path"]
         \/ /\ F[p] \in {"path", "queued"}
            /\ \E x \in {"sent", "local", "dropped", "stolen"} : G = [F EXCEPT ![p] = x]
    BY <2>1, Zenon DEF Life, Put
  <2>3. Abstract!Enter(p) \/ Abstract!Wait(p) \/ Abstract!Resume(p) \/ Abstract!End(p)
    BY <2>2 DEF Abstract!Enter, Abstract!Wait, Abstract!Resume, Abstract!End,
                Abstract!Change, Abstract!Ends
  <2> QED
    BY <2>3 DEF Abstract!Next
<1> QED
  BY <1>1, <1>2, IInvAlways, PTL DEF Spec, OneLife, Abstract!Spec
=============================================================================
