--------------------------- MODULE Kernel_proofs ----------------------------
(***************************************************************************)
(* Proofs about the simulated kernel below the packet path: what modules   *)
(* register and the loader that brings them in and takes them out          *)
(* (Modules), packets as bytes, in memory (Skb) and on the wire (Wire),    *)
(* and files made of records (SeqFile).                                    *)
(*                                                                         *)
(* Modules.  An event reaches every notifier block that stays registered,  *)
(* load_all_modules loads what can be loaded, the loader's books are       *)
(* right, and check_allocations tells the truth.  The chain is threaded    *)
(* through the blocks: ChainInv and WalkInv.  What the loader relies on is *)
(* LoaderInv, the conjunction of one invariant for each of its concerns.   *)
(*                                                                         *)
(* In memory.  The alarm of a socket buffer is true, a packet never loses  *)
(* write access that was given, and how the bytes are laid out between the *)
(* buffer and its hidden master copy never shows: Skb implements           *)
(* PacketBytes.  All three rest on SkbInv, one lemma per routine.          *)
(*                                                                         *)
(* On the wire.  Both ends of a tcpsession stay in step, for any first     *)
(* sequence numbers and any modulus, and ip_defrag never holds a complete  *)
(* datagram back.  They rest on SessionInv and FragInv.                    *)
(*                                                                         *)
(* In files.  A reader gets the text of the table, no record torn, and is  *)
(* told of its end when it is there: SeqInv.                               *)
(***************************************************************************)
EXTENDS Modules, Skb, Wire, SeqFile, Lists_proofs

-----------------------------------------------------------------------------
(* Modules and what they register.                                         *)

\* What the constants are assumed to be, for the lemmas to name it.
Given == BlockAssumption /\ ProcAssumption /\ ModuleAssumption

\* Modules, Notifier and ProcTree assume it.
LEMMA Assumed == Given
BY BlockAssumption, ProcAssumption, ModuleAssumption DEF Given

\* The list s leads from the first block h over the next pointers n.
Walked(s, h, n) ==
    /\ s \in Seq(Block)
    /\ h = EntryAt(s, 1)
    /\ \A i \in DOMAIN s : n[s[i]] = EntryAt(s, i + 1)

\* There is one such list at most: take the first place at which two of them differ.
LEMMA OneWalk ==
    ASSUME Given, NEW h, NEW n, NEW s, NEW t, Walked(s, h, n), Walked(t, h, n)
    PROVE  s = t
<1>1. /\ s \in Seq(Block) /\ t \in Seq(Block) /\ Len(s) \in Nat /\ Len(t) \in Nat
      /\ DOMAIN s = 1 .. Len(s) /\ DOMAIN t = 1 .. Len(t)
      /\ EntryAt(s, 1) = EntryAt(t, 1)
  BY DEF Walked
<1>2. /\ \A i \in 1 .. Len(s) : s[i] # NULL
      /\ \A i \in 1 .. Len(t) : t[i] # NULL
  <2>1. NULL \notin Block
    BY DEF Given, BlockAssumption
  <2> QED
    BY <1>1, <2>1
<1>3. ASSUME NEW k \in Nat \ {0}, EntryAt(s, k) = EntryAt(t, k)
      PROVE  EntryAt(s, k + 1) = EntryAt(t, k + 1)
  <2>1. CASE k > Len(s)
    <3>1. k > Len(t)
      BY <2>1, <1>1, <1>2, <1>3 DEF EntryAt
    <3> QED
      BY <2>1, <3>1, <1>1 DEF EntryAt
  <2>2. CASE k <= Len(s)
    <3>1. k \in 1 .. Len(s) /\ EntryAt(s, k) = s[k]
      BY <2>2, <1>1 DEF EntryAt
    <3>2. k \in 1 .. Len(t) /\ EntryAt(t, k) = t[k]
      BY <3>1, <1>1, <1>2, <1>3 DEF EntryAt
    <3> QED
      BY <3>1, <3>2, <1>1, <1>3 DEF Walked
  <2> QED
    BY <2>1, <2>2, <1>1
<1> DEFINE D == { k \in Nat \ {0} : EntryAt(s, k) # EntryAt(t, k) }
<1>4. D = {}
  <2> SUFFICES ASSUME D # {} PROVE FALSE
    OBVIOUS
  <2>1. D \subseteq Nat
    OBVIOUS
  <2>2. PICK k \in D : \A j \in D : k <= j
    <3> HIDE DEF D
    <3> QED
      BY <2>1, Least
  <2>3. k \in Nat \ {0} /\ k # 1
    BY <1>1
  <2>4. k - 1 \in Nat \ {0} /\ k - 1 \notin D
    <3>1. k - 1 \in Nat \ {0} /\ ~(k <= k - 1)
      BY <2>3
    <3> HIDE DEF D
    <3> QED
      BY <2>2, <3>1
  <2>5. EntryAt(s, k - 1) = EntryAt(t, k - 1)
    BY <2>4
  <2>6. EntryAt(s, (k - 1) + 1) = EntryAt(t, (k - 1) + 1)
    BY <1>3, <2>4, <2>5
  <2>7. EntryAt(s, k) # EntryAt(t, k)
    OBVIOUS
  <2> QED
    BY <2>3, <2>6, <2>7
<1>5. \A k \in Nat \ {0} : EntryAt(s, k) = EntryAt(t, k)
  BY <1>4
<1>6. Len(s) = Len(t)
  <2>1. ~(Len(s) < Len(t))
    <3> SUFFICES ASSUME Len(s) < Len(t) PROVE FALSE
      OBVIOUS
    <3>1. Len(s) + 1 \in 1 .. Len(t) /\ Len(s) + 1 > Len(s) /\ ~(Len(s) + 1 > Len(t))
      BY <1>1
    <3>2. EntryAt(s, Len(s) + 1) = NULL /\ EntryAt(t, Len(s) + 1) = t[Len(s) + 1]
      BY <3>1 DEF EntryAt
    <3> QED
      BY <1>2, <1>5, <3>1, <3>2
  <2>2. ~(Len(t) < Len(s))
    <3> SUFFICES ASSUME Len(t) < Len(s) PROVE FALSE
      OBVIOUS
    <3>1. Len(t) + 1 \in 1 .. Len(s) /\ Len(t) + 1 > Len(t) /\ ~(Len(t) + 1 > Len(s))
      BY <1>1
    <3>2. EntryAt(t, Len(t) + 1) = NULL /\ EntryAt(s, Len(t) + 1) = s[Len(t) + 1]
      BY <3>1 DEF EntryAt
    <3> QED
      BY <1>2, <1>5, <3>1, <3>2
  <2>3. ASSUME NEW a \in Nat, NEW b \in Nat, ~(a < b), ~(b < a) PROVE a = b
    BY <2>3
  <2> QED
    BY <1>1, <2>1, <2>2, <2>3, Zenon
<1>7. \A k \in 1 .. Len(s) : s[k] = t[k]
  <2> SUFFICES ASSUME NEW k \in 1 .. Len(s) PROVE s[k] = t[k]
    OBVIOUS
  <2>1. k \in Nat \ {0} /\ ~(k > Len(s)) /\ ~(k > Len(t))
    BY <1>1, <1>6
  <2> QED
    BY <1>5, <2>1 DEF EntryAt
<1> QED
  BY <1>1, <1>6, <1>7, SeqEqual

\* A list in which no block is twice is not too long to be found by Chain.
LEMMA NotTooLong ==
    ASSUME Given, NEW s \in Seq(Block), IsInjective(s)
    PROVE  s \in UNION { [1 .. n -> Block] : n \in 0 .. Cardinality(Block) }
<1>1. Len(s) \in Nat /\ s \in [1 .. Len(s) -> Block]
  OBVIOUS
<1>2. s \in Injection(1 .. Len(s), Block)
  BY <1>1 DEF Injection, IsInjective
<1>3. IsFiniteSet(Block)
  BY DEF Given, BlockAssumption
<1>4. IsFiniteSet(1 .. Len(s)) /\ Cardinality(1 .. Len(s)) = Len(s)
  <2>1. 1 \in Int /\ Len(s) \in Int
    BY <1>1
  <2>2. /\ IsFiniteSet(1 .. Len(s))
        /\ Cardinality(1 .. Len(s)) = IF 1 > Len(s) THEN 0 ELSE Len(s) - 1 + 1
    BY <2>1, FS_Interval
  <2> QED
    BY <1>1, <2>2
<1>5. Len(s) <= Cardinality(Block) /\ Cardinality(Block) \in Nat
  <2>1. Cardinality(1 .. Len(s)) <= Cardinality(Block)
    BY <1>2, <1>3, FS_Injection
  <2> QED
    BY <1>3, <1>4, <2>1, FS_CardinalityType
<1>6. Len(s) \in 0 .. Cardinality(Block)
  BY <1>1, <1>5
<1> QED
  BY <1>1, <1>6

\* What Chain chooses is the list that a walk finds, if no block is in it twice.
LEMMA ChainIs ==
    ASSUME Given, NEW h, NEW n, NEW s, IsInjective(s), Walked(s, h, n),
           NEW c,
           c = CHOOSE t \in UNION { [1 .. k -> Block] : k \in 0 .. Cardinality(Block) } :
                  h = EntryAt(t, 1) /\ \A i \in DOMAIN t : n[t[i]] = EntryAt(t, i + 1)
    PROVE  c = s
<1> DEFINE L == UNION { [1 .. k -> Block] : k \in 0 .. Cardinality(Block) }
           F(t) == h = EntryAt(t, 1) /\ \A i \in DOMAIN t : n[t[i]] = EntryAt(t, i + 1)
<1>1. s \in L /\ F(s)
  BY NotTooLong DEF Walked
<1>2. c \in L /\ F(c)
  BY <1>1
<1>3. c \in Seq(Block)
  <2>1. PICK k \in 0 .. Cardinality(Block) : c \in [1 .. k -> Block]
    BY <1>2
  <2>2. Cardinality(Block) \in Nat
    BY FS_CardinalityType DEF Given, BlockAssumption
  <2>3. k \in Nat
    BY <2>2
  <2> QED
    BY <2>1, <2>3, SMTT(60)
<1>4. Walked(c, h, n)
  BY <1>2, <1>3 DEF Walked
<1> QED
  BY <1>4, OneWalk

\* First block h and next pointers n before, h2 and n2 after b was made the i-th of s...
Linked(i, b, s, h, n, h2, n2) ==
    /\ n2[b] = EntryAt(s, i)
    /\ \A c \in Block : c # b /\ (i > 1 => c # s[i - 1]) => n2[c] = n[c]
    /\ IF i = 1 THEN h2 = b ELSE h2 = h /\ n2[s[i - 1]] = b

\* ... and after the i-th of s was passed over.
Unlinked(i, s, h, n, h2, n2) ==
    /\ \A c \in Block : (i > 1 => c # s[i - 1]) => n2[c] = n[c]
    /\ IF i = 1 THEN h2 = n[s[i]] ELSE h2 = h /\ n2[s[i - 1]] = n[s[i]]

\* A block b put in as the i-th one: its next pointer is set first, then the one in front.
LEMMA PutIn ==
    ASSUME Given, NEW h, NEW n, NEW s, IsInjective(s), Walked(s, h, n),
           NEW b \in Block, b \notin Range(s), NEW i \in 1 .. Len(s) + 1,
           NEW h2, NEW n2, Linked(i, b, s, h, n, h2, n2), NEW t, t = InsertAt(s, i, b)
    PROVE  /\ Walked(t, h2, n2) /\ IsInjective(t) /\ Range(t) = Range(s) \cup {b}
           /\ Len(t) = Len(s) + 1 /\ t[i] = b
           /\ \A k \in 1 .. i - 1 : t[k] = s[k]
           /\ \A k \in i .. Len(s) : t[k + 1] = s[k]
<1>1. /\ s \in Seq(Block) /\ Len(s) \in Nat /\ DOMAIN s = 1 .. Len(s) /\ h = EntryAt(s, 1)
      /\ \A k \in 1 .. Len(s) : s[k] \in Block /\ n[s[k]] = EntryAt(s, k + 1) /\ s[k] # b
      /\ \A k, l \in 1 .. Len(s) : s[k] = s[l] => k = l
  BY DEF Walked, Range, IsInjective
<1>0. /\ n2[b] = EntryAt(s, i)
      /\ \A c \in Block : c # b /\ (i > 1 => c # s[i - 1]) => n2[c] = n[c]
      /\ IF i = 1 THEN h2 = b ELSE h2 = h /\ n2[s[i - 1]] = b
  BY DEF Linked
<1>2. /\ t \in Seq(Block) /\ Len(t) = Len(s) + 1 /\ t[i] = b
      /\ \A k \in 1 .. i - 1 : t[k] = s[k]
      /\ \A k \in i + 1 .. Len(s) + 1 : t[k] = s[k - 1]
  <2>1. s \in Seq(Block)
    BY <1>1, <1>0
  <2> QED
    BY <2>1, InsertAtProperties, SMTT(60)
<1>3. \A k \in i .. Len(s) : t[k + 1] = s[k]
  <2> SUFFICES ASSUME NEW k \in i .. Len(s) PROVE t[k + 1] = s[k]
    OBVIOUS
  <2>1. k + 1 \in i + 1 .. Len(s) + 1 /\ (k + 1) - 1 = k
    BY <1>1, <1>0
  <2> QED
    BY <1>2, <2>1
<1>4. DOMAIN t = 1 .. Len(s) + 1 /\ i \in Nat /\ 1 <= i /\ i <= Len(s) + 1
  BY <1>1, <1>0, <1>2
<1>5. h2 = EntryAt(t, 1)
  <2>1. CASE i = 1
    BY <2>1, <1>1, <1>0, <1>2 DEF EntryAt
  <2>2. CASE i # 1
    <3>1. 1 \in 1 .. i - 1 /\ ~(1 > Len(s)) /\ ~(1 > Len(t))
      BY <2>2, <1>1, <1>0, <1>2, <1>4
    <3> QED
      BY <2>2, <3>1, <1>1, <1>0, <1>2 DEF EntryAt
  <2> QED
    BY <2>1, <2>2
<1>6. ASSUME NEW k \in 1 .. Len(s) + 1
      PROVE  n2[t[k]] = EntryAt(t, k + 1)
  <2>1. CASE k = i
    <3>1. CASE i = Len(s) + 1
      BY <2>1, <3>1, <1>1, <1>0, <1>2 DEF EntryAt
    <3>2. CASE i # Len(s) + 1
      <4>1. i \in i .. Len(s) /\ ~(i > Len(s)) /\ ~(i + 1 > Len(t))
        BY <3>2, <1>1, <1>0, <1>2, <1>4
      <4> QED
        BY <1>0, <4>1, <2>1, <1>2, <1>3 DEF EntryAt
    <3> QED
      BY <3>1, <3>2
  <2>2. CASE k = i - 1
    <3>1. k \in 1 .. i - 1 /\ k \in 1 .. Len(s) /\ i # 1 /\ ~(k + 1 > Len(t)) /\ k + 1 = i
      BY <2>2, <1>1, <1>0, <1>2, <1>4
    <3> QED
      BY <3>1, <2>2, <1>1, <1>0, <1>2 DEF EntryAt
  <2>3. CASE k < i - 1
    <3>1. /\ k \in 1 .. i - 1 /\ k + 1 \in 1 .. i - 1 /\ k \in 1 .. Len(s) /\ i - 1 \in 1 .. Len(s)
          /\ k # i - 1 /\ ~(k + 1 > Len(t)) /\ ~(k + 1 > Len(s))
      BY <2>3, <1>1, <1>0, <1>2, <1>4
    <3>2. n2[s[k]] = n[s[k]]
      BY <3>1, <1>1, <1>0
    <3> QED
      BY <3>1, <3>2, <1>1, <1>0, <1>2 DEF EntryAt
  <2>4. CASE k > i
    <3>1. /\ k - 1 \in i .. Len(s) /\ (k - 1) + 1 = k /\ k - 1 \in 1 .. Len(s)
          /\ i > 1 => i - 1 \in 1 .. Len(s) /\ k - 1 # i - 1
      BY <2>4, <1>1, <1>0, <1>4
    <3>2. t[k] = s[k - 1] /\ n[s[k - 1]] = EntryAt(s, k)
      BY <3>1, <1>1, <1>0, <1>3
    <3>3. n2[s[k - 1]] = n[s[k - 1]]
      BY <3>1, <1>1, <1>0
    <3>4. EntryAt(t, k + 1) = EntryAt(s, k)
      <4>1. CASE k = Len(s) + 1
        BY <4>1, <1>1, <1>0, <1>2 DEF EntryAt
      <4>2. CASE k # Len(s) + 1
        <5>1. k \in i .. Len(s) /\ ~(k > Len(s)) /\ ~(k + 1 > Len(t))
          <6>1. Len(s) \in Nat /\ Len(t) = Len(s) + 1
            BY <1>1, <1>0, <1>2
          <6> QED
            BY <4>2, <2>4, <1>4, <6>1
        <5> QED
          BY <5>1, <1>3 DEF EntryAt
      <4> QED
        BY <4>1, <4>2
    <3> QED
      BY <3>2, <3>3, <3>4
  <2> QED
    BY <2>1, <2>2, <2>3, <2>4, <1>4
<1>7. Walked(t, h2, n2)
  BY <1>2, <1>4, <1>5, <1>6 DEF Walked
<1>8. \A k \in 1 .. Len(s) + 1 : k # i =>
          \E j \in 1 .. Len(s) : t[k] = s[j] /\ j = IF k < i THEN k ELSE k - 1
  <2> SUFFICES ASSUME NEW k \in 1 .. Len(s) + 1, k # i
               PROVE  \E j \in 1 .. Len(s) : t[k] = s[j] /\ j = IF k < i THEN k ELSE k - 1
    OBVIOUS
  <2>1. CASE k < i
    <3>1. k \in 1 .. i - 1 /\ k \in 1 .. Len(s)
      BY <2>1, <1>1, <1>0, <1>4
    <3> QED
      BY <2>1, <3>1, <1>2
  <2>2. CASE ~(k < i)
    <3>1. k - 1 \in 1 .. Len(s) /\ k \in i + 1 .. Len(s) + 1
      BY <2>2, <1>1, <1>0, <1>4
    <3> QED
      BY <2>2, <3>1, <1>2
  <2> QED
    BY <2>1, <2>2
<1>9. IsInjective(t)
  <2> SUFFICES ASSUME NEW k \in 1 .. Len(s) + 1, NEW l \in 1 .. Len(s) + 1, t[k] = t[l]
               PROVE  k = l
    BY <1>4 DEF IsInjective
  <2>0. ASSUME NEW j \in 1 .. Len(s) + 1, j # i PROVE t[j] # b
    <3>1. PICK e \in 1 .. Len(s) : t[j] = s[e]
      BY <1>8, <2>0
    <3>2. s[e] # b
      BY <1>0, <1>1 DEF Range
    <3> QED
      BY <3>1, <3>2
  <2>1. CASE k = i \/ l = i
    BY <2>0, <2>1, <1>2
  <2>2. CASE k # i /\ l # i
    <3>1. PICK j \in 1 .. Len(s) : t[k] = s[j] /\ j = IF k < i THEN k ELSE k - 1
      BY <2>2, <1>8
    <3>2. PICK m \in 1 .. Len(s) : t[l] = s[m] /\ m = IF l < i THEN l ELSE l - 1
      BY <2>2, <1>8
    <3>3. j = m
      BY <3>1, <3>2, <1>1, <1>0, ZenonT(60)
    <3> QED
      BY <2>2, <3>1, <3>2, <3>3, <1>4
  <2> QED
    BY <2>1, <2>2
<1>10. Range(t) = Range(s) \cup {b}
  <2>1. ASSUME NEW k \in 1 .. Len(s) + 1 PROVE t[k] \in Range(s) \cup {b}
    <3>1. CASE k = i
      BY <3>1, <1>2
    <3>2. CASE k # i
      <4>1. PICK j \in 1 .. Len(s) : t[k] = s[j]
        BY <3>2, <1>8
      <4> QED
        BY <4>1, <1>1, <1>0 DEF Range
    <3> QED
      BY <3>1, <3>2
  <2>2. ASSUME NEW k \in 1 .. Len(s) PROVE s[k] \in Range(t)
    <3>1. CASE k < i
      <4>1. k \in 1 .. i - 1 /\ k \in 1 .. Len(s) + 1
        BY <3>1, <1>1, <1>0, <1>4
      <4> QED
        BY <4>1, <1>2, <1>4 DEF Range
    <3>2. CASE ~(k < i)
      <4>1. k \in i .. Len(s) /\ k + 1 \in 1 .. Len(s) + 1
        BY <3>2, <1>1, <1>0, <1>4
      <4> QED
        BY <4>1, <1>3, <1>4 DEF Range
    <3> QED
      BY <3>1, <3>2
  <2>3. b \in Range(t)
    BY <1>2, <1>4 DEF Range
  <2> QED
    BY <2>1, <2>2, <2>3, <1>1, <1>0, <1>4 DEF Range
<1> QED
  BY <1>2, <1>3, <1>7, <1>9, <1>10

\* The i-th block taken out: the one in front, or the chain, is told its next pointer.
LEMMA TakenOut ==
    ASSUME Given, NEW h, NEW n, NEW s, IsInjective(s), Walked(s, h, n),
           NEW i \in 1 .. Len(s), NEW h2, NEW n2, Unlinked(i, s, h, n, h2, n2), NEW t,
           t = RemoveAt(s, i)
    PROVE  /\ Walked(t, h2, n2) /\ IsInjective(t) /\ Range(t) = Range(s) \ {s[i]}
           /\ Len(t) = Len(s) - 1
           /\ \A k \in 1 .. Len(s) - 1 : t[k] = IF k < i THEN s[k] ELSE s[k + 1]
<1>1. /\ s \in Seq(Block) /\ Len(s) \in Nat /\ DOMAIN s = 1 .. Len(s) /\ h = EntryAt(s, 1)
      /\ \A k \in 1 .. Len(s) : s[k] \in Block /\ n[s[k]] = EntryAt(s, k + 1)
      /\ \A k, l \in 1 .. Len(s) : s[k] = s[l] => k = l
  BY DEF Walked, IsInjective
<1>0. /\ \A c \in Block : (i > 1 => c # s[i - 1]) => n2[c] = n[c]
      /\ IF i = 1 THEN h2 = n[s[i]] ELSE h2 = h /\ n2[s[i - 1]] = n[s[i]]
  BY DEF Unlinked
<1>2. /\ t \in Seq(Block) /\ Len(t) = Len(s) - 1
      /\ \A k \in 1 .. Len(s) - 1 : t[k] = IF k < i THEN s[k] ELSE s[k + 1]
  <2>1. i \in DOMAIN s /\ s \in Seq(Block)
    BY <1>1, <1>0
  <2> QED
    BY <2>1, RemoveAtProperties, Zenon
<1>3. DOMAIN t = 1 .. Len(s) - 1 /\ i \in Nat /\ 1 <= i /\ i <= Len(s)
  BY <1>1, <1>0, <1>2
<1>4. \A k \in 1 .. Len(s) : EntryAt(t, k) = EntryAt(s, IF k < i THEN k ELSE k + 1)
  <2> SUFFICES ASSUME NEW k \in 1 .. Len(s)
               PROVE  EntryAt(t, k) = EntryAt(s, IF k < i THEN k ELSE k + 1)
    OBVIOUS
  <2>1. CASE k = Len(s)
    BY <2>1, <1>1, <1>0, <1>2, <1>3 DEF EntryAt
  <2>2. CASE k # Len(s)
    <3>1. k \in 1 .. Len(s) - 1 /\ ~(k > Len(t)) /\ ~(k > Len(s)) /\ ~(k + 1 > Len(s))
      <4>1. Len(s) \in Nat /\ Len(t) = Len(s) - 1
        BY <1>1, <1>0, <1>2
      <4> QED
        BY <2>2, <4>1
    <3> QED
      BY <3>1, <1>2 DEF EntryAt
  <2> QED
    BY <2>1, <2>2
<1>5. h2 = EntryAt(t, 1)
  <2>1. 1 \in 1 .. Len(s)
    BY <1>3
  <2>2. CASE i = 1
    BY <2>1, <2>2, <1>1, <1>0, <1>4
  <2>3. CASE i # 1
    <3>1. 1 < i
      BY <2>3, <1>3
    <3> QED
      BY <2>1, <2>3, <3>1, <1>1, <1>0, <1>4
  <2> QED
    BY <2>2, <2>3
<1>6. ASSUME NEW k \in 1 .. Len(s) - 1
      PROVE  n2[t[k]] = EntryAt(t, k + 1)
  <2>0. k + 1 \in 1 .. Len(s) /\ k \in 1 .. Len(s)
    BY <1>1, <1>0
  <2>1. EntryAt(t, k + 1) = EntryAt(s, IF k + 1 < i THEN k + 1 ELSE (k + 1) + 1)
    BY <2>0, <1>4
  <2>2. CASE k < i - 1
    <3>1. k < i /\ k + 1 < i /\ i > 1 /\ k # i - 1 /\ i - 1 \in 1 .. Len(s)
      BY <2>2, <1>3
    <3>2. t[k] = s[k] /\ n2[s[k]] = n[s[k]]
      BY <2>0, <3>1, <1>1, <1>0, <1>2
    <3> QED
      BY <2>0, <2>1, <3>1, <3>2, <1>1, <1>0
  <2>3. CASE k = i - 1
    <3>1. k < i /\ ~(k + 1 < i) /\ i # 1 /\ k + 1 = i
      BY <2>3, <1>3
    <3>2. t[k] = s[i - 1] /\ n2[s[i - 1]] = n[s[i]]
      BY <1>0, <2>3, <3>1, <1>2
    <3> QED
      BY <2>0, <2>1, <3>1, <3>2, <1>1, <1>0
  <2>4. CASE k >= i
    <3>1. ~(k < i) /\ ~(k + 1 < i) /\ (i > 1 => k + 1 # i - 1 /\ i - 1 \in 1 .. Len(s))
      BY <2>4, <1>3
    <3>2. t[k] = s[k + 1] /\ n2[s[k + 1]] = n[s[k + 1]]
      BY <2>0, <3>1, <1>1, <1>0, <1>2
    <3> QED
      BY <2>0, <2>1, <3>1, <3>2, <1>1, <1>0
  <2> QED
    BY <2>2, <2>3, <2>4, <1>3
<1>7. Walked(t, h2, n2)
  BY <1>2, <1>3, <1>5, <1>6 DEF Walked
<1>8. IsInjective(t)
  <2> SUFFICES ASSUME NEW k \in 1 .. Len(s) - 1, NEW l \in 1 .. Len(s) - 1, t[k] = t[l]
               PROVE  k = l
    BY <1>3 DEF IsInjective
  <2>1. /\ k \in 1 .. Len(s) /\ k + 1 \in 1 .. Len(s)
        /\ l \in 1 .. Len(s) /\ l + 1 \in 1 .. Len(s)
    BY <1>1, <1>0
  <2>2. (IF k < i THEN k ELSE k + 1) = (IF l < i THEN l ELSE l + 1)
    BY <2>1, <1>1, <1>0, <1>2
  <2> QED
    BY <2>2, <1>3
<1>9. Range(t) = Range(s) \ {s[i]}
  <2>1. ASSUME NEW k \in 1 .. Len(s) - 1 PROVE t[k] \in Range(s) \ {s[i]}
    <3>1. PICK j \in 1 .. Len(s) : j # i /\ t[k] = s[j]
      <4>1. CASE k < i
        <5>1. k \in 1 .. Len(s) /\ k # i
          BY <4>1, <1>1, <1>0, <1>3
        <5> QED
          BY <4>1, <5>1, <1>2
      <4>2. CASE ~(k < i)
        <5>1. k + 1 \in 1 .. Len(s) /\ k + 1 # i
          BY <4>2, <1>1, <1>0, <1>3
        <5> QED
          BY <4>2, <5>1, <1>2
      <4> QED
        BY <4>1, <4>2
    <3> QED
      BY <3>1, <1>1, <1>0 DEF Range
  <2>2. ASSUME NEW j \in 1 .. Len(s), j # i PROVE s[j] \in Range(t)
    <3>1. CASE j < i
      <4>1. j \in 1 .. Len(s) - 1
        BY <3>1, <1>1, <1>0, <1>3
      <4> QED
        BY <3>1, <4>1, <1>2, <1>3 DEF Range
    <3>2. CASE ~(j < i)
      <4>1. j - 1 \in 1 .. Len(s) - 1 /\ ~(j - 1 < i) /\ (j - 1) + 1 = j
        BY <2>2, <3>2, <1>1, <1>0, <1>3
      <4>2. t[j - 1] = s[j]
        BY <4>1, <1>2
      <4> QED
        BY <4>1, <4>2, <1>3 DEF Range
    <3> QED
      BY <3>1, <3>2
  <2>3. \A x : x \in Range(t) => x \in Range(s) \ {s[i]}
    BY <2>1, <1>3 DEF Range
  <2>4. \A x : x \in Range(s) \ {s[i]} => x \in Range(t)
    BY <2>2, <1>1, <1>0 DEF Range
  <2> QED
    BY <2>3, <2>4
<1> QED
  BY <1>2, <1>7, <1>8, <1>9

\* An event under way.
Walk == [at : Block, called : Seq(Block), steady : SUBSET Block, moved : BOOLEAN]

\* The chain: its blocks are threaded, none twice, and those are the ones with a field.
ChainInv ==
    /\ inetaddr_chain \in Block \cup {NULL}
    /\ next \in [Block -> Block \cup {NULL}]
    /\ Walked(Chain, inetaddr_chain, next) /\ IsInjective(Chain)
    /\ fields = [b \in Block |-> IF b \in Registered THEN 1 ELSE 0]
    /\ walk = NoWalk \/ walk \in Walk

\* What registering does to the chain.
PutInAt(i, b) ==
    /\ b \notin Registered /\ i \in 1 .. Len(Chain) + 1
    /\ Len(Chain') = Len(Chain) + 1 /\ Chain'[i] = b
    /\ \A k \in 1 .. i - 1 : Chain'[k] = Chain[k]
    /\ \A k \in i .. Len(Chain) : Chain'[k + 1] = Chain[k]
    /\ next'[b] = EntryAt(Chain, i)
    /\ i > 1 => next'[Chain[i - 1]] = b
    /\ \A c \in Block : c # b /\ (i > 1 => c # Chain[i - 1]) => next'[c] = next[c]
    /\ Registered' = Registered \cup {b}

\* notifier_chain_register keeps the chain whole.
LEMMA RegisterStep ==
    ASSUME Given, ChainInv, NEW b \in Block, notifier_chain_register(b)
    PROVE  ChainInv' /\ \E i \in 1 .. Len(Chain) + 1 : PutInAt(i, b)
<1> DEFINE s == Chain
           i == Place(b)
           lower == { j \in DOMAIN s : Priority[b] > Priority[s[j]] }
           t == InsertAt(s, i, b)
<1>1. /\ s \in Seq(Block) /\ Len(s) \in Nat /\ DOMAIN s = 1 .. Len(s) /\ IsInjective(s)
      /\ Walked(s, inetaddr_chain, next) /\ b \notin Range(s)
      /\ next \in [Block -> Block \cup {NULL}]
  BY DEF ChainInv, Walked, notifier_chain_register, Registered
<1>2. i = IF lower = {} THEN Len(s) + 1 ELSE CHOOSE j \in lower : \A k \in lower : j <= k
  BY DEF Place
<1> HIDE DEF i, s
<1>3. i \in 1 .. Len(s) + 1
  <2>1. CASE lower = {}
    BY <2>1, <1>1, <1>2
  <2>2. CASE lower # {}
    <3>1. lower \subseteq 1 .. Len(s) /\ lower \subseteq Nat
      BY <1>1
    <3> HIDE DEF lower
    <3>2. \E j \in lower : \A k \in lower : j <= k
      BY <2>2, <3>1, Least
    <3>3. i \in lower
      BY <2>2, <3>2, <1>2
    <3> QED
      BY <3>1, <3>3, <1>1
  <2> QED
    BY <2>1, <2>2
<1>4. IF i = 1
      THEN inetaddr_chain' = b /\ next' = [next EXCEPT ![b] = EntryAt(s, i)]
      ELSE /\ next' = [next EXCEPT ![b] = EntryAt(s, i), ![s[i - 1]] = b]
           /\ inetaddr_chain' = inetaddr_chain
  BY DEF notifier_chain_register, i, s
<1>5. EntryAt(s, i) \in Block \cup {NULL}
  BY <1>1, <1>3 DEF EntryAt
<1>6. i # 1 => i - 1 \in 1 .. Len(s) /\ s[i - 1] \in Block /\ s[i - 1] # b
  <2>1. i # 1 => i - 1 \in 1 .. Len(s)
    BY <1>1, <1>3
  <2> QED
    BY <2>1, <1>1 DEF Range
<1>7. /\ next'[b] = EntryAt(s, i)
      /\ \A c \in Block : c # b /\ (i > 1 => c # s[i - 1]) => next'[c] = next[c]
      /\ IF i = 1 THEN inetaddr_chain' = b
         ELSE inetaddr_chain' = inetaddr_chain /\ next'[s[i - 1]] = b
      /\ next' \in [Block -> Block \cup {NULL}] /\ inetaddr_chain' \in Block \cup {NULL}
  <2>1. CASE i = 1
    BY <2>1, <1>1, <1>4, <1>5
  <2>2. CASE i # 1
    <3>1. i > 1
      BY <2>2, <1>1, <1>3
    <3> QED
      BY <2>2, <3>1, <1>1, <1>4, <1>5, <1>6 DEF ChainInv
  <2> QED
    BY <2>1, <2>2
<1>8. /\ Walked(t, inetaddr_chain', next') /\ IsInjective(t) /\ Range(t) = Range(s) \cup {b}
      /\ Len(t) = Len(s) + 1 /\ t[i] = b
      /\ \A k \in 1 .. i - 1 : t[k] = s[k]
      /\ \A k \in i .. Len(s) : t[k + 1] = s[k]
  <2>1. IsInjective(s) /\ Walked(s, inetaddr_chain, next) /\ b \notin Range(s)
    BY <1>1
  <2>2. Linked(i, b, s, inetaddr_chain, next, inetaddr_chain', next')
    BY <1>7 DEF Linked
  <2>3. t = InsertAt(s, i, b)
    OBVIOUS
  <2> HIDE DEF t
  <2> QED
    BY <2>1, <2>2, <2>3, <1>3, PutIn, SMTT(30)
<1> HIDE DEF t
<1>9. Chain' = t
  BY <1>8, ChainIs DEF Chain, Follows
<1>10. Registered' = Registered \cup {b}
  BY <1>8, <1>9, Zenon DEF Registered, s
<1>11. fields' = [c \in Block |-> IF c \in Registered' THEN 1 ELSE 0]
  <2>1. fields' = [fields EXCEPT ![b] = @ + 1]
    BY DEF notifier_chain_register
  <2>2. fields = [c \in Block |-> IF c \in Registered THEN 1 ELSE 0] /\ b \notin Registered
    BY DEF ChainInv, notifier_chain_register
  <2> QED
    BY <2>1, <2>2, <1>10
<1>12. walk' = NoWalk \/ walk' \in Walk
  <2>1. walk = NoWalk \/ walk \in Walk
    BY DEF ChainInv
  <2>2. walk' = IF walk = NoWalk THEN walk
                ELSE [walk EXCEPT !.moved = @ \/ walk.at \notin Registered, !.steady = @ \ {b}]
    BY DEF notifier_chain_register, Disturb
  <2> QED
    BY <2>1, <2>2 DEF Walk
<1>13. ChainInv'
  BY <1>7, <1>8, <1>9, <1>11, <1>12 DEF ChainInv, NoWalk, Walk
<1>14. PutInAt(i, b)
  <2>1. b \notin Registered /\ (i > 1 => i # 1)
    BY <1>3 DEF notifier_chain_register
  <2> QED
    BY <2>1, <1>3, <1>7, <1>8, <1>9, <1>10 DEF PutInAt, s
<1> QED
  BY <1>3, <1>13, <1>14 DEF s

\* What unregistering does to it.
TakenOutAt(i, b) ==
    /\ i \in 1 .. Len(Chain) /\ Chain[i] = b
    /\ Len(Chain') = Len(Chain) - 1
    /\ \A k \in 1 .. Len(Chain) - 1 : Chain'[k] = IF k < i THEN Chain[k] ELSE Chain[k + 1]
    /\ i > 1 => next'[Chain[i - 1]] = next[b]
    /\ \A c \in Block : (i > 1 => c # Chain[i - 1]) => next'[c] = next[c]
    /\ Registered' = Registered \ {b}

\* notifier_chain_unregister keeps the chain whole.
LEMMA UnregisterStep ==
    ASSUME Given, ChainInv, NEW b \in Block, notifier_chain_unregister(b)
    PROVE  ChainInv' /\ \E i \in 1 .. Len(Chain) : TakenOutAt(i, b)
<1> DEFINE s == Chain
           i == CHOOSE j \in DOMAIN s : s[j] = b
           t == RemoveAt(s, i)
<1>1. /\ s \in Seq(Block) /\ Len(s) \in Nat /\ DOMAIN s = 1 .. Len(s) /\ IsInjective(s)
      /\ Walked(s, inetaddr_chain, next) /\ b \in Range(s)
      /\ next \in [Block -> Block \cup {NULL}]
  BY DEF ChainInv, Walked, notifier_chain_unregister, Registered
<1>2. IF i = 1
      THEN inetaddr_chain' = next[b] /\ next' = next
      ELSE /\ next' = [next EXCEPT ![s[i - 1]] = next[b]]
           /\ inetaddr_chain' = inetaddr_chain
  BY DEF notifier_chain_unregister
<1> HIDE DEF s
<1>3. i \in 1 .. Len(s) /\ s[i] = b
  BY <1>1 DEF Range
<1> HIDE DEF i
<1>4. i # 1 => i - 1 \in 1 .. Len(s) /\ s[i - 1] \in Block /\ i > 1
  <2>1. i # 1 => i - 1 \in 1 .. Len(s) /\ i > 1
    BY <1>1, <1>3
  <2> QED
    BY <2>1, <1>1
<1>5. /\ \A c \in Block : (i > 1 => c # s[i - 1]) => next'[c] = next[c]
      /\ IF i = 1 THEN inetaddr_chain' = next[s[i]]
         ELSE inetaddr_chain' = inetaddr_chain /\ next'[s[i - 1]] = next[s[i]]
      /\ next' \in [Block -> Block \cup {NULL}] /\ inetaddr_chain' \in Block \cup {NULL}
  <2>1. CASE i = 1
    BY <2>1, <1>1, <1>2, <1>3
  <2>2. CASE i # 1
    BY <2>2, <1>1, <1>2, <1>3, <1>4 DEF ChainInv
  <2> QED
    BY <2>1, <2>2
<1>6. /\ Walked(t, inetaddr_chain', next') /\ IsInjective(t) /\ Range(t) = Range(s) \ {s[i]}
      /\ Len(t) = Len(s) - 1
      /\ \A k \in 1 .. Len(s) - 1 : t[k] = IF k < i THEN s[k] ELSE s[k + 1]
  <2>1. IsInjective(s) /\ Walked(s, inetaddr_chain, next)
    BY <1>1
  <2>2. Unlinked(i, s, inetaddr_chain, next, inetaddr_chain', next')
    BY <1>5 DEF Unlinked
  <2>3. t = RemoveAt(s, i)
    OBVIOUS
  <2> HIDE DEF t
  <2> QED
    BY <2>1, <2>2, <2>3, <1>3, TakenOut, SMTT(30)
<1> HIDE DEF t
<1>7. Chain' = t
  BY <1>6, ChainIs DEF Chain, Follows
<1>8. Registered' = Registered \ {b}
  BY <1>3, <1>6, <1>7, Zenon DEF Registered, s
<1>9. fields' = [c \in Block |-> IF c \in Registered' THEN 1 ELSE 0]
  <2>1. fields' = [fields EXCEPT ![b] = 0]
    BY DEF notifier_chain_unregister
  <2>2. fields = [c \in Block |-> IF c \in Registered THEN 1 ELSE 0]
    BY DEF ChainInv
  <2> QED
    BY <2>1, <2>2, <1>8
<1>10. walk' = NoWalk \/ walk' \in Walk
  <2>1. walk = NoWalk \/ walk \in Walk
    BY DEF ChainInv
  <2>2. walk' = IF walk = NoWalk THEN walk
                ELSE [walk EXCEPT !.moved = @ \/ walk.at \notin Registered, !.steady = @ \ {b}]
    BY DEF notifier_chain_unregister, Disturb
  <2> QED
    BY <2>1, <2>2 DEF Walk
<1>11. ChainInv'
  BY <1>5, <1>6, <1>7, <1>9, <1>10 DEF ChainInv, NoWalk, Walk
<1>12. TakenOutAt(i, b)
  <2>1. i > 1 => i # 1
    BY <1>3
  <2> QED
    BY <2>1, <1>3, <1>5, <1>6, <1>7, <1>8 DEF TakenOutAt, s
<1> QED
  BY <1>3, <1>11, <1>12 DEF s

\* The walk stands behind the k-th block: at it, or where it was when it left the chain.
\* The blocks that stayed have been called up to there and not further on.
BehindBlock(k) ==
    /\ (k # 0 /\ Chain[k] = walk.at) \/ walk.at \notin Registered
    /\ next[walk.at] = EntryAt(Chain, k + 1)
    /\ \A j \in 1 .. Len(Chain) :
        Chain[j] \in walk.steady => (Chain[j] \in Range(walk.called) <=> j <= k)

WalkInv ==
    walk # NoWalk =>
        /\ walk.steady \subseteq Registered
        /\ ~walk.moved => \E k \in 0 .. Len(Chain) : BehindBlock(k)

\* The chain as the proofs use it.
LEMMA ChainFacts ==
    ASSUME ChainInv
    PROVE  /\ Chain \in Seq(Block) /\ Len(Chain) \in Nat /\ DOMAIN Chain = 1 .. Len(Chain)
           /\ \A k \in 1 .. Len(Chain) :
                Chain[k] \in Block /\ Chain[k] \in Registered
                /\ next[Chain[k]] = EntryAt(Chain, k + 1)
           /\ \A k, l \in 1 .. Len(Chain) : Chain[k] = Chain[l] => k = l
           /\ \A x : x \in Registered => \E k \in 1 .. Len(Chain) : x = Chain[k]
           /\ inetaddr_chain = EntryAt(Chain, 1)
           /\ Registered \subseteq Block
BY DEF ChainInv, Walked, Registered, Range, IsInjective

\* A change of the chain by a callback while the walk is at its block.
LEMMA WalkDisturbed ==
    ASSUME ChainInv, walk # NoWalk, NEW b,
           walk' = [walk EXCEPT !.moved = @ \/ walk.at \notin Registered, !.steady = @ \ {b}]
    PROVE  /\ walk' # NoWalk /\ walk'.at = walk.at /\ walk'.called = walk.called
           /\ walk'.steady = walk.steady \ {b}
           /\ walk'.moved = (walk.moved \/ walk.at \notin Registered)
           /\ walk.at \in Block /\ walk.moved \in BOOLEAN
<1>1. walk \in Walk
  BY DEF ChainInv
<1>2. walk' \in [at : Block, called : Seq(Block), steady : SUBSET Block, moved : BOOLEAN]
  BY <1>1 DEF Walk
<1>3. walk' # NoWalk
  <2>1. DOMAIN walk' = {"at", "called", "steady", "moved"} /\ DOMAIN NoWalk = {"at"}
    BY <1>2 DEF NoWalk
  <2>2. "called" \in DOMAIN walk' /\ "called" \notin DOMAIN NoWalk
    BY <2>1
  <2> QED
    BY <2>2
<1> QED
  BY <1>1, <1>3 DEF Walk

\* Registering a block does not lose the place of the walk.
LEMMA WalkRegister ==
    ASSUME Given, ChainInv, WalkInv, NEW b \in Block, notifier_chain_register(b)
    PROVE  WalkInv'
<1>1. ChainInv' /\ \E i \in 1 .. Len(Chain) + 1 : PutInAt(i, b)
  BY RegisterStep
<1>2. PICK i \in 1 .. Len(Chain) + 1 : PutInAt(i, b)
  BY <1>1
<1>3. CASE walk = NoWalk
  BY <1>3 DEF WalkInv, notifier_chain_register, Disturb, NoWalk
<1>4. CASE walk # NoWalk
  <2>1. walk' = [walk EXCEPT !.moved = @ \/ walk.at \notin Registered, !.steady = @ \ {b}]
    BY <1>4 DEF notifier_chain_register, Disturb
  <2>2. /\ walk' # NoWalk /\ walk'.at = walk.at /\ walk'.called = walk.called
        /\ walk'.steady = walk.steady \ {b}
        /\ walk'.moved = (walk.moved \/ walk.at \notin Registered)
        /\ walk.at \in Block /\ walk.moved \in BOOLEAN
    BY <1>4, <2>1, WalkDisturbed
  <2>3. walk'.steady \subseteq Registered'
    BY <1>2, <1>4, <2>2 DEF WalkInv, PutInAt
  <2>4. ASSUME ~walk'.moved PROVE \E k \in 0 .. Len(Chain') : BehindBlock(k)'
    <3>1. ~walk.moved /\ walk.at \in Registered
      BY <2>2, <2>4
    <3>2. PICK k \in 0 .. Len(Chain) : BehindBlock(k)
      BY <1>4, <3>1 DEF WalkInv
    <3>3. k # 0 /\ Chain[k] = walk.at /\ k \in 1 .. Len(Chain)
      BY <3>1, <3>2, ChainFacts DEF BehindBlock
    <3>4. /\ Len(Chain) \in Nat /\ Len(Chain') = Len(Chain) + 1
          /\ i \in Nat /\ 1 <= i /\ i <= Len(Chain) + 1 /\ k \in Nat /\ 1 <= k /\ k <= Len(Chain)
      BY <1>2, <3>3, ChainFacts DEF PutInAt
    <3> DEFINE p == IF i <= k THEN k + 1 ELSE k
    <3>5. p \in 0 .. Len(Chain') /\ p # 0 /\ p \in 1 .. Len(Chain')
      BY <3>4
    <3>6. Chain'[p] = walk.at
      <4>1. CASE i <= k
        <5>1. k \in i .. Len(Chain)
          BY <4>1, <3>4
        <5> QED
          BY <4>1, <5>1, <3>3, <1>2 DEF PutInAt
      <4>2. CASE ~(i <= k)
        <5>1. k \in 1 .. i - 1
          BY <4>2, <3>4
        <5> QED
          BY <4>2, <5>1, <3>3, <1>2 DEF PutInAt
      <4> QED
        BY <4>1, <4>2
    <3>7. next'[Chain'[p]] = EntryAt(Chain, p + 1)'
      <4>1. \A q \in 1 .. Len(Chain') : next'[Chain'[q]] = EntryAt(Chain, q + 1)'
        BY <1>1 DEF ChainInv, Walked
      <4> HIDE DEF p
      <4> QED
        BY <3>5, <4>1
    <3>8. ASSUME NEW j \in 1 .. Len(Chain'), Chain'[j] \in walk'.steady
          PROVE  Chain'[j] \in Range(walk'.called) <=> j <= p
      <4>1. j # i
        BY <1>2, <2>2, <3>8 DEF PutInAt
      <4>2. CASE j < i
        <5>1. j \in 1 .. i - 1 /\ j \in 1 .. Len(Chain) /\ (j <= p <=> j <= k)
          BY <4>2, <3>4
        <5>2. Chain'[j] = Chain[j]
          BY <5>1, <1>2 DEF PutInAt
        <5>3. Chain[j] \in walk.steady
          BY <5>2, <2>2, <3>8
        <5> QED
          BY <5>1, <5>2, <5>3, <3>2, <2>2 DEF BehindBlock
      <4>3. CASE j > i
        <5>1. /\ j - 1 \in i .. Len(Chain) /\ j - 1 \in 1 .. Len(Chain) /\ (j - 1) + 1 = j
              /\ j <= p <=> j - 1 <= k
          BY <4>3, <3>4
        <5>2. Chain'[j] = Chain[j - 1]
          <6>1. Chain'[(j - 1) + 1] = Chain[j - 1]
            BY <5>1, <1>2 DEF PutInAt
          <6> QED
            BY <5>1, <6>1
        <5>3. Chain[j - 1] \in walk.steady
          BY <5>2, <2>2, <3>8
        <5> QED
          BY <5>1, <5>2, <5>3, <3>2, <2>2 DEF BehindBlock
      <4>4. j \in Nat /\ i \in Nat
        BY <3>4
      <4> QED
        BY <4>1, <4>2, <4>3, <4>4
    <3> HIDE DEF p
    <3>9. BehindBlock(p)'
      BY <3>5, <3>6, <3>7, <3>8, <2>2 DEF BehindBlock
    <3> QED
      BY <3>5, <3>9
  <2> QED
    BY <2>3, <2>4 DEF WalkInv
<1> QED
  BY <1>3, <1>4

\* Nor does unregistering one, the walk's own block included: its next pointer stays.
LEMMA WalkUnregister ==
    ASSUME Given, ChainInv, WalkInv, NEW b \in Block, notifier_chain_unregister(b)
    PROVE  WalkInv'
<1>1. ChainInv' /\ \E i \in 1 .. Len(Chain) : TakenOutAt(i, b)
  BY UnregisterStep
<1>2. PICK i \in 1 .. Len(Chain) : TakenOutAt(i, b)
  BY <1>1
<1>3. CASE walk = NoWalk
  BY <1>3 DEF WalkInv, notifier_chain_unregister, Disturb, NoWalk
<1>4. CASE walk # NoWalk
  <2>1. walk' = [walk EXCEPT !.moved = @ \/ walk.at \notin Registered, !.steady = @ \ {b}]
    BY <1>4 DEF notifier_chain_unregister, Disturb
  <2>2. /\ walk' # NoWalk /\ walk'.at = walk.at /\ walk'.called = walk.called
        /\ walk'.steady = walk.steady \ {b}
        /\ walk'.moved = (walk.moved \/ walk.at \notin Registered)
        /\ walk.at \in Block /\ walk.moved \in BOOLEAN
    BY <1>4, <2>1, WalkDisturbed
  <2>3. walk'.steady \subseteq Registered'
    BY <1>2, <1>4, <2>2 DEF WalkInv, TakenOutAt
  <2>4. ASSUME ~walk'.moved PROVE \E k \in 0 .. Len(Chain') : BehindBlock(k)'
    <3>1. ~walk.moved /\ walk.at \in Registered
      BY <2>2, <2>4
    <3>2. PICK k \in 0 .. Len(Chain) : BehindBlock(k)
      BY <1>4, <3>1 DEF WalkInv
    <3>3. k # 0 /\ Chain[k] = walk.at /\ k \in 1 .. Len(Chain)
      BY <3>1, <3>2, ChainFacts DEF BehindBlock
    <3>4. /\ Len(Chain) \in Nat /\ Len(Chain') = Len(Chain) - 1
          /\ i \in Nat /\ 1 <= i /\ i <= Len(Chain) /\ k \in Nat /\ 1 <= k /\ k <= Len(Chain)
      BY <1>2, <3>3, ChainFacts DEF TakenOutAt
    <3>0. \A q \in 1 .. Len(Chain) - 1 : Chain'[q] = IF q < i THEN Chain[q] ELSE Chain[q + 1]
      BY <1>2 DEF TakenOutAt
    <3> DEFINE p == IF i <= k THEN k - 1 ELSE k
    <3>5. p \in 0 .. Len(Chain')
      BY <3>4
    <3>6. (p # 0 /\ Chain'[p] = walk.at) \/ walk.at \notin Registered'
      <4>1. CASE i = k
        <5>1. walk.at = b
          BY <4>1, <1>2, <3>3 DEF TakenOutAt
        <5> QED
          BY <5>1, <1>2 DEF TakenOutAt
      <4>2. CASE i < k
        <5>1. k - 1 \in 1 .. Len(Chain) - 1 /\ ~(k - 1 < i) /\ (k - 1) + 1 = k /\ i <= k
              /\ k - 1 # 0
          BY <4>2, <3>4
        <5> QED
          BY <5>1, <3>0, <3>3
      <4>3. CASE i > k
        <5>1. k \in 1 .. Len(Chain) - 1 /\ k < i /\ ~(i <= k)
          BY <4>3, <3>4
        <5> QED
          BY <5>1, <3>0, <3>3
      <4> QED
        BY <4>1, <4>2, <4>3, <3>4
    <3>7. next'[walk.at] = EntryAt(Chain, p + 1)'
      <4>1. CASE walk.at \in Registered'
        <5>1. p \in 1 .. Len(Chain') /\ Chain'[p] = walk.at
          BY <4>1, <3>5, <3>6, <3>4
        <5>2. \A q \in 1 .. Len(Chain') : next'[Chain'[q]] = EntryAt(Chain, q + 1)'
          BY <1>1 DEF ChainInv, Walked
        <5> HIDE DEF p
        <5>3. next'[Chain'[p]] = EntryAt(Chain, p + 1)'
          BY <5>1, <5>2
        <5> QED
          BY <5>1, <5>3
      <4>2. CASE walk.at \notin Registered'
        <5>1. walk.at = b
          BY <4>2, <3>1, <1>2 DEF TakenOutAt
        <5>2. i = k
          BY <5>1, <3>3, <1>2, ChainFacts DEF TakenOutAt
        <5>3. p + 1 = k
          BY <5>2, <3>4
        <5>4. next'[walk.at] = next[walk.at]
          <6>1. i > 1 => i - 1 \in 1 .. Len(Chain) /\ i - 1 # i
            BY <3>4
          <6>2. i > 1 => walk.at # Chain[i - 1]
            BY <6>1, <5>2, <3>3, ChainFacts
          <6> QED
            BY <6>2, <2>2, <1>2 DEF TakenOutAt
        <5>5. next[walk.at] = EntryAt(Chain, k + 1)
          BY <3>2 DEF BehindBlock
        <5>6. EntryAt(Chain, k)' = EntryAt(Chain, k + 1)
          <6>1. CASE k = Len(Chain)
            BY <6>1, <3>4 DEF EntryAt
          <6>2. CASE k # Len(Chain)
            <7>1. /\ k \in 1 .. Len(Chain) - 1 /\ ~(k < i) /\ ~(k > Len(Chain) - 1)
                  /\ ~(k + 1 > Len(Chain))
              BY <6>2, <5>2, <3>4
            <7> QED
              BY <7>1, <3>0, <3>4 DEF EntryAt
          <6> QED
            BY <6>1, <6>2
        <5> HIDE DEF p
        <5> QED
          BY <5>3, <5>4, <5>5, <5>6
      <4> QED
        BY <4>1, <4>2
    <3>8. ASSUME NEW j \in 1 .. Len(Chain'), Chain'[j] \in walk'.steady
          PROVE  Chain'[j] \in Range(walk'.called) <=> j <= p
      <4>0. j \in 1 .. Len(Chain) - 1
        BY <3>4
      <4>2. CASE j < i
        <5>1. j \in 1 .. Len(Chain) /\ (j <= p <=> j <= k)
          BY <4>0, <4>2, <3>4
        <5>2. Chain'[j] = Chain[j]
          BY <4>0, <4>2, <3>0
        <5>3. Chain[j] \in walk.steady
          BY <5>2, <2>2, <3>8
        <5> QED
          BY <5>1, <5>2, <5>3, <3>2, <2>2 DEF BehindBlock
      <4>3. CASE ~(j < i)
        <5>1. j + 1 \in 1 .. Len(Chain) /\ (j <= p <=> j + 1 <= k)
          BY <4>0, <4>3, <3>4
        <5>2. Chain'[j] = Chain[j + 1]
          BY <4>0, <4>3, <3>0
        <5>3. Chain[j + 1] \in walk.steady
          BY <5>2, <2>2, <3>8
        <5> QED
          BY <5>1, <5>2, <5>3, <3>2, <2>2 DEF BehindBlock
      <4> QED
        BY <4>2, <4>3
    <3> HIDE DEF p
    <3>9. BehindBlock(p)'
      BY <3>6, <3>7, <3>8, <2>2 DEF BehindBlock
    <3> QED
      BY <3>5, <3>9
  <2> QED
    BY <2>3, <2>4 DEF WalkInv
<1> QED
  BY <1>3, <1>4

\* The chain is a matter of its first block and the next pointers.
LEMMA ChainStays ==
    ASSUME inetaddr_chain' = inetaddr_chain, next' = next
    PROVE  Chain' = Chain /\ Registered' = Registered
<1>1. Chain' = Chain
  BY DEF Chain, Follows
<1> QED
  BY <1>1 DEF Registered

\* An event begins at the first block.
LEMMA WalkBegins ==
    ASSUME Given, ChainInv, CallChain
    PROVE  ChainInv' /\ WalkInv' /\ walk' # NoWalk /\ walk'.at \in Registered
<1>1. /\ inetaddr_chain # NULL /\ inetaddr_chain' = inetaddr_chain /\ next' = next
      /\ fields' = fields
      /\ walk' = [at |-> inetaddr_chain, called |-> <<inetaddr_chain>>,
                  steady |-> Registered, moved |-> FALSE]
  BY DEF CallChain
<1>2. Chain' = Chain /\ Registered' = Registered
  BY <1>1, ChainStays
<1>3. 1 \in 1 .. Len(Chain) /\ inetaddr_chain = Chain[1] /\ Len(Chain) \in Nat
      /\ inetaddr_chain \in Block /\ inetaddr_chain \in Registered
  <2>1. ~(1 > Len(Chain)) /\ Len(Chain) \in Nat
    BY <1>1, ChainFacts DEF EntryAt
  <2>2. 1 \in 1 .. Len(Chain) /\ inetaddr_chain = Chain[1]
    BY <2>1, ChainFacts DEF EntryAt
  <2> QED
    BY <2>1, <2>2, ChainFacts
<1>4. walk' \in Walk /\ walk' # NoWalk
  <2>1. Registered \subseteq Block
    BY ChainFacts
  <2>2. "called" \in DOMAIN walk' /\ "called" \notin DOMAIN NoWalk
    BY <1>1 DEF NoWalk
  <2>3. walk' # NoWalk
    BY <2>2
  <2> QED
    BY <1>1, <1>3, <2>1, <2>3 DEF Walk
<1>5. ChainInv'
  BY <1>1, <1>2, <1>4 DEF ChainInv, NoWalk, Walk
<1>6. BehindBlock(1)'
  <2>1. walk'.at = Chain[1] /\ walk'.called = <<Chain[1]>> /\ next[Chain[1]] = EntryAt(Chain, 2)
    BY <1>1, <1>3, ChainFacts
  <2>2. Range(<<Chain[1]>>) = {Chain[1]}
    BY DEF Range
  <2>3. \A j \in 1 .. Len(Chain) : Chain[j] \in {Chain[1]} <=> j <= 1
    <3> SUFFICES ASSUME NEW j \in 1 .. Len(Chain) PROVE Chain[j] = Chain[1] <=> j = 1
      BY <1>3
    <3> QED
      BY <1>3, ChainFacts
  <2>4. EntryAt(Chain, 2)' = EntryAt(Chain, 2)
    BY <1>2 DEF EntryAt
  <2> QED
    BY <1>1, <1>2, <2>1, <2>2, <2>3, <2>4 DEF BehindBlock
<1>7. 1 \in 0 .. Len(Chain')
  BY <1>2, <1>3
<1>8. walk'.steady = Registered
  BY <1>1
<1> QED
  BY <1>1, <1>2, <1>3, <1>4, <1>5, <1>6, <1>7, <1>8 DEF WalkInv

\* A callback returns: the next pointer leads to the next block that has not been called.
LEMMA WalkGoesOn ==
    ASSUME Given, ChainInv, WalkInv, CallbackReturns
    PROVE  /\ ChainInv' /\ WalkInv'
           /\ ~walk.moved /\ walk' # NoWalk
              => walk'.at \in Registered \ (Range(walk.called) \cap walk.steady)
           /\ ~walk.moved /\ next[walk.at] = NULL => walk.steady \subseteq Range(walk.called)
           /\ walk' # NoWalk => walk'.at = next[walk.at] /\ next[walk.at] # NULL
<1>1. /\ walk # NoWalk /\ inetaddr_chain' = inetaddr_chain /\ next' = next /\ fields' = fields
      /\ walk' = NoWalk
         \/ (next[walk.at] # NULL /\ walk' = [walk EXCEPT !.at = next[walk.at],
                                                          !.called = Append(@, next[walk.at])])
  BY DEF CallbackReturns
<1>2. Chain' = Chain /\ Registered' = Registered
  BY <1>1, ChainStays
<1>3. /\ walk \in Walk /\ walk.at \in Block /\ walk.called \in Seq(Block)
      /\ walk.steady \subseteq Registered /\ walk.moved \in BOOLEAN
  BY <1>1 DEF ChainInv, WalkInv, Walk
<1>4. next[walk.at] \in Block \cup {NULL}
  BY <1>3 DEF ChainInv
<1>5. ASSUME ~walk.moved
      PROVE  \E k \in 0 .. Len(Chain) : BehindBlock(k)
  BY <1>1, <1>5 DEF WalkInv
<1>6. ASSUME ~walk.moved, next[walk.at] = NULL PROVE walk.steady \subseteq Range(walk.called)
  <2>1. PICK k \in 0 .. Len(Chain) : BehindBlock(k)
    BY <1>5, <1>6
  <2>2. EntryAt(Chain, k + 1) = NULL /\ Len(Chain) \in Nat
    BY <1>6, <2>1, ChainFacts DEF BehindBlock
  <2>3. k = Len(Chain)
    <3> SUFFICES ASSUME k # Len(Chain) PROVE FALSE
      OBVIOUS
    <3>1. k + 1 \in 1 .. Len(Chain) /\ ~(k + 1 > Len(Chain))
      BY <2>2
    <3>2. Chain[k + 1] = NULL /\ Chain[k + 1] \in Block
      BY <3>1, <2>2, ChainFacts DEF EntryAt
    <3> QED
      BY <3>2 DEF Given, BlockAssumption
  <2>4. ASSUME NEW x \in walk.steady PROVE x \in Range(walk.called)
    <3>1. PICK j \in 1 .. Len(Chain) : x = Chain[j]
      BY <1>3, <2>4, ChainFacts
    <3>2. j <= k
      BY <2>2, <2>3
    <3> QED
      BY <2>1, <2>4, <3>1, <3>2 DEF BehindBlock
  <2> QED
    BY <2>4
<1>7. CASE walk' = NoWalk
  <2>1. ChainInv' /\ WalkInv'
    BY <1>1, <1>2, <1>7 DEF ChainInv, WalkInv, NoWalk
  <2> QED
    BY <1>6, <1>7, <2>1
<1>8. CASE walk' # NoWalk
  <2> DEFINE y == next[walk.at]
  <2>1. y # NULL /\ y \in Block /\ walk' = [walk EXCEPT !.at = y, !.called = Append(@, y)]
    BY <1>1, <1>4, <1>8
  <2> HIDE DEF y
  <2>2. /\ walk' \in Walk /\ walk'.at = y /\ walk'.called = Append(walk.called, y)
        /\ walk'.steady = walk.steady /\ walk'.moved = walk.moved
    <3>1. Append(walk.called, y) \in Seq(Block)
      BY <1>3, <2>1
    <3>2. walk' = [at |-> y, called |-> Append(walk.called, y), steady |-> walk.steady,
                   moved |-> walk.moved]
      BY <1>3, <2>1 DEF Walk
    <3> QED
      BY <1>3, <2>1, <3>1, <3>2 DEF Walk
  <2>3. ChainInv'
    BY <1>1, <1>2, <2>2 DEF ChainInv, NoWalk, Walk
  <2>4. Range(walk'.called) = Range(walk.called) \cup {y}
    <3>1. /\ Len(walk.called) \in Nat /\ DOMAIN walk.called = 1 .. Len(walk.called)
          /\ DOMAIN walk'.called = 1 .. Len(walk.called) + 1
          /\ walk'.called[Len(walk.called) + 1] = y
          /\ \A j \in 1 .. Len(walk.called) : walk'.called[j] = walk.called[j]
      BY <1>3, <2>1, <2>2
    <3>2. \A j \in 1 .. Len(walk.called) + 1 :
            j \in 1 .. Len(walk.called) \/ j = Len(walk.called) + 1
      BY <3>1
    <3>3. \A j \in 1 .. Len(walk.called) : j \in 1 .. Len(walk.called) + 1
      BY <3>1
    <3>4. Len(walk.called) + 1 \in 1 .. Len(walk.called) + 1
      BY <3>1
    <3>5. \A x : x \in Range(walk'.called) => x \in Range(walk.called) \cup {y}
      BY <3>1, <3>2 DEF Range
    <3>6. \A x : x \in Range(walk.called) \cup {y} => x \in Range(walk'.called)
      BY <3>1, <3>3, <3>4 DEF Range
    <3> QED
      BY <3>5, <3>6
  <2>5. ASSUME ~walk.moved
        PROVE  /\ y \in Registered \ (Range(walk.called) \cap walk.steady)
               /\ \E k \in 0 .. Len(Chain') : BehindBlock(k)'
    <3>1. PICK k \in 0 .. Len(Chain) : BehindBlock(k)
      BY <1>5, <2>5
    <3>2. y = EntryAt(Chain, k + 1) /\ Len(Chain) \in Nat
      BY <3>1, ChainFacts DEF BehindBlock, y
    <3>3. k + 1 \in 1 .. Len(Chain) /\ y = Chain[k + 1]
      <4>1. ~(k + 1 > Len(Chain))
        BY <3>2, <2>1 DEF EntryAt
      <4> QED
        BY <3>2, <4>1 DEF EntryAt
    <3>4. y \in Registered /\ next[y] = EntryAt(Chain, (k + 1) + 1)
      BY <3>3, ChainFacts
    <3>5. ~(k + 1 <= k) /\ k + 1 # 0 /\ k + 1 \in 0 .. Len(Chain')
      BY <3>3, <1>2
    <3>6. y \in walk.steady => y \notin Range(walk.called)
      BY <3>1, <3>3, <3>5 DEF BehindBlock
    <3>7. ASSUME NEW j \in 1 .. Len(Chain), Chain[j] \in walk.steady
          PROVE  Chain[j] \in Range(walk.called) \cup {y} <=> j <= k + 1
      <4>1. Chain[j] \in Range(walk.called) <=> j <= k
        BY <3>1, <3>7 DEF BehindBlock
      <4>2. Chain[j] = y <=> j = k + 1
        BY <3>3, ChainFacts
      <4>3. j <= k + 1 <=> j <= k \/ j = k + 1
        BY <3>2
      <4> QED
        BY <4>1, <4>2, <4>3
    <3>8. EntryAt(Chain, (k + 1) + 1)' = EntryAt(Chain, (k + 1) + 1)
      BY <1>2 DEF EntryAt
    <3>9. BehindBlock(k + 1)'
      BY <1>1, <1>2, <2>2, <2>4, <3>3, <3>4, <3>5, <3>7, <3>8 DEF BehindBlock
    <3> QED
      BY <3>4, <3>5, <3>6, <3>9
  <2>6. WalkInv'
    BY <1>2, <1>3, <2>2, <2>5 DEF WalkInv
  <2> QED
    BY <1>6, <1>8, <2>1, <2>2, <2>3, <2>5, <2>6 DEF y
<1> QED
  BY <1>7, <1>8

\* What a step does to the chain: code of a module changes it, or an event goes on.
LEMMA ChainMoves ==
    ASSUME [Next]_vars
    PROVE  \/ UNCHANGED chainVars
           \/ \E b \in Block : notifier_chain_register(b) \/ notifier_chain_unregister(b)
           \/ CallChain
           \/ CallbackReturns
<1>1. CASE UNCHANGED vars
  BY <1>1 DEF vars
<1>2. CASE \E m \in Module : insmod(m) \/ rmmod(m)
  BY <1>2 DEF insmod, rmmod
<1>3. CASE insmod_a \/ rmmod_a \/ Exit
  BY <1>3 DEF insmod_a, rmmod_a, Exit
<1>4. CASE Event
  BY <1>4 DEF Event
<1>5. CASE ModuleCode
  <2>1. PICK m \in Module :
            \/ \E b \in Block : RegisterBlock(m, b) \/ UnregisterBlock(m, b)
            \/ CreateFile(m) \/ RemoveFile(m)
            \/ RegisterTable(m) \/ UnregisterTable(m)
            \/ kmem_cache_create(m) \/ kmem_cache_alloc(m)
            \/ kmem_cache_free(m) \/ kmem_cache_destroy(m)
            \/ \E o \in Module : try_module_get(m, o) \/ module_put(m, o)
    BY <1>5 DEF ModuleCode
  <2>2. CASE \E b \in Block : RegisterBlock(m, b) \/ UnregisterBlock(m, b)
    BY <2>2 DEF RegisterBlock, UnregisterBlock
  <2>3. CASE CreateFile(m) \/ RemoveFile(m) \/ RegisterTable(m) \/ UnregisterTable(m)
    BY <2>3 DEF CreateFile, RemoveFile, RegisterTable, UnregisterTable
  <2>4. CASE \/ kmem_cache_create(m) \/ kmem_cache_alloc(m)
             \/ kmem_cache_free(m) \/ kmem_cache_destroy(m)
    BY <2>4 DEF kmem_cache_create, kmem_cache_alloc, kmem_cache_free, kmem_cache_destroy
  <2>5. CASE \E o \in Module : try_module_get(m, o) \/ module_put(m, o)
    BY <2>5 DEF try_module_get, module_put
  <2> QED
    BY <2>1, <2>2, <2>3, <2>4, <2>5
<1>6. CASE Loader
  BY <1>6 DEF Loader, ReadDir, EndOfDir, InitSucceeds, InitFails, FiniReturns,
              check_allocations, EventGoesOn
<1> QED
  BY <1>1, <1>2, <1>3, <1>4, <1>5, <1>6 DEF Next

\* The chain is whole at the start and stays so.
LEMMA ChainStarts ==
    ASSUME Given, ChainInit
    PROVE  ChainInv /\ WalkInv /\ Registered = {}
<1>1. /\ inetaddr_chain = NULL /\ next = [b \in Block |-> NULL]
      /\ fields = [b \in Block |-> 0] /\ walk = NoWalk
  BY DEF ChainInit
<1>2. Walked(<< >>, inetaddr_chain, next) /\ IsInjective(<< >>)
  BY <1>1 DEF Walked, EntryAt, IsInjective
<1>3. Chain = << >>
  BY <1>2, ChainIs DEF Chain, Follows
<1>4. Registered = {}
  BY <1>3 DEF Registered, Range
<1> QED
  BY <1>1, <1>2, <1>3, <1>4 DEF ChainInv, WalkInv

\* Both parts hold after every step.
LEMMA ChainHolds ==
    ASSUME Given, ChainInv, WalkInv, [Next]_vars
    PROVE  ChainInv' /\ WalkInv'
<1>1. CASE UNCHANGED chainVars
  <2>1. /\ inetaddr_chain' = inetaddr_chain /\ next' = next /\ fields' = fields
        /\ walk' = walk
    BY <1>1 DEF chainVars
  <2>2. Chain' = Chain /\ Registered' = Registered
    BY <2>1, ChainStays
  <2>3. \A k : BehindBlock(k)' <=> BehindBlock(k)
    BY <2>1, <2>2 DEF BehindBlock, EntryAt
  <2>4. ChainInv'
    BY <2>1, <2>2 DEF ChainInv, NoWalk, Walk
  <2>5. WalkInv'
    BY <2>1, <2>2, <2>3 DEF WalkInv, NoWalk
  <2> QED
    BY <2>4, <2>5
<1>2. CASE \E b \in Block : notifier_chain_register(b) \/ notifier_chain_unregister(b)
  BY <1>2, RegisterStep, UnregisterStep, WalkRegister, WalkUnregister
<1>3. CASE CallChain
  BY <1>3, WalkBegins
<1>4. CASE CallbackReturns
  BY <1>4, WalkGoesOn
<1> QED
  BY <1>1, <1>2, <1>3, <1>4, ChainMoves

\* A change of the chain leaves the walk where it is.
LEMMA ChangesKeepTheWalk ==
    ASSUME ChainInv, NEW b \in Block,
           notifier_chain_register(b) \/ notifier_chain_unregister(b)
    PROVE  /\ walk = NoWalk => walk' = NoWalk
           /\ walk # NoWalk => walk' # NoWalk /\ walk'.at = walk.at
<1>1. walk' = IF walk = NoWalk THEN walk
              ELSE [walk EXCEPT !.moved = @ \/ walk.at \notin Registered, !.steady = @ \ {b}]
  BY DEF notifier_chain_register, notifier_chain_unregister, Disturb
<1>2. CASE walk = NoWalk
  BY <1>1, <1>2
<1>3. CASE walk # NoWalk
  BY <1>1, <1>3, WalkDisturbed
<1> QED
  BY <1>2, <1>3

\* notifier_call_chain tells an event to every block that stays registered while it is told,
\* once, and to none that has left the chain, even when callbacks unregister their own
\* blocks: for any blocks, priorities and modules.
THEOREM EventAlwaysReachesAll == Spec => EventReachesAll
<1>0. Given
  BY Assumed
<1> USE <1>0
<1> DEFINE Told == walk # NoWalk /\ ~walk.moved
               => /\ walk' # NoWalk /\ walk'.at # walk.at
                     => walk'.at \in Registered \ (Range(walk.called) \cap walk.steady)
                  /\ walk' = NoWalk /\ next[walk.at] = NULL
                     => walk.steady \subseteq Range(walk.called)
<1>1. Init => ChainInv /\ WalkInv
  BY ChainStarts DEF Init
<1>2. ChainInv /\ WalkInv /\ [Next]_vars => ChainInv' /\ WalkInv'
  BY ChainHolds
<1>3. ASSUME ChainInv, WalkInv, [Next]_vars PROVE [Told]_chainVars
  <2>1. CASE UNCHANGED chainVars
    BY <2>1
  <2>2. CASE \E b \in Block : notifier_chain_register(b) \/ notifier_chain_unregister(b)
    BY <1>3, <2>2, ChangesKeepTheWalk
  <2>3. CASE CallChain
    BY <2>3 DEF CallChain
  <2>4. CASE CallbackReturns
    BY <1>3, <2>4, WalkGoesOn
  <2> QED
    BY <1>3, <2>1, <2>2, <2>3, <2>4, ChainMoves
<1> QED
  BY <1>1, <1>2, <1>3, PTL DEF Spec, EventReachesAll

\* The list t is s with e in front.
Pushed(t, e, s) ==
    /\ Len(t) = Len(s) + 1 /\ t[1] = e
    /\ \A k \in 1 .. Len(s) : t[k + 1] = s[k]
    /\ \A k \in 1 .. Len(t) : k = 1 \/ (k - 1 \in 1 .. Len(s) /\ t[k] = s[k - 1])
    /\ Range(t) = Range(s) \cup {e}
    /\ IsInjective(s) /\ e \notin Range(s) => IsInjective(t)

\* Putting an entry in front of a list does that.
LEMMA InFront ==
    ASSUME NEW S, NEW s \in Seq(S), NEW e \in S
    PROVE  <<e>> \o s \in Seq(S) /\ Pushed(<<e>> \o s, e, s)
<1> DEFINE t == <<e>> \o s
<1>1. /\ t \in Seq(S) /\ Len(t) = Len(s) + 1 /\ t[1] = e /\ Len(s) \in Nat
      /\ DOMAIN s = 1 .. Len(s) /\ DOMAIN t = 1 .. Len(s) + 1
  OBVIOUS
<1> HIDE DEF t
<1>2. \A k \in 1 .. Len(t) : k = 1 \/ (k - 1 \in 1 .. Len(s) /\ t[k] = s[k - 1])
  <2> SUFFICES ASSUME NEW k \in 1 .. Len(t), k # 1
               PROVE  k - 1 \in 1 .. Len(s) /\ t[k] = s[k - 1]
    OBVIOUS
  <2>1. k - 1 \in 1 .. Len(s) /\ k \in 1 .. Len(s) + 1 /\ k > 1
    BY <1>1
  <2> QED
    BY <2>1, <1>1 DEF t
<1>3. \A k \in 1 .. Len(s) : t[k + 1] = s[k]
  <2> SUFFICES ASSUME NEW k \in 1 .. Len(s) PROVE t[k + 1] = s[k]
    OBVIOUS
  <2>1. k + 1 \in 1 .. Len(t) /\ k + 1 # 1 /\ (k + 1) - 1 = k
    BY <1>1
  <2> QED
    BY <2>1, <1>2
<1>4. Range(t) = Range(s) \cup {e}
  <2>1. \A x : x \in Range(t) => x \in Range(s) \cup {e}
    BY <1>1, <1>2 DEF Range
  <2>2. \A k \in 1 .. Len(s) : k + 1 \in 1 .. Len(s) + 1
    BY <1>1
  <2>3. 1 \in 1 .. Len(s) + 1
    BY <1>1
  <2>4. \A x : x \in Range(s) \cup {e} => x \in Range(t)
    BY <1>1, <1>3, <2>2, <2>3 DEF Range
  <2> QED
    BY <2>1, <2>4
<1>5. ASSUME IsInjective(s), e \notin Range(s) PROVE IsInjective(t)
  <2> SUFFICES ASSUME NEW k \in 1 .. Len(t), NEW l \in 1 .. Len(t), t[k] = t[l]
               PROVE  k = l
    BY <1>1 DEF IsInjective
  <2>1. \A i \in 1 .. Len(s) : s[i] # e
    BY <1>1, <1>5 DEF Range
  <2>2. \A i, j \in 1 .. Len(s) : s[i] = s[j] => i = j
    BY <1>1, <1>5 DEF IsInjective
  <2>3. CASE k = 1 \/ l = 1
    BY <2>1, <2>3, <1>1, <1>2
  <2>4. CASE k # 1 /\ l # 1
    <3>1. k - 1 = l - 1
      BY <2>2, <2>4, <1>2
    <3> QED
      BY <3>1
  <2> QED
    BY <2>3, <2>4
<1> QED
  BY <1>1, <1>2, <1>3, <1>4, <1>5 DEF Pushed, t

\* A list of different entries without one of them: the others stay in their order.
Dropped(t, e, s) ==
    /\ IsInjective(t) /\ Range(t) = Range(s) \ {e}
    /\ \A i, j \in DOMAIN t : i < j =>
         \E k, l \in DOMAIN s : k < l /\ t[i] = s[k] /\ t[j] = s[l]

Without(s, e) == Kept(s, { i \in DOMAIN s : s[i] # e })

\* Leaving out the places of an entry does that.
LEMMA AllBut ==
    ASSUME NEW S, NEW s \in Seq(S), IsInjective(s), NEW e
    PROVE  Without(s, e) \in Seq(S) /\ Dropped(Without(s, e), e, s)
<1> DEFINE t == Without(s, e)
           K == { i \in DOMAIN s : s[i] # e }
<1>1. K \in SUBSET DOMAIN s /\ \A i \in DOMAIN s : i \in K <=> s[i] # e
  OBVIOUS
<1>2. t = Kept(s, K)
  BY DEF Without
<1> HIDE DEF K, t
<1>3. /\ t \in Seq(S)
      /\ \E f \in [DOMAIN t -> K] :
           /\ \A k \in DOMAIN t : t[k] = s[f[k]]
           /\ \A k, l \in DOMAIN t : k < l => f[k] < f[l]
           /\ \A i \in K : \E k \in DOMAIN t : f[k] = i
  <2> DEFINE u == Kept(s, K)
  <2>1. /\ u \in Seq(S)
        /\ \E f \in [DOMAIN u -> K] :
             /\ \A k \in DOMAIN u : u[k] = s[f[k]]
             /\ \A k, l \in DOMAIN u : k < l => f[k] < f[l]
             /\ \A i \in K : \E k \in DOMAIN u : f[k] = i
    BY <1>1, KeptProperties, ZenonT(60)
  <2>2. t = u
    BY <1>2
  <2> HIDE DEF u
  <2>3. PICK f \in [DOMAIN u -> K] :
             /\ \A k \in DOMAIN u : u[k] = s[f[k]]
             /\ \A k, l \in DOMAIN u : k < l => f[k] < f[l]
             /\ \A i \in K : \E k \in DOMAIN u : f[k] = i
    BY <2>1
  <2>4. f \in [DOMAIN t -> K]
    BY <2>2
  <2>5. /\ \A k \in DOMAIN t : t[k] = s[f[k]]
        /\ \A k, l \in DOMAIN t : k < l => f[k] < f[l]
        /\ \A i \in K : \E k \in DOMAIN t : f[k] = i
    BY <2>2, <2>3
  <2> QED
    BY <2>1, <2>2, <2>4, <2>5
<1>4. PICK f \in [DOMAIN t -> K] :
           /\ \A k \in DOMAIN t : t[k] = s[f[k]]
           /\ \A k, l \in DOMAIN t : k < l => f[k] < f[l]
           /\ \A i \in K : \E k \in DOMAIN t : f[k] = i
  BY <1>3
<1>5. \A k \in DOMAIN t : f[k] \in K /\ f[k] \in DOMAIN s /\ t[k] = s[f[k]] /\ s[f[k]] # e
  BY <1>1, <1>4
<1>6. Range(t) = Range(s) \ {e}
  <2>1. \A x : x \in Range(t) => x \in Range(s) \ {e}
    BY <1>5, Zenon DEF Range
  <2>2. \A i \in DOMAIN s : s[i] # e => \E k \in DOMAIN t : t[k] = s[i]
    <3> SUFFICES ASSUME NEW i \in DOMAIN s, s[i] # e PROVE \E k \in DOMAIN t : t[k] = s[i]
      OBVIOUS
    <3>1. i \in K
      BY <1>1
    <3>2. PICK k \in DOMAIN t : f[k] = i
      BY <1>4, <3>1
    <3> QED
      BY <1>5, <3>2
  <2>3. \A x : x \in Range(s) \ {e} => x \in Range(t)
    BY <2>2 DEF Range
  <2> QED
    BY <2>1, <2>3
<1>7. \A i, j \in DOMAIN t : i < j =>
        \E k, l \in DOMAIN s : k < l /\ t[i] = s[k] /\ t[j] = s[l]
  <2> SUFFICES ASSUME NEW i \in DOMAIN t, NEW j \in DOMAIN t, i < j
               PROVE  \E k, l \in DOMAIN s : k < l /\ t[i] = s[k] /\ t[j] = s[l]
    OBVIOUS
  <2>1. f[i] < f[j]
    BY <1>4
  <2> QED
    BY <1>5, <2>1
<1>8. IsInjective(t)
  <2> SUFFICES ASSUME NEW k \in DOMAIN t, NEW l \in DOMAIN t, t[k] = t[l] PROVE k = l
    BY DEF IsInjective
  <2>1. f[k] = f[l]
    BY <1>5 DEF IsInjective
  <2>0. /\ DOMAIN t = 1 .. Len(t) /\ Len(t) \in Nat
        /\ DOMAIN s = 1 .. Len(s) /\ Len(s) \in Nat
    BY <1>3
  <2>2. k \in Nat /\ l \in Nat /\ f[k] \in Nat
    BY <2>0, <1>5
  <2>3. ~(k < l) /\ ~(l < k)
    BY <1>4, <2>1, <2>2
  <2> QED
    BY <2>2, <2>3
<1> QED
  BY <1>3, <1>6, <1>7, <1>8 DEF Dropped, t

\* What runs, a pass of load_all_modules, and how a run can end.
Where == [ do : {"prompt", "init", "fini", "event", "scan", "over"}, mod : Module \cup {NULL},
           for : {"user", "all", "exit"} ]
Pass == [files : SUBSET Module, tried : BOOLEAN, succeeded : BOOLEAN]
Verdict == {"none", "clean", "leak", "in use", "cannot remove", "put too far", "unknown module",
            "crashed"}

\* The loader's variables.  A module whose init or exit function runs is in the list, and a
\* verdict is the end.
LoaderTypes ==
    /\ modules \in Seq(Module) /\ IsInjective(modules)
    /\ use \in [Module -> Nat]
    /\ at \in Where /\ scan \in Pass
    /\ holds \subseteq Module \X Module
    /\ verdict \in Verdict
    /\ at.do \in {"init", "fini"} => at.mod \in Loaded
    /\ verdict # "none" => at.do = "over"

\* What unload_all_modules does when it takes up its next module.
LEMMA SweepCases ==
    ASSUME NEW for \in {"all", "exit"}, NEW list, Sweep(for, list)
    PROVE  \/ at' = Idle /\ verdict' = verdict /\ UNCHANGED procVars
           \/ /\ at' = [do |-> "over", mod |-> NULL, for |-> "exit"] /\ verdict' = verdict
              /\ list = << >> /\ for = "exit" /\ proc_cleanup
           \/ /\ at' = [do |-> "over", mod |-> NULL, for |-> "user"] /\ verdict' = "in use"
              /\ UNCHANGED procVars
           \/ /\ at' = [do |-> "fini", mod |-> Head(list), for |-> for] /\ verdict' = verdict
              /\ UNCHANGED procVars /\ list # << >> /\ use[Head(list)] = 0
BY DEF Sweep

\* Its first module is one of the list.
LEMMA FirstIsListed ==
    ASSUME NEW S, NEW list \in Seq(S), list # << >>
    PROVE  Head(list) \in Range(list) /\ Head(list) \in S /\ Head(list) = list[1]
    /\ 1 \in DOMAIN list
<1>1. Len(list) \in Nat /\ Len(list) # 0
  OBVIOUS
<1>2. 1 \in 1 .. Len(list) /\ DOMAIN list = 1 .. Len(list) /\ Head(list) = list[1]
  BY <1>1
<1> QED
  BY <1>2 DEF Range

\* The list holds modules.
LEMMA LoadedInModule ==
    ASSUME modules \in Seq(Module)
    PROVE  Loaded \subseteq Module
BY DEF Loaded, Range

\* load_mod puts the module in front, destroy_mod takes it out.
LEMMA LoadStep ==
    ASSUME LoaderTypes, NEW m \in Module, m \notin Loaded, load_mod(m)
    PROVE  /\ modules' \in Seq(Module) /\ IsInjective(modules') /\ Loaded' = Loaded \cup {m}
           /\ use' \in [Module -> Nat] /\ use'[m] = 0
           /\ \A o \in Module : o # m => use'[o] = use[o]
           /\ Len(modules') = Len(modules) + 1 /\ modules'[1] = m
           /\ \A k \in 1 .. Len(modules') :
                k = 1 \/ (k - 1 \in 1 .. Len(modules) /\ modules'[k] = modules[k - 1])
<1>1. modules \in Seq(Module) /\ IsInjective(modules) /\ use \in [Module -> Nat]
  BY DEF LoaderTypes
<1>2. modules' = <<m>> \o modules /\ use' = [use EXCEPT ![m] = 0]
  BY DEF load_mod
<1>3. m \notin Range(modules)
  BY DEF Loaded
<1>4. modules' \in Seq(Module) /\ Pushed(modules', m, modules)
  BY <1>1, <1>2, InFront
<1> QED
  BY <1>1, <1>2, <1>3, <1>4 DEF Loaded, Pushed

\* The others stay where they are, in their order.
LEMMA GoneStep ==
    ASSUME LoaderTypes, NEW m, Gone(m)
    PROVE  /\ modules' \in Seq(Module) /\ IsInjective(modules') /\ Loaded' = Loaded \ {m}
           /\ \A i, j \in DOMAIN modules' : i < j =>
                \E k, l \in DOMAIN modules : k < l /\ modules'[i] = modules[k]
                                                   /\ modules'[j] = modules[l]
<1>1. modules \in Seq(Module) /\ IsInjective(modules)
  BY DEF LoaderTypes
<1>2. modules' = Without(modules, m)
  BY DEF Gone, Without
<1>3. modules' \in Seq(Module) /\ Dropped(modules', m, modules)
  BY <1>1, <1>2, AllBut
<1> QED
  BY <1>3 DEF Loaded, Dropped

\* Code of a module leaves the loader's variables alone, or counts a reference, or is the end.
CodeKeeps ==
    /\ UNCHANGED <<modules, use, at, scan, commands, careful, verdict, holds>>
    /\ at.do \in {"init", "fini", "event"}

Gets ==
    \E m, o \in Module :
        /\ Runs(m) /\ o \in Loaded /\ o \in Needs[m] /\ <<m, o>> \notin holds
        /\ holds' = holds \cup {<<m, o>>} /\ use' = [use EXCEPT ![o] = @ + 1]
        /\ at.do \in {"init", "fini", "event"}
        /\ UNCHANGED <<modules, at, scan, careful, verdict, owes>>

Puts ==
    \E m, o \in Module :
        /\ o \in Loaded /\ <<m, o>> \in holds /\ use[o] # 0
        /\ holds' = holds \ {<<m, o>>} /\ use' = [use EXCEPT ![o] = @ - 1]
        /\ at.do \in {"init", "fini", "event"}
        /\ UNCHANGED <<modules, at, scan, careful, verdict, owes>>

Barfs ==
    /\ at.do \in {"init", "fini", "event"} /\ at' = [at EXCEPT !.do = "over"]
    /\ UNCHANGED <<modules, use, scan, careful, owes>> /\ holds' \subseteq holds
    /\ \/ /\ verdict' = "cannot remove" /\ holds' = holds
          /\ \E m \in Module : <<"file", m>> \in owes /\ CannotRemove(m)
       \/ /\ verdict' = "unknown module" /\ \E m, o \in Module : Runs(m) /\ o \in Needs[m] \ Loaded
       \/ /\ verdict' \in {"unknown module", "put too far"}
          /\ \E m, o \in Module : <<m, o>> \in holds /\ (o \notin Loaded \/ use[o] = 0)

\* Every step of module code is one of the four.
LEMMA CodeCases ==
    ASSUME ModuleCode
    PROVE  CodeKeeps \/ Gets \/ Puts \/ Barfs
<1>1. PICK m \in Module :
            \/ \E b \in Block : RegisterBlock(m, b) \/ UnregisterBlock(m, b)
            \/ CreateFile(m) \/ RemoveFile(m)
            \/ RegisterTable(m) \/ UnregisterTable(m)
            \/ kmem_cache_create(m) \/ kmem_cache_alloc(m)
            \/ kmem_cache_free(m) \/ kmem_cache_destroy(m)
            \/ \E o \in Module : try_module_get(m, o) \/ module_put(m, o)
  BY DEF ModuleCode
<1>2. InCode(m)
  BY <1>1 DEF RegisterBlock, UnregisterBlock, CreateFile, RemoveFile, RegisterTable,
              UnregisterTable, kmem_cache_create, kmem_cache_alloc, kmem_cache_free,
              kmem_cache_destroy, try_module_get, module_put
<1>3. Runs(m) /\ at.do \in {"init", "fini", "event"}
  BY <1>2 DEF InCode, Runs
<1>4. CASE \/ \E b \in Block : RegisterBlock(m, b) \/ UnregisterBlock(m, b)
           \/ CreateFile(m) \/ RegisterTable(m) \/ UnregisterTable(m)
           \/ kmem_cache_create(m) \/ kmem_cache_alloc(m)
           \/ kmem_cache_free(m) \/ kmem_cache_destroy(m)
  BY <1>3, <1>4 DEF RegisterBlock, UnregisterBlock, CreateFile, RegisterTable,
              UnregisterTable, kmem_cache_create, kmem_cache_alloc, kmem_cache_free,
              kmem_cache_destroy, loaderVars, CodeKeeps
<1>5. CASE RemoveFile(m)
  BY <1>3, <1>5 DEF RemoveFile, CodeKeeps, Barfs, procVars
<1>6. CASE \E o \in Module : try_module_get(m, o)
  <2>1. PICK o \in Module : try_module_get(m, o)
    BY <1>6
  <2>2. CASE o \in Loaded
    BY <1>3, <2>1, <2>2 DEF try_module_get, Gets
  <2>3. CASE o \notin Loaded
    BY <1>3, <2>1, <2>3 DEF try_module_get, Barfs
  <2> QED
    BY <2>2, <2>3
<1>7. CASE \E o \in Module : module_put(m, o)
  <2>1. PICK o \in Module : module_put(m, o)
    BY <1>7
  <2>2. CASE o \in Loaded /\ use[o] # 0
    BY <1>3, <2>1, <2>2 DEF module_put, Puts
  <2>3. CASE ~(o \in Loaded /\ use[o] # 0)
    BY <1>3, <2>1, <2>3 DEF module_put, Barfs
  <2> QED
    BY <2>2, <2>3
<1> QED
  BY <1>1, <1>4, <1>5, <1>6, <1>7

\* At the start nothing is loaded and nothing runs.
LEMMA LoaderStarts == ASSUME Given, Init PROVE LoaderTypes
<1>1. modules = << >> /\ IsInjective(<< >>)
  BY DEF Init, IsInjective
<1>2. /\ use = [m \in Module |-> 0] /\ at = Idle /\ scan = NoScan /\ holds = {} /\ verdict = "none"
  BY DEF Init
<1> QED
  BY <1>1, <1>2 DEF LoaderTypes, Where, Pass, Verdict, Idle, NoScan

\* What that leaves in at and verdict.
LEMMA SweepTypes ==
    ASSUME NEW for \in {"user", "all", "exit"}, NEW list, verdict = "none",
           list # << >> => Head(list) \in Module,
           \/ at' = Idle /\ verdict' = "none"
           \/ at' = [do |-> "over", mod |-> NULL, for |-> "exit"] /\ verdict' = "none"
           \/ at' = [do |-> "over", mod |-> NULL, for |-> "user"] /\ verdict' = "in use"
           \/ /\ at' = [do |-> "fini", mod |-> Head(list), for |-> for] /\ verdict' = "none"
              /\ list # << >>
    PROVE  /\ at' \in Where /\ verdict' \in Verdict /\ (verdict' # "none" => at'.do = "over")
           /\ at'.do \notin {"init", "scan", "event"}
           /\ at'.do = "fini" => at'.mod = Head(list) /\ list # << >>
<1>1. CASE at' = Idle /\ verdict' = "none"
  BY <1>1 DEF Where, Verdict, Idle
<1>2. CASE at' = [do |-> "over", mod |-> NULL, for |-> "exit"] /\ verdict' = "none"
  BY <1>2 DEF Where, Verdict
<1>3. CASE at' = [do |-> "over", mod |-> NULL, for |-> "user"] /\ verdict' = "in use"
  BY <1>3 DEF Where, Verdict
<1>4. CASE /\ at' = [do |-> "fini", mod |-> Head(list), for |-> for] /\ verdict' = "none"
           /\ list # << >>
  BY <1>4 DEF Where, Verdict
<1> QED
  BY <1>1, <1>2, <1>3, <1>4

\* The loader's variables keep their types, whatever the modules do.
LEMMA LoaderHolds ==
    ASSUME Given, LoaderTypes, [Next]_vars
    PROVE  LoaderTypes'
<1>0. /\ modules \in Seq(Module) /\ IsInjective(modules) /\ use \in [Module -> Nat]
      /\ at \in Where /\ scan \in Pass /\ holds \subseteq Module \X Module
      /\ verdict \in Verdict /\ Loaded \subseteq Module
      /\ at.do \in {"init", "fini"} => at.mod \in Loaded
      /\ verdict # "none" => at.do = "over"
  BY LoadedInModule DEF LoaderTypes
<1> DEFINE Same == modules' = modules /\ use' = use /\ holds' = holds
<1>S. ASSUME Same, at' \in Where, scan' \in Pass, verdict' \in Verdict,
             at'.do \in {"init", "fini"} => at'.mod \in Loaded,
             verdict' # "none" => at'.do = "over"
      PROVE  LoaderTypes'
  BY <1>0, <1>S DEF LoaderTypes, Loaded
<1> HIDE DEF Same
<1>1. CASE UNCHANGED vars
  BY <1>0, <1>1, <1>S DEF vars, loaderVars, Same
<1>2. ASSUME NEW m \in Module, insmod(m) PROVE LoaderTypes'
  <2>1. /\ at = Idle /\ m \notin Loaded /\ load_mod(m) /\ scan' = scan /\ verdict' = verdict
        /\ holds' = holds /\ at' = [do |-> "init", mod |-> m, for |-> "user"]
    BY <1>2 DEF insmod, Command
  <2>2. /\ modules' \in Seq(Module) /\ IsInjective(modules') /\ Loaded' = Loaded \cup {m}
        /\ use' \in [Module -> Nat]
    BY <2>1, LoadStep
  <2> QED
    BY <1>0, <2>1, <2>2 DEF LoaderTypes, Where, Idle
<1>3. ASSUME NEW m \in Module, rmmod(m) PROVE LoaderTypes'
  <2>1. /\ at = Idle /\ m \in Loaded /\ Same /\ scan' = scan /\ verdict' = verdict
        /\ at' = [do |-> "fini", mod |-> m, for |-> "user"]
    BY <1>3 DEF rmmod, Command, Same
  <2> QED
    BY <1>0, <1>S, <2>1 DEF Where, Idle
<1>4. CASE insmod_a
  <2>1. /\ at = Idle /\ Same /\ verdict' = verdict
        /\ at' = [do |-> "scan", mod |-> NULL, for |-> "all"]
        /\ scan' = [files |-> Module, tried |-> FALSE, succeeded |-> FALSE]
    BY <1>4 DEF insmod_a, Command, Same
  <2> QED
    BY <1>0, <1>S, <2>1 DEF Where, Idle, Pass
<1>5. ASSUME at = Idle, UNCHANGED <<modules, use, scan, holds>>, NEW for \in {"all", "exit"},
             Sweep(for, modules)
      PROVE  LoaderTypes'
  <2>1. Same /\ scan' = scan /\ verdict = "none"
    BY <1>0, <1>5 DEF Same, Idle
  <2>2. modules # << >> => Head(modules) \in Loaded /\ Head(modules) \in Module
    BY <1>0, FirstIsListed DEF Loaded
  <2>3. \/ at' = Idle /\ verdict' = "none"
        \/ at' = [do |-> "over", mod |-> NULL, for |-> "exit"] /\ verdict' = "none"
        \/ at' = [do |-> "over", mod |-> NULL, for |-> "user"] /\ verdict' = "in use"
        \/ /\ at' = [do |-> "fini", mod |-> Head(modules), for |-> for] /\ verdict' = "none"
           /\ modules # << >>
    BY <1>5, <2>1, SweepCases
  <2>4. /\ at' \in Where /\ verdict' \in Verdict /\ (verdict' # "none" => at'.do = "over")
        /\ at'.do \notin {"init", "scan", "event"}
        /\ at'.do = "fini" => at'.mod = Head(modules) /\ modules # << >>
    BY <2>1, <2>2, <2>3, SweepTypes
  <2> QED
    BY <1>0, <1>S, <2>1, <2>2, <2>4
<1>6. CASE rmmod_a
  BY <1>5, <1>6 DEF rmmod_a, Command
<1>7. CASE Exit
  BY <1>5, <1>7 DEF Exit
<1>8. CASE Event
  <2>1. /\ at = Idle /\ Same /\ scan' = scan
        /\ at' = IF BlockOf[walk'.at] \in Loaded
                 THEN [do |-> "event", mod |-> NULL, for |-> "user"]
                 ELSE [do |-> "over", mod |-> NULL, for |-> "user"]
        /\ verdict' = IF at'.do = "over" THEN "crashed" ELSE verdict
    BY <1>8 DEF Event, Command, Same
  <2> QED
    BY <1>0, <1>S, <2>1 DEF Where, Idle, Verdict
<1>9. CASE ModuleCode
  <2>1. CASE CodeKeeps
    BY <1>0, <1>S, <2>1 DEF CodeKeeps, Same
  <2>2. CASE Gets \/ Puts
    <3>1. PICK m \in Module, o \in Module :
            /\ UNCHANGED <<modules, at, scan, careful, verdict, owes>>
            /\ \/ holds' = holds \cup {<<m, o>>} /\ use' = [use EXCEPT ![o] = @ + 1]
               \/ /\ use[o] # 0
                  /\ holds' = holds \ {<<m, o>>} /\ use' = [use EXCEPT ![o] = @ - 1]
      BY <2>2 DEF Gets, Puts
    <3>2. use' \in [Module -> Nat] /\ holds' \subseteq Module \X Module
      BY <1>0, <3>1
    <3>3. modules' = modules /\ at' = at /\ scan' = scan /\ verdict' = verdict
      BY <3>1
    <3> QED
      BY <1>0, <3>2, <3>3 DEF LoaderTypes, Loaded
  <2>3. CASE Barfs
    <3>1. /\ at' = [at EXCEPT !.do = "over"] /\ modules' = modules /\ use' = use /\ scan' = scan
          /\ holds' \subseteq holds
          /\ verdict' \in {"cannot remove", "unknown module", "put too far"}
      BY <2>3 DEF Barfs
    <3>2. at' \in Where /\ at'.do = "over"
      BY <1>0, <3>1 DEF Where
    <3> QED
      BY <1>0, <3>1, <3>2 DEF LoaderTypes, Loaded, Verdict
  <2> QED
    BY <1>9, <2>1, <2>2, <2>3, CodeCases
<1>10. ASSUME NEW m \in Module, ReadDir(m) PROVE LoaderTypes'
  <2>1. at.do = "scan" /\ verdict' = verdict /\ holds' = holds
    BY <1>10 DEF ReadDir
  <2>2. scan' \in Pass
    BY <1>0, <1>10 DEF ReadDir, Pass
  <2>3. CASE m \in Loaded \/ ~dlopen(m)
    <3>1. Same /\ at' = at
      BY <1>10, <2>3 DEF ReadDir, Same
    <3> QED
      BY <1>0, <1>S, <2>1, <2>2, <3>1
  <2>4. CASE m \notin Loaded /\ dlopen(m)
    <3>1. load_mod(m) /\ at' = [at EXCEPT !.do = "init", !.mod = m]
      BY <1>10, <2>4 DEF ReadDir
    <3>2. /\ modules' \in Seq(Module) /\ IsInjective(modules') /\ Loaded' = Loaded \cup {m}
          /\ use' \in [Module -> Nat]
      BY <2>4, <3>1, LoadStep
    <3>3. at' \in Where /\ at'.do = "init" /\ at'.mod = m
      BY <1>0, <3>1 DEF Where
    <3> QED
      BY <1>0, <2>1, <2>2, <3>2, <3>3 DEF LoaderTypes
  <2> QED
    BY <2>3, <2>4
<1>11. CASE EndOfDir
  <2>1. at.do = "scan" /\ Same /\ verdict' = verdict /\ (at' = at \/ at' = Idle)
    BY <1>11 DEF EndOfDir, Same
  <2>2. scan' \in Pass
    <3>1. \/ scan' = [files |-> Module, tried |-> FALSE, succeeded |-> FALSE]
          \/ scan' = [files |-> {}, tried |-> FALSE, succeeded |-> FALSE]
      BY <1>11 DEF EndOfDir, NoScan
    <3>2. \A x \in SUBSET Module : [files |-> x, tried |-> FALSE, succeeded |-> FALSE] \in Pass
      BY DEF Pass
    <3>3. Module \in SUBSET Module /\ {} \in SUBSET Module
      OBVIOUS
    <3> QED
      BY <3>1, <3>2, <3>3
  <2>3. at' \in Where /\ at'.do \in {"scan", "prompt"}
    BY <1>0, <2>1 DEF Where, Idle
  <2> QED
    BY <1>0, <1>S, <2>1, <2>2, <2>3
<1>12. CASE InitSucceeds
  <2>1. at.do = "init" /\ Same /\ verdict' = verdict
    BY <1>12 DEF InitSucceeds, Same
  <2>2. scan' \in Pass
    BY <1>0, <1>12 DEF InitSucceeds, Pass
  <2>3. at' \in Where /\ at'.do \in {"scan", "prompt"}
    <3>1. at' = [at EXCEPT !.do = "scan", !.mod = NULL] \/ at' = Idle
      BY <1>12 DEF InitSucceeds
    <3>2. CASE at' = [at EXCEPT !.do = "scan", !.mod = NULL]
      BY <1>0, <3>2 DEF Where
    <3>3. CASE at' = Idle
      BY <3>3 DEF Where, Idle
    <3> QED
      BY <3>1, <3>2, <3>3
  <2> QED
    BY <1>0, <1>S, <2>1, <2>2, <2>3
<1>13. CASE InitFails
  <2>1. /\ at.do = "init" /\ Gone(at.mod) /\ at' = Idle /\ scan' = NoScan /\ use' = use
        /\ holds' = holds /\ verdict' = verdict
    BY <1>13 DEF InitFails
  <2>2. modules' \in Seq(Module) /\ IsInjective(modules')
    BY <2>1, GoneStep
  <2> QED
    BY <1>0, <2>1, <2>2 DEF LoaderTypes, Where, Pass, Idle, NoScan
<1>14. CASE FiniReturns
  <2>1. /\ at.do = "fini" /\ Gone(at.mod) /\ scan' = scan /\ use' = use /\ holds' = holds
        /\ verdict = "none"
    BY <1>0, <1>14 DEF FiniReturns
  <2>2. modules' \in Seq(Module) /\ IsInjective(modules')
    BY <2>1, GoneStep
  <2>3. modules' # << >> => Head(modules') \in Loaded' /\ Head(modules') \in Module
    BY <2>2, FirstIsListed DEF Loaded
  <2>4. \/ at' = Idle /\ verdict' = "none"
        \/ at' = [do |-> "over", mod |-> NULL, for |-> "exit"] /\ verdict' = "none"
        \/ at' = [do |-> "over", mod |-> NULL, for |-> "user"] /\ verdict' = "in use"
        \/ /\ at' = [do |-> "fini", mod |-> Head(modules'), for |-> at.for] /\ verdict' = "none"
           /\ modules' # << >>
    <3>1. CASE at.for = "user"
      BY <1>14, <2>1, <3>1 DEF FiniReturns
    <3>2. CASE at.for # "user"
      <4>1. at.for \in {"all", "exit"} /\ Sweep(at.for, modules')
        BY <1>0, <1>14, <3>2 DEF FiniReturns, Where
      <4> QED
        BY <2>1, <4>1, SweepCases
    <3> QED
      BY <3>1, <3>2
  <2>5. at.for \in {"user", "all", "exit"}
    BY <1>0 DEF Where
  <2>6. /\ at' \in Where /\ verdict' \in Verdict /\ (verdict' # "none" => at'.do = "over")
        /\ at'.do \notin {"init", "scan", "event"}
        /\ at'.do = "fini" => at'.mod = Head(modules') /\ modules' # << >>
    BY <2>1, <2>3, <2>4, <2>5, SweepTypes
  <2> QED
    BY <1>0, <2>1, <2>2, <2>3, <2>6 DEF LoaderTypes
<1>15. CASE check_allocations
  <2>1. /\ at.do = "over" /\ Same /\ at' = at /\ scan' = scan /\ verdict' \in {"leak", "clean"}
    BY <1>15 DEF check_allocations, Same
  <2> QED
    BY <1>0, <1>S, <2>1 DEF Verdict
<1>16. CASE EventGoesOn
  <2>1. /\ at.do = "event" /\ Same /\ scan' = scan
        /\ \/ (at' = Idle \/ at' = at) /\ verdict' = verdict
           \/ at' = [at EXCEPT !.do = "over"] /\ verdict' = "crashed"
    BY <1>16 DEF EventGoesOn, Same
  <2>2. at' \in Where /\ at'.do \notin {"init", "fini"} /\ verdict' \in Verdict
        /\ (verdict' # "none" => at'.do = "over")
    <3>1. CASE at' = Idle /\ verdict' = verdict
      BY <1>0, <2>1, <3>1 DEF Where, Idle
    <3>2. CASE at' = at /\ verdict' = verdict
      BY <1>0, <2>1, <3>2
    <3>3. CASE at' = [at EXCEPT !.do = "over"] /\ verdict' = "crashed"
      BY <1>0, <2>1, <3>3 DEF Where, Verdict
    <3> QED
      BY <2>1, <3>1, <3>2, <3>3
  <2> QED
    BY <1>0, <1>S, <2>1, <2>2
<1>17. CASE Loader
  BY <1>17, <1>10, <1>11, <1>12, <1>13, <1>14, <1>15, <1>16 DEF Loader
<1> QED
  BY <1>1, <1>2, <1>3, <1>4, <1>6, <1>7, <1>8, <1>9, <1>17 DEF Next

\* A pass that has loaded nothing yet has tried whatever it read and was not loaded.
ScanInv ==
    at.do = "scan" /\ ~scan.succeeded =>
        /\ \A m \in Module \ scan.files : m \in Loaded \/ ~dlopen(m)
        /\ scan.tried <=> \E m \in Module \ scan.files : m \notin Loaded

\* Only the pass itself, or the init function of what it loads, goes on with a pass.
LEMMA ScanMoves ==
    ASSUME LoaderTypes, [Next]_vars, at'.do = "scan" \/ at.do = "scan"
    PROVE  \/ insmod_a
           \/ \E m \in Module : ReadDir(m)
           \/ EndOfDir
           \/ InitSucceeds
           \/ UNCHANGED vars
<1>0. at \in Where
  BY DEF LoaderTypes
<1> SUFFICES ASSUME ~insmod_a, ~(\E m \in Module : ReadDir(m)), ~EndOfDir, ~InitSucceeds,
                    ~UNCHANGED vars
             PROVE  FALSE
  OBVIOUS
<1>1. ASSUME at = Idle, at' # at => at'.do # "scan" PROVE FALSE
  BY <1>1 DEF Idle
<1>2. ASSUME NEW m \in Module, insmod(m) \/ rmmod(m) PROVE FALSE
  BY <1>2 DEF insmod, rmmod, Command, Idle
<1>3. ASSUME NEW for \in {"all", "exit"}, NEW list, Sweep(for, list), at'.do = "scan"
      PROVE  FALSE
  <2>1. \/ at' = [do |-> "prompt", mod |-> NULL, for |-> "user"]
        \/ at' = [do |-> "over", mod |-> NULL, for |-> "exit"]
        \/ at' = [do |-> "over", mod |-> NULL, for |-> "user"]
        \/ at' = [do |-> "fini", mod |-> Head(list), for |-> for]
    BY <1>3, SweepCases DEF Idle
  <2> QED
    BY <1>3, <2>1
<1>4. ASSUME rmmod_a \/ Exit PROVE FALSE
  <2>1. at = Idle /\ (Sweep("all", modules) \/ Sweep("exit", modules))
    BY <1>4 DEF rmmod_a, Exit, Command
  <2>2. at.do # "scan"
    BY <1>0, <2>1 DEF Idle
  <2> QED
    BY <1>3, <2>1, <2>2
<1>5. ASSUME Event PROVE FALSE
  BY <1>5 DEF Event, Command, Idle
<1>6. ASSUME ModuleCode PROVE FALSE
  <2>1. CASE CodeKeeps
    BY <2>1 DEF CodeKeeps
  <2>2. CASE Gets \/ Puts
    BY <2>2 DEF Gets, Puts
  <2>3. CASE Barfs
    <3>1. at.do # "scan" /\ at' = [at EXCEPT !.do = "over"]
      BY <2>3 DEF Barfs
    <3> QED
      BY <1>0, <3>1 DEF Where
  <2> QED
    BY <1>6, <2>1, <2>2, <2>3, CodeCases
<1>7. ASSUME InitFails PROVE FALSE
  BY <1>7 DEF InitFails, Idle
<1>8. ASSUME FiniReturns PROVE FALSE
  <2>1. at.do = "fini"
    BY <1>0, <1>8 DEF FiniReturns
  <2>2. CASE at.for = "user"
    BY <1>8, <2>1, <2>2 DEF FiniReturns, Idle
  <2>3. CASE at.for # "user"
    <3>1. at.for \in {"all", "exit"} /\ Sweep(at.for, modules')
      BY <1>0, <1>8, <2>3 DEF FiniReturns, Where
    <3> QED
      BY <1>3, <2>1, <3>1
  <2> QED
    BY <2>2, <2>3
<1>9. ASSUME check_allocations PROVE FALSE
  BY <1>9 DEF check_allocations
<1>10. ASSUME EventGoesOn PROVE FALSE
  <2>1. at.do = "event" /\ (at' = Idle \/ at' = at \/ at' = [at EXCEPT !.do = "over"])
    BY <1>10 DEF EventGoesOn
  <2>2. CASE at' = Idle
    BY <2>1, <2>2 DEF Idle
  <2>3. CASE at' = at
    BY <2>1, <2>3
  <2>4. CASE at' = [at EXCEPT !.do = "over"]
    BY <1>0, <2>1, <2>4 DEF Where
  <2> QED
    BY <2>1, <2>2, <2>3, <2>4
<1> QED
  BY <1>2, <1>4, <1>5, <1>6, <1>7, <1>8, <1>9, <1>10 DEF Next, Loader

\* A pass keeps its books.
LEMMA ScanHolds ==
    ASSUME Given, LoaderTypes, ScanInv, [Next]_vars
    PROVE  ScanInv'
<1>0. at \in Where /\ scan \in Pass
  BY DEF LoaderTypes
<1> SUFFICES ASSUME at'.do = "scan", ~scan'.succeeded
             PROVE  /\ \A m \in Module \ scan'.files : m \in Loaded' \/ ~dlopen(m)'
                    /\ scan'.tried <=> \E m \in Module \ scan'.files : m \notin Loaded'
  BY DEF ScanInv
<1> DEFINE Same == modules' = modules /\ holds' = holds /\ owes' = owes
<1>1. ASSUME Same PROVE Loaded' = Loaded /\ \A m : dlopen(m)' <=> dlopen(m)
  BY <1>1 DEF Loaded, dlopen, Spent
<1> HIDE DEF Same
<1>2. CASE insmod_a
  <2>1. scan'.files = Module /\ scan'.tried = FALSE
    BY <1>2 DEF insmod_a
  <2> QED
    BY <2>1
<1>3. ASSUME NEW f \in Module, ReadDir(f)
      PROVE  /\ \A m \in Module \ scan'.files : m \in Loaded' \/ ~dlopen(m)'
             /\ scan'.tried <=> \E m \in Module \ scan'.files : m \notin Loaded'
  <2>1. at.do = "scan" /\ f \in scan.files /\ holds' = holds /\ owes' = owes
    BY <1>3 DEF ReadDir
  <2>2. scan'.files = scan.files \ {f} /\ scan'.succeeded = scan.succeeded
        /\ scan'.tried = (scan.tried \/ f \notin Loaded)
    BY <1>0, <1>3 DEF ReadDir, Pass
  <2>3. f \in Loaded \/ ~dlopen(f)
    <3> SUFFICES ASSUME f \notin Loaded, dlopen(f) PROVE FALSE
      OBVIOUS
    <3>1. at' = [at EXCEPT !.do = "init", !.mod = f]
      BY <1>3 DEF ReadDir
    <3> QED
      BY <1>0, <3>1 DEF Where
  <2>4. Same
    BY <1>3, <2>1, <2>3 DEF ReadDir, Same
  <2>5. /\ \A m \in Module \ scan.files : m \in Loaded \/ ~dlopen(m)
        /\ scan.tried <=> \E m \in Module \ scan.files : m \notin Loaded
    BY <2>1, <2>2 DEF ScanInv
  <2>6. \A m \in Module : m \in Module \ scan'.files <=> m \in Module \ scan.files \/ m = f
    BY <2>1, <2>2
  <2> QED
    BY <1>1, <2>2, <2>3, <2>4, <2>5, <2>6
<1>4. CASE EndOfDir
  <2>1. at.do = "scan" /\ scan.files = {}
    BY <1>4 DEF EndOfDir
  <2>2. CASE scan.succeeded
    <3>1. scan'.files = Module /\ scan'.tried = FALSE
      BY <1>4, <2>2 DEF EndOfDir
    <3> QED
      BY <3>1
  <2>3. CASE ~scan.succeeded
    BY <1>4, <2>3 DEF EndOfDir, Idle
  <2> QED
    BY <2>2, <2>3
<1>5. CASE InitSucceeds
  <2>1. CASE at.for = "all"
    <3>1. scan' = [scan EXCEPT !.succeeded = TRUE]
      BY <1>5, <2>1 DEF InitSucceeds
    <3> QED
      BY <1>0, <3>1 DEF Pass
  <2>2. CASE at.for # "all"
    BY <1>5, <2>2 DEF InitSucceeds, Idle
  <2> QED
    BY <2>1, <2>2
<1>6. CASE UNCHANGED vars
  <2>1. Same /\ at' = at /\ scan' = scan
    BY <1>6 DEF vars, loaderVars, Same
  <2> QED
    BY <1>1, <2>1 DEF ScanInv
<1> QED
  BY <1>2, <1>3, <1>4, <1>5, <1>6, ScanMoves

\* load_all_modules, which makes another pass while the last one loaded something, ends with
\* nothing left that dlopen would take, and its answer is right: for any modules that need
\* each other in any way and any order of the directory.
THEOREM LoadAllAlwaysComplete == Spec => LoadAllComplete
<1>0. Given
  BY Assumed
<1> USE <1>0
<1> DEFINE All == at.do = "scan" /\ at' = Idle
                  => /\ \A m \in Module \ Loaded : ~dlopen(m)
                     /\ scan.tried = (Loaded # Module)
<1>1. Init => LoaderTypes /\ ScanInv
  <2> SUFFICES ASSUME Init PROVE LoaderTypes /\ ScanInv
    OBVIOUS
  <2>1. at.do # "scan"
    BY DEF Init, Idle
  <2> QED
    BY <2>1, LoaderStarts DEF ScanInv
<1>2. LoaderTypes /\ ScanInv /\ [Next]_vars => LoaderTypes' /\ ScanInv'
  BY LoaderHolds, ScanHolds
<1>3. ASSUME LoaderTypes, ScanInv, [Next]_vars PROVE [All]_vars
  <2> SUFFICES ASSUME at.do = "scan", at' = Idle, ~UNCHANGED vars
               PROVE  /\ \A m \in Module \ Loaded : ~dlopen(m)
                      /\ scan.tried = (Loaded # Module)
    OBVIOUS
  <2>0. /\ at \in Where /\ scan \in Pass /\ Loaded \subseteq Module /\ at'.do = "prompt"
    BY <1>3, LoadedInModule DEF LoaderTypes, Idle
  <2>1. EndOfDir
    <3>1. ~insmod_a /\ ~InitSucceeds
      BY DEF insmod_a, Command, InitSucceeds, Idle
    <3>2. ASSUME NEW m \in Module, ReadDir(m) PROVE FALSE
      <4>1. at' = at \/ at' = [at EXCEPT !.do = "init", !.mod = m]
        BY <3>2 DEF ReadDir
      <4> QED
        BY <2>0, <4>1 DEF Where
    <3> QED
      BY <1>3, <3>1, <3>2, ScanMoves
  <2>2. scan.files = {} /\ ~scan.succeeded
    BY <2>0, <2>1 DEF EndOfDir
  <2>3. /\ \A m \in Module \ {} : m \in Loaded \/ ~dlopen(m)
        /\ scan.tried <=> \E m \in Module \ {} : m \notin Loaded
    BY <1>3, <2>2 DEF ScanInv
  <2>4. (\E m \in Module \ {} : m \notin Loaded) <=> Loaded # Module
    BY <2>0
  <2>5. scan.tried \in BOOLEAN
    BY <2>0 DEF Pass
  <2> QED
    BY <2>3, <2>4, <2>5
<1> QED
  BY <1>1, <1>2, <1>3, PTL DEF Spec, LoadAllComplete

\* The blocks in the chain are the ones the modules owe.
OwesBlocks == \A b \in Block : b \in Registered <=> <<b, BlockOf[b]>> \in owes

\* While a callback runs, its module is there; its block may have left the chain, but what
\* its next pointer leads to is in the chain, or is a block of the same module.
Strays ==
    at.do = "event" =>
        /\ walk # NoWalk /\ BlockOf[walk.at] \in Loaded
        /\ \E S \in SUBSET Block :
             /\ walk.at \in S \cup Registered
             /\ \A b \in S : /\ BlockOf[b] = BlockOf[walk.at]
                             /\ next[b] \in S \cup Registered \cup {NULL}

Crash == verdict = "crashed" => walk # NoWalk /\ <<walk.at, BlockOf[walk.at]>> \in owes

EventInv == OwesBlocks /\ Strays /\ Crash

\* A step that has nothing to do with the chain.
Elsewhere ==
    /\ UNCHANGED chainVars
    /\ at'.do = "event" => at.do = "event" /\ modules' = modules
    /\ \A b \in Block : <<b, BlockOf[b]>> \in owes' <=> <<b, BlockOf[b]>> \in owes
    /\ verdict' = "crashed" => verdict = "crashed"

\* Module code has to do with the chain only when it registers or unregisters a block.
LEMMA CodeElsewhere ==
    ASSUME Given, LoaderTypes, ModuleCode
    PROVE  \/ \E m \in Module, b \in Block : RegisterBlock(m, b) \/ UnregisterBlock(m, b)
           \/ Elsewhere
<1>1. PICK m \in Module :
            \/ \E b \in Block : RegisterBlock(m, b) \/ UnregisterBlock(m, b)
            \/ CreateFile(m) \/ RemoveFile(m)
            \/ RegisterTable(m) \/ UnregisterTable(m)
            \/ kmem_cache_create(m) \/ kmem_cache_alloc(m)
            \/ kmem_cache_free(m) \/ kmem_cache_destroy(m)
            \/ \E o \in Module : try_module_get(m, o) \/ module_put(m, o)
  BY DEF ModuleCode
<1>2. CASE \E b \in Block : RegisterBlock(m, b) \/ UnregisterBlock(m, b)
  BY <1>2
<1>3. ASSUME UNCHANGED chainVars, UNCHANGED <<modules, at, verdict>>,
             NEW t \in {"file", "table", "cache"},
             \/ owes' = owes
             \/ owes' = owes \cup {<<t, m>>}
             \/ owes' = owes \ {<<t, m>>}
      PROVE  Elsewhere
  <2>1. \A b \in Block : b # t
    BY DEF Given, ModuleAssumption
  <2> QED
    BY <1>3, <2>1 DEF Elsewhere
<1>4. CASE CreateFile(m) \/ RegisterTable(m) \/ UnregisterTable(m)
  BY <1>3, <1>4 DEF CreateFile, RegisterTable, UnregisterTable, loaderVars
<1>5. CASE \/ kmem_cache_create(m) \/ kmem_cache_alloc(m)
           \/ kmem_cache_free(m) \/ kmem_cache_destroy(m)
  BY <1>3, <1>5
  DEF kmem_cache_create, kmem_cache_alloc, kmem_cache_free, kmem_cache_destroy, loaderVars
<1>6. ASSUME UNCHANGED chainVars, UNCHANGED owes, at' = [at EXCEPT !.do = "over"],
             verdict' \in {"cannot remove", "put too far", "unknown module"}
      PROVE  Elsewhere
  <2>1. at'.do = "over"
    BY <1>6 DEF LoaderTypes, Where
  <2> QED
    BY <1>6, <2>1 DEF Elsewhere
<1>7. CASE RemoveFile(m)
  <2>1. CASE CannotRemove(m)
    BY <1>6, <1>7, <2>1 DEF RemoveFile
  <2>2. CASE ~CannotRemove(m)
    BY <1>3, <1>7, <2>2 DEF RemoveFile
  <2> QED
    BY <2>1, <2>2
<1>8. ASSUME NEW o \in Module, try_module_get(m, o) PROVE Elsewhere
  <2>1. CASE o \notin Loaded
    BY <1>6, <1>8, <2>1 DEF try_module_get
  <2>2. CASE o \in Loaded
    BY <1>3, <1>8, <2>2 DEF try_module_get
  <2> QED
    BY <2>1, <2>2
<1>9. ASSUME NEW o \in Module, module_put(m, o) PROVE Elsewhere
  <2>1. CASE o \notin Loaded \/ use[o] = 0
    BY <1>6, <1>9, <2>1 DEF module_put
  <2>2. CASE ~(o \notin Loaded \/ use[o] = 0)
    BY <1>3, <1>9, <2>2 DEF module_put
  <2> QED
    BY <2>1, <2>2
<1> QED
  BY <1>1, <1>2, <1>4, <1>5, <1>7, <1>8, <1>9

\* So have the other steps only when an event is told.
LEMMA StepsElsewhere ==
    ASSUME Given, LoaderTypes, [Next]_vars
    PROVE  \/ \E m \in Module, b \in Block : RegisterBlock(m, b) \/ UnregisterBlock(m, b)
           \/ Event \/ EventGoesOn
           \/ Elsewhere
<1>0. at \in Where /\ (verdict # "none" => at.do = "over")
  BY DEF LoaderTypes
<1>1. CASE UNCHANGED vars
  BY <1>1 DEF vars, loaderVars, Elsewhere
<1>2. ASSUME UNCHANGED chainVars, UNCHANGED owes, UNCHANGED verdict,
             at'.do # "event"
      PROVE  Elsewhere
  BY <1>2 DEF Elsewhere
<1>3. CASE \E m \in Module : insmod(m) \/ rmmod(m)
  <2>1. UNCHANGED chainVars /\ UNCHANGED owes /\ UNCHANGED verdict /\ at'.do # "event"
    BY <1>3 DEF insmod, rmmod
  <2> QED
    BY <1>2, <2>1
<1>4. CASE insmod_a
  <2>1. UNCHANGED chainVars /\ UNCHANGED owes /\ UNCHANGED verdict /\ at'.do # "event"
    BY <1>4 DEF insmod_a
  <2> QED
    BY <1>2, <2>1
<1>5. ASSUME NEW for \in {"all", "exit"}, NEW list, Sweep(for, list), UNCHANGED chainVars,
             UNCHANGED owes
      PROVE  Elsewhere
  <2>1. \/ at' = [do |-> "prompt", mod |-> NULL, for |-> "user"]
        \/ at' = [do |-> "over", mod |-> NULL, for |-> "exit"]
        \/ at' = [do |-> "over", mod |-> NULL, for |-> "user"]
        \/ at' = [do |-> "fini", mod |-> Head(list), for |-> for]
    BY <1>5, SweepCases DEF Idle
  <2>2. at'.do # "event"
    BY <2>1
  <2>3. verdict' = verdict \/ verdict' = "in use"
    BY <1>5, SweepCases
  <2> QED
    BY <1>5, <2>2, <2>3 DEF Elsewhere
<1>6. CASE rmmod_a \/ Exit
  BY <1>5, <1>6 DEF rmmod_a, Exit
<1>7. CASE ModuleCode
  BY <1>7, CodeElsewhere
<1>8. CASE \E m \in Module : ReadDir(m)
  <2>1. PICK m \in Module : ReadDir(m)
    BY <1>8
  <2>2. UNCHANGED chainVars /\ UNCHANGED owes /\ UNCHANGED verdict /\ at.do = "scan"
        /\ (at' = at \/ at' = [at EXCEPT !.do = "init", !.mod = m])
    BY <2>1 DEF ReadDir
  <2>3. at'.do # "event"
    BY <1>0, <2>2 DEF Where
  <2> QED
    BY <1>2, <2>2, <2>3
<1>9. CASE EndOfDir
  <2>1. UNCHANGED chainVars /\ UNCHANGED owes /\ UNCHANGED verdict /\ at.do = "scan"
        /\ (at' = at \/ at' = Idle)
    BY <1>9 DEF EndOfDir
  <2>2. at'.do # "event"
    BY <2>1 DEF Idle
  <2> QED
    BY <1>2, <2>1, <2>2
<1>10. CASE InitSucceeds
  <2>1. UNCHANGED chainVars /\ UNCHANGED owes /\ UNCHANGED verdict /\ at.do = "init"
        /\ (at' = [at EXCEPT !.do = "scan", !.mod = NULL] \/ at' = Idle)
    BY <1>10 DEF InitSucceeds
  <2>2. CASE at' = Idle
    BY <1>2, <2>1, <2>2 DEF Idle
  <2>3. CASE at' = [at EXCEPT !.do = "scan", !.mod = NULL]
    <3>1. at'.do # "event"
      BY <1>0, <2>3 DEF Where
    <3> QED
      BY <1>2, <2>1, <3>1
  <2> QED
    BY <2>1, <2>2, <2>3
<1>11. CASE InitFails
  BY <1>2, <1>11 DEF InitFails, Idle
<1>12. CASE FiniReturns
  <2>1. CASE at.for = "user"
    BY <1>2, <1>12, <2>1 DEF FiniReturns, Idle
  <2>2. CASE at.for # "user"
    <3>1. at.for \in {"all", "exit"} /\ Sweep(at.for, modules') /\ UNCHANGED chainVars
          /\ UNCHANGED owes
      BY <1>0, <1>12, <2>2 DEF FiniReturns, Where
    <3> QED
      BY <1>5, <3>1
  <2> QED
    BY <2>1, <2>2
<1>13. CASE check_allocations
  BY <1>13 DEF check_allocations, Elsewhere
<1> QED
  BY <1>1, <1>3, <1>4, <1>6, <1>7, <1>8, <1>9, <1>10, <1>11, <1>12, <1>13 DEF Next, Loader

\* At the start nothing is registered and nothing is owed.
LEMMA EventStarts ==
    ASSUME Given, Init
    PROVE  EventInv
<1>1. Registered = {} /\ owes = {} /\ at.do = "prompt" /\ verdict = "none"
  BY ChainStarts DEF Init, Idle
<1> QED
  BY <1>1 DEF EventInv, OwesBlocks, Strays, Crash

\* A module that unregisters its blocks leaves its running callback a way back.
LEMMA EventHolds ==
    ASSUME Given, ChainInv, WalkInv, LoaderTypes, EventInv, [Next]_vars
    PROVE  EventInv'
<1>0. /\ at \in Where /\ (verdict # "none" => at.do = "over")
      /\ OwesBlocks /\ Strays /\ Crash
      /\ next \in [Block -> Block \cup {NULL}] /\ NULL \notin Block
      /\ BlockOf \in [Block -> Module] /\ Registered \subseteq Block
  BY ChainFacts DEF LoaderTypes, EventInv, ChainInv, Given, BlockAssumption, ModuleAssumption
<1>1. ASSUME NEW b \in Registered PROVE next[b] \in Registered \cup {NULL}
  <2>1. PICK k \in 1 .. Len(Chain) : b = Chain[k]
    BY ChainFacts
  <2>2. next[b] = EntryAt(Chain, k + 1) /\ Len(Chain) \in Nat
    BY <2>1, ChainFacts
  <2>3. CASE k + 1 > Len(Chain)
    BY <2>2, <2>3 DEF EntryAt
  <2>4. CASE ~(k + 1 > Len(Chain))
    <3>1. k + 1 \in 1 .. Len(Chain)
      BY <2>2, <2>4
    <3> QED
      BY <2>2, <2>4, <3>1, ChainFacts DEF EntryAt
  <2> QED
    BY <2>3, <2>4
<1>2. ASSUME NEW m \in Module, NEW b \in Block, RegisterBlock(m, b) PROVE EventInv'
  <2>1. /\ notifier_chain_register(b) /\ BlockOf[b] = m /\ owes' = owes \cup {<<b, m>>}
        /\ at' = at /\ modules' = modules /\ verdict' = verdict /\ Runs(m)
    BY <1>2 DEF RegisterBlock, InCode, loaderVars
  <2>2. PICK i \in 1 .. Len(Chain) + 1 : PutInAt(i, b)
    BY <2>1, RegisterStep
  <2>3. Registered' = Registered \cup {b}
    BY <2>2 DEF PutInAt
  <2>4. OwesBlocks'
    <3> SUFFICES ASSUME NEW c \in Block
                 PROVE  c \in Registered' <=> <<c, BlockOf[c]>> \in owes'
      BY DEF OwesBlocks
    <3>1. c \in Registered <=> <<c, BlockOf[c]>> \in owes
      BY <1>0 DEF OwesBlocks
    <3> QED
      BY <2>1, <2>3, <3>1
  <2>5. Crash'
    <3>1. verdict' # "crashed"
      BY <1>0, <2>1 DEF Runs
    <3> QED
      BY <3>1 DEF Crash
  <2>6. ASSUME at'.do = "event"
        PROVE  /\ walk' # NoWalk /\ BlockOf[walk'.at] \in Loaded'
               /\ \E S \in SUBSET Block :
                     /\ walk'.at \in S \cup Registered'
                     /\ \A c \in S : /\ BlockOf[c] = BlockOf[walk'.at]
                                     /\ next'[c] \in S \cup Registered' \cup {NULL}
    <3>1. walk # NoWalk /\ BlockOf[walk.at] \in Loaded
      BY <1>0, <2>1, <2>6 DEF Strays
    <3>2. PICK S \in SUBSET Block :
             /\ walk.at \in S \cup Registered
             /\ \A c \in S : /\ BlockOf[c] = BlockOf[walk.at]
                             /\ next[c] \in S \cup Registered \cup {NULL}
      BY <1>0, <2>1, <2>6 DEF Strays
    <3>3. walk' # NoWalk /\ walk'.at = walk.at
      BY <2>1, <3>1, ChangesKeepTheWalk
    <3>4. ASSUME NEW c \in S PROVE next'[c] \in S \cup Registered' \cup {NULL}
      <4>1. CASE c = b
        <5>1. next'[c] = EntryAt(Chain, i)
          BY <2>2, <4>1 DEF PutInAt
        <5>2. EntryAt(Chain, i) \in Registered \cup {NULL}
          <6>1. CASE i > Len(Chain)
            BY <6>1 DEF EntryAt
          <6>2. CASE ~(i > Len(Chain))
            <7>1. i \in 1 .. Len(Chain)
              BY <6>2, ChainFacts
            <7> QED
              BY <6>2, <7>1, ChainFacts DEF EntryAt
          <6> QED
            BY <6>1, <6>2
        <5> QED
          BY <2>3, <5>1, <5>2
      <4>2. CASE c # b /\ i > 1 /\ c = Chain[i - 1]
        BY <2>2, <2>3, <4>2 DEF PutInAt
      <4>3. CASE c # b /\ ~(i > 1 /\ c = Chain[i - 1])
        <5>1. next'[c] = next[c]
          BY <2>2, <4>3 DEF PutInAt
        <5> QED
          BY <2>3, <3>2, <5>1
      <4> QED
        BY <4>1, <4>2, <4>3
    <3>5. Loaded' = Loaded
      BY <2>1 DEF Loaded
    <3> QED
      BY <2>3, <3>1, <3>2, <3>3, <3>4, <3>5
  <2> QED
    BY <2>4, <2>5, <2>6 DEF EventInv, Strays
<1>3. ASSUME NEW m \in Module, NEW b \in Block, UnregisterBlock(m, b) PROVE EventInv'
  <2>1. /\ notifier_chain_unregister(b) /\ BlockOf[b] = m /\ owes' = owes \ {<<b, m>>}
        /\ at' = at /\ modules' = modules /\ verdict' = verdict /\ Runs(m)
    BY <1>3 DEF UnregisterBlock, InCode, loaderVars
  <2>2. PICK i \in 1 .. Len(Chain) : TakenOutAt(i, b)
    BY <2>1, UnregisterStep
  <2>3. Registered' = Registered \ {b}
    BY <2>2 DEF TakenOutAt
  <2>4. OwesBlocks'
    <3> SUFFICES ASSUME NEW c \in Block
                 PROVE  c \in Registered' <=> <<c, BlockOf[c]>> \in owes'
      BY DEF OwesBlocks
    <3>1. c \in Registered <=> <<c, BlockOf[c]>> \in owes
      BY <1>0 DEF OwesBlocks
    <3> QED
      BY <2>1, <2>3, <3>1
  <2>5. Crash'
    <3>1. verdict' # "crashed"
      BY <1>0, <2>1 DEF Runs
    <3> QED
      BY <3>1 DEF Crash
  <2>6. ASSUME at'.do = "event"
        PROVE  /\ walk' # NoWalk /\ BlockOf[walk'.at] \in Loaded'
               /\ \E S \in SUBSET Block :
                     /\ walk'.at \in S \cup Registered'
                     /\ \A c \in S : /\ BlockOf[c] = BlockOf[walk'.at]
                                     /\ next'[c] \in S \cup Registered' \cup {NULL}
    <3>1. walk # NoWalk /\ BlockOf[walk.at] \in Loaded /\ at.do = "event"
      BY <1>0, <2>1, <2>6 DEF Strays
    <3>2. PICK S \in SUBSET Block :
             /\ walk.at \in S \cup Registered
             /\ \A c \in S : /\ BlockOf[c] = BlockOf[walk.at]
                             /\ next[c] \in S \cup Registered \cup {NULL}
      BY <1>0, <2>1, <2>6 DEF Strays
    <3>3. walk' # NoWalk /\ walk'.at = walk.at
      BY <2>1, <3>1, ChangesKeepTheWalk
    <3>4. BlockOf[b] = BlockOf[walk.at]
      BY <2>1, <3>1 DEF Runs
    <3> DEFINE T == S \cup {b}
    <3>5. next[b] \in Registered \cup {NULL}
      BY <1>1, <2>1 DEF notifier_chain_unregister
    <3>6. ASSUME NEW c \in T PROVE next'[c] \in T \cup Registered' \cup {NULL}
      <4>1. CASE i > 1 /\ c = Chain[i - 1]
        <5>1. next'[c] = next[b]
          BY <2>2, <4>1 DEF TakenOutAt
        <5> QED
          BY <2>3, <3>5, <5>1
      <4>2. CASE ~(i > 1 /\ c = Chain[i - 1])
        <5>1. c \in Block
          OBVIOUS
        <5>2. next'[c] = next[c]
          BY <2>2, <4>2, <5>1 DEF TakenOutAt
        <5>3. next[c] \in S \cup Registered \cup {NULL}
          BY <3>2, <3>5
        <5> QED
          BY <2>3, <5>2, <5>3
      <4> QED
        BY <4>1, <4>2
    <3>7. Loaded' = Loaded
      BY <2>1 DEF Loaded
    <3>8. T \in SUBSET Block /\ walk.at \in T \cup Registered'
          /\ \A c \in T : BlockOf[c] = BlockOf[walk.at]
      BY <2>3, <3>2, <3>4
    <3> HIDE DEF T
    <3> QED
      BY <3>1, <3>3, <3>6, <3>7, <3>8
  <2> QED
    BY <2>4, <2>5, <2>6 DEF EventInv, Strays
<1>4. CASE Event
  <2>1. /\ CallChain /\ at = Idle /\ owes' = owes /\ modules' = modules
        /\ at' = IF BlockOf[walk'.at] \in Loaded
                 THEN [do |-> "event", mod |-> NULL, for |-> "user"]
                 ELSE [do |-> "over", mod |-> NULL, for |-> "user"]
    BY <1>4 DEF Event, Command
  <2>2. walk' # NoWalk /\ walk'.at \in Registered
    BY <2>1, WalkBegins
  <2>3. Registered' = Registered /\ next' = next
    BY <2>1, ChainStays DEF CallChain
  <2>4. OwesBlocks'
    BY <1>0, <2>1, <2>3 DEF OwesBlocks
  <2>5. Crash'
    BY <1>0, <2>1, <2>2 DEF Crash, OwesBlocks
  <2>6. Strays'
    <3> SUFFICES ASSUME at'.do = "event"
                 PROVE  /\ walk' # NoWalk /\ BlockOf[walk'.at] \in Loaded'
                        /\ \E S \in SUBSET Block :
                             /\ walk'.at \in S \cup Registered'
                             /\ \A c \in S : /\ BlockOf[c] = BlockOf[walk'.at]
                                             /\ next'[c] \in S \cup Registered' \cup {NULL}
      BY DEF Strays
    <3>1. BlockOf[walk'.at] \in Loaded /\ Loaded' = Loaded
      BY <2>1 DEF Loaded
    <3>2. {} \in SUBSET Block /\ walk'.at \in {} \cup Registered'
      BY <2>2, <2>3
    <3> QED
      BY <2>2, <3>1, <3>2
  <2> QED
    BY <2>4, <2>5, <2>6 DEF EventInv
<1>5. CASE EventGoesOn
  <2>1. /\ CallbackReturns /\ at.do = "event" /\ owes' = owes /\ modules' = modules
        /\ IF walk' = NoWalk THEN at' = Idle /\ verdict' = verdict
           ELSE IF BlockOf[walk'.at] \in Loaded THEN at' = at /\ verdict' = verdict
                ELSE at' = [at EXCEPT !.do = "over"] /\ verdict' = "crashed"
    BY <1>5 DEF EventGoesOn
  <2>2. Registered' = Registered /\ next' = next /\ Loaded' = Loaded
    BY <2>1, ChainStays DEF CallbackReturns, Loaded
  <2>3. OwesBlocks' /\ verdict = "none"
    BY <1>0, <2>1, <2>2 DEF OwesBlocks
  <2>4. CASE walk' = NoWalk
    BY <2>1, <2>3, <2>4 DEF EventInv, Strays, Crash, Idle
  <2>5. CASE walk' # NoWalk
    <3>1. walk'.at = next[walk.at] /\ next[walk.at] # NULL
      BY <2>1, <2>5, WalkGoesOn
    <3>2. BlockOf[walk.at] \in Loaded
      BY <1>0, <2>1 DEF Strays
    <3>3. PICK S \in SUBSET Block :
             /\ walk.at \in S \cup Registered
             /\ \A c \in S : /\ BlockOf[c] = BlockOf[walk.at]
                             /\ next[c] \in S \cup Registered \cup {NULL}
      BY <1>0, <2>1 DEF Strays
    <3>4. walk'.at \in S \cup Registered
      BY <1>1, <3>1, <3>3
    <3>5. CASE BlockOf[walk'.at] \in Loaded
      <4>1. at' = at /\ verdict' = verdict
        BY <2>1, <2>5, <3>5
      <4>2. \E U \in SUBSET Block :
              /\ walk'.at \in U \cup Registered
              /\ \A c \in U : /\ BlockOf[c] = BlockOf[walk'.at]
                              /\ next[c] \in U \cup Registered \cup {NULL}
        <5>1. CASE walk'.at \in Registered
          <6>1. {} \in SUBSET Block /\ walk'.at \in {} \cup Registered
            BY <5>1
          <6> QED
            BY <6>1
        <5>2. CASE walk'.at \in S
          <6>1. BlockOf[walk'.at] = BlockOf[walk.at]
            BY <3>3, <5>2
          <6> QED
            BY <3>3, <5>2, <6>1
        <5> QED
          BY <3>4, <5>1, <5>2
      <4>3. Strays'
        BY <2>2, <2>5, <3>5, <4>2 DEF Strays
      <4> QED
        BY <2>3, <4>1, <4>3 DEF EventInv, Crash
    <3>6. CASE BlockOf[walk'.at] \notin Loaded
      <4>1. walk'.at \in Registered
        BY <3>2, <3>3, <3>4, <3>6
      <4>2. <<walk'.at, BlockOf[walk'.at]>> \in owes'
        BY <1>0, <2>1, <4>1 DEF OwesBlocks
      <4>3. at'.do = "over"
        BY <1>0, <2>1, <2>5, <3>6 DEF Where
      <4> QED
        BY <2>3, <2>5, <4>2, <4>3 DEF EventInv, Strays, Crash
    <3> QED
      BY <3>5, <3>6
  <2> QED
    BY <2>4, <2>5
<1>6. CASE Elsewhere
  <2>1. inetaddr_chain' = inetaddr_chain /\ next' = next /\ walk' = walk
    BY <1>6 DEF Elsewhere, chainVars
  <2>2. Registered' = Registered
    BY <2>1, ChainStays
  <2>3. OwesBlocks'
    BY <1>0, <1>6, <2>2 DEF OwesBlocks, Elsewhere
  <2>4. Strays'
    BY <1>0, <1>6, <2>1, <2>2 DEF Strays, Elsewhere, Loaded
  <2>5. Crash'
    <3> SUFFICES ASSUME verdict' = "crashed"
                 PROVE walk' # NoWalk /\ <<walk'.at, BlockOf[walk'.at]>> \in owes'
      BY DEF Crash
    <3>1. walk # NoWalk /\ <<walk.at, BlockOf[walk.at]>> \in owes
      BY <1>0, <1>6 DEF Crash, Elsewhere
    <3>2. walk.at \in Block
      BY <3>1 DEF ChainInv, Walk
    <3> QED
      BY <1>6, <2>1, <3>1, <3>2 DEF Elsewhere
  <2> QED
    BY <2>3, <2>4, <2>5 DEF EventInv
<1> QED
  BY <1>2, <1>3, <1>4, <1>5, <1>6, StepsElsewhere

\* Who holds a reference to m.
Holders(m, hs) == { o \in Module : <<o, m>> \in hs }

\* The books, if rmmod was used with care: what a module needs was loaded before it and is
\* still there, and the use counts are the numbers of references.
Core(ms, us, hs) ==
    /\ \A o \in Range(ms) : Needs[o] \subseteq Range(ms) /\ o \notin Needs[o]
    /\ \A i, j \in DOMAIN ms : i < j => ms[i] \notin Needs[ms[j]]
    /\ \A o, m \in Module : <<o, m>> \in hs => m \in Range(ms)
    /\ \A m \in Range(ms) : us[m] = Cardinality(Holders(m, hs))

\* A module that may go: nobody needs it, nobody holds it.
Free(m, ms, hs) ==
    /\ \A o \in Range(ms) : m \notin Needs[o]
    /\ \A o \in Module : <<o, m>> \notin hs

Books ==
    /\ Core(modules, use, holds)
    /\ at.do \in {"init", "fini"} => Free(at.mod, modules, holds)

BooksInv ==
    /\ careful \in BOOLEAN
    /\ careful => Books
    /\ verdict \in {"put too far", "unknown module"} => ~careful

\* References can be counted.
LEMMA HoldersFinite ==
    ASSUME Given, NEW m, NEW hs
    PROVE  IsFiniteSet(Holders(m, hs)) /\ Cardinality(Holders(m, hs)) \in Nat
<1>1. IsFiniteSet(Module) /\ Holders(m, hs) \subseteq Module
  BY DEF Given, ModuleAssumption, Holders
<1>2. IsFiniteSet(Holders(m, hs))
  BY <1>1, FS_Subset
<1> QED
  BY <1>2, FS_CardinalityType

\* The first module of the list may go if its use count says so.
LEMMA FirstMayGo ==
    ASSUME Given, NEW ms \in Seq(Module), NEW us, NEW hs, Core(ms, us, hs), ms # << >>,
           us[Head(ms)] = 0
    PROVE  Free(Head(ms), ms, hs)
<1> DEFINE h == Head(ms)
<1>1. h \in Range(ms) /\ h = ms[1] /\ 1 \in DOMAIN ms /\ DOMAIN ms = 1 .. Len(ms) /\ Len(ms) \in Nat
  BY FirstIsListed
<1>2. Cardinality(Holders(h, hs)) = 0
  BY <1>1 DEF Core
<1>3. Holders(h, hs) = {}
  BY <1>2, HoldersFinite, FS_EmptySet
<1>4. ASSUME NEW o \in Range(ms) PROVE h \notin Needs[o]
  <2>1. PICK j \in DOMAIN ms : o = ms[j]
    BY DEF Range
  <2>2. CASE j = 1
    BY <1>1, <2>1, <2>2 DEF Core
  <2>3. CASE j # 1
    <3>1. 1 < j
      BY <1>1, <2>1, <2>3
    <3> QED
      BY <1>1, <2>1, <3>1 DEF Core
  <2> QED
    BY <2>2, <2>3
<1> QED
  BY <1>3, <1>4 DEF Free, Holders

\* The books after load_mod...
LEMMA BooksLoad ==
    ASSUME Given, LoaderTypes, Core(modules, use, holds), NEW m \in Module, m \notin Loaded,
           dlopen(m), load_mod(m)
    PROVE  Core(modules', use', holds) /\ Free(m, modules', holds)
<1>1. /\ modules' \in Seq(Module) /\ Loaded' = Loaded \cup {m}
      /\ use' \in [Module -> Nat] /\ use'[m] = 0
      /\ \A o \in Module : o # m => use'[o] = use[o]
      /\ Len(modules') = Len(modules) + 1 /\ modules'[1] = m
      /\ \A k \in 1 .. Len(modules') :
           k = 1 \/ (k - 1 \in 1 .. Len(modules) /\ modules'[k] = modules[k - 1])
  BY LoadStep
<1>2. Needs[m] \subseteq Loaded /\ m \notin Needs[m]
  BY DEF dlopen
<1>3. /\ \A o \in Loaded : Needs[o] \subseteq Loaded /\ o \notin Needs[o]
      /\ \A i, j \in DOMAIN modules : i < j => modules[i] \notin Needs[modules[j]]
      /\ \A o, p \in Module : <<o, p>> \in holds => p \in Loaded
      /\ \A p \in Loaded : use[p] = Cardinality(Holders(p, holds))
  BY DEF Core, Loaded
<1>4. Range(modules') = Loaded' /\ DOMAIN modules' = 1 .. Len(modules')
      /\ modules \in Seq(Module) /\ DOMAIN modules = 1 .. Len(modules) /\ Len(modules) \in Nat
      /\ Loaded \subseteq Module
  BY <1>1, LoadedInModule DEF Loaded, LoaderTypes
<1>5. Holders(m, holds) = {} /\ Cardinality({}) = 0
  BY <1>3, FS_EmptySet DEF Holders
<1>6. \A p \in Loaded' : use'[p] = Cardinality(Holders(p, holds))
  <2> SUFFICES ASSUME NEW p \in Loaded' PROVE use'[p] = Cardinality(Holders(p, holds))
    OBVIOUS
  <2>1. CASE p = m
    BY <1>1, <1>5, <2>1
  <2>2. CASE p # m
    BY <1>1, <1>3, <1>4, <2>2
  <2> QED
    BY <2>1, <2>2
<1>7. ASSUME NEW i \in DOMAIN modules', NEW j \in DOMAIN modules', i < j
      PROVE  modules'[i] \notin Needs[modules'[j]]
  <2>1. j # 1 /\ j - 1 \in DOMAIN modules /\ modules'[j] = modules[j - 1]
    <3>1. j \in 1 .. Len(modules') /\ j # 1
      BY <1>1, <1>4, <1>7
    <3> QED
      BY <1>1, <1>4, <3>1
  <2>2. modules[j - 1] \in Loaded
    BY <2>1 DEF Loaded, Range
  <2>3. CASE i = 1
    BY <1>1, <1>3, <2>1, <2>2, <2>3
  <2>4. CASE i # 1
    <3>1. i - 1 \in DOMAIN modules /\ modules'[i] = modules[i - 1]
      BY <1>1, <1>4, <2>4
    <3>2. i - 1 < j - 1
      BY <1>4, <1>7
    <3> QED
      BY <1>3, <2>1, <3>1, <3>2
  <2> QED
    BY <2>3, <2>4
<1>8. \A o \in Loaded' : Needs[o] \subseteq Loaded' /\ o \notin Needs[o] /\ m \notin Needs[o]
  BY <1>1, <1>2, <1>3
<1>9. \A o, p \in Module : <<o, p>> \in holds => p \in Loaded'
  BY <1>1, <1>3
<1>10. \A o \in Module : <<o, m>> \notin holds
  BY <1>3
<1> QED
  BY <1>4, <1>6, <1>7, <1>8, <1>9, <1>10 DEF Core, Free

\* ... and after destroy_mod.
LEMMA BooksGone ==
    ASSUME Given, LoaderTypes, Core(modules, use, holds), NEW m, Free(m, modules, holds), Gone(m)
    PROVE  Core(modules', use, holds)
<1>1. /\ modules' \in Seq(Module) /\ Loaded' = Loaded \ {m}
      /\ \A i, j \in DOMAIN modules' : i < j =>
           \E k, l \in DOMAIN modules : k < l /\ modules'[i] = modules[k]
                                              /\ modules'[j] = modules[l]
  BY GoneStep
<1>2. Range(modules') = Range(modules) \ {m}
  BY <1>1 DEF Loaded
<1>3. \A i, j \in DOMAIN modules' : i < j => modules'[i] \notin Needs[modules'[j]]
  BY <1>1 DEF Core
<1>4. \A o \in Range(modules') : Needs[o] \subseteq Range(modules') /\ o \notin Needs[o]
  BY <1>2 DEF Core, Free
<1>5. \A o, p \in Module : <<o, p>> \in holds => p \in Range(modules')
  BY <1>2 DEF Core, Free
<1>6. \A p \in Range(modules') : use[p] = Cardinality(Holders(p, holds))
  BY <1>2 DEF Core
<1> QED
  BY <1>3, <1>4, <1>5, <1>6 DEF Core

\* A module takes or returns a reference.
LEMMA BooksGet ==
    ASSUME Given, LoaderTypes, Core(modules, use, holds), NEW m \in Module, NEW o \in Loaded,
           <<m, o>> \notin holds, NEW us, us = [use EXCEPT ![o] = @ + 1],
           NEW hs, hs = holds \cup {<<m, o>>}
    PROVE  Core(modules, us, hs)
<1>1. use \in [Module -> Nat] /\ o \in Module /\ Loaded \subseteq Module
  BY LoadedInModule DEF LoaderTypes
<1>2. Holders(o, hs) = Holders(o, holds) \cup {m} /\ m \notin Holders(o, holds)
  BY DEF Holders
<1>3. Cardinality(Holders(o, hs)) = Cardinality(Holders(o, holds)) + 1
  BY <1>2, HoldersFinite, FS_AddElement
<1>4. ASSUME NEW p \in Loaded PROVE us[p] = Cardinality(Holders(p, hs))
  <2>1. use[p] = Cardinality(Holders(p, holds)) /\ p \in Module
    BY <1>1 DEF Core, Loaded
  <2>2. CASE p = o
    BY <1>1, <1>3, <2>1, <2>2
  <2>3. CASE p # o
    <3>1. Holders(p, hs) = Holders(p, holds)
      BY <2>3 DEF Holders
    <3>2. us[p] = use[p]
      BY <1>1, <2>1, <2>3
    <3> QED
      BY <2>1, <3>1, <3>2
  <2> QED
    BY <2>2, <2>3
<1>5. \A q, p \in Module : <<q, p>> \in hs => p \in Loaded
  BY DEF Core, Loaded
<1> QED
  BY <1>4, <1>5 DEF Core, Loaded

\* A reference is put back.
LEMMA BooksPut ==
    ASSUME Given, LoaderTypes, Core(modules, use, holds), NEW m \in Module, NEW o \in Loaded,
           <<m, o>> \in holds, NEW us, us = [use EXCEPT ![o] = @ - 1],
           NEW hs, hs = holds \ {<<m, o>>}
    PROVE  Core(modules, us, hs)
<1>1. use \in [Module -> Nat] /\ o \in Module /\ Loaded \subseteq Module
  BY LoadedInModule DEF LoaderTypes
<1>2. Holders(o, hs) = Holders(o, holds) \ {m} /\ m \in Holders(o, holds)
  BY DEF Holders
<1>3. Cardinality(Holders(o, hs)) = Cardinality(Holders(o, holds)) - 1
  BY <1>2, HoldersFinite, FS_RemoveElement
<1>4. ASSUME NEW p \in Loaded PROVE us[p] = Cardinality(Holders(p, hs))
  <2>1. use[p] = Cardinality(Holders(p, holds)) /\ p \in Module
    BY <1>1 DEF Core, Loaded
  <2>2. CASE p = o
    BY <1>1, <1>3, <2>1, <2>2
  <2>3. CASE p # o
    <3>1. Holders(p, hs) = Holders(p, holds)
      BY <2>3 DEF Holders
    <3>2. us[p] = use[p]
      BY <1>1, <2>1, <2>3
    <3> QED
      BY <2>1, <3>1, <3>2
  <2> QED
    BY <2>2, <2>3
<1>5. \A q, p \in Module : <<q, p>> \in hs => p \in Loaded
  BY DEF Core, Loaded
<1> QED
  BY <1>4, <1>5 DEF Core, Loaded

\* At the start there is nothing to count.
LEMMA BooksStart == ASSUME Given, Init PROVE BooksInv
<1>1. /\ modules = << >> /\ use = [m \in Module |-> 0] /\ holds = {} /\ careful = TRUE
      /\ verdict = "none" /\ at.do = "prompt"
  BY DEF Init, Idle
<1>2. Range(<< >>) = {}
  BY DEF Range
<1>3. Core(modules, use, holds)
  BY <1>1, <1>2 DEF Core
<1> QED
  BY <1>1, <1>3 DEF BooksInv, Books

\* What runs is loaded.
LEMMA RunsLoaded ==
    ASSUME LoaderTypes, EventInv, NEW m, Runs(m)
    PROVE  m \in Loaded
BY DEF LoaderTypes, EventInv, Strays, Runs

\* The books are kept by everything but a careless rmmod.
LEMMA BooksHold ==
    ASSUME Given, LoaderTypes, EventInv, BooksInv, [Next]_vars
    PROVE  BooksInv'
<1>0. /\ at \in Where /\ (verdict # "none" => at.do = "over") /\ careful \in BOOLEAN
      /\ modules \in Seq(Module) /\ Loaded \subseteq Module
      /\ at.do \in {"init", "fini"} => at.mod \in Loaded
      /\ careful => Core(modules, use, holds)
      /\ careful /\ at.do \in {"init", "fini"} => Free(at.mod, modules, holds)
      /\ verdict \in {"put too far", "unknown module"} => ~careful
  BY LoadedInModule DEF LoaderTypes, BooksInv, Books
<1> DEFINE Same == modules' = modules /\ use' = use /\ holds' = holds /\ careful' = careful
<1>S. ASSUME Same, verdict' = verdict \/ verdict' \notin {"put too far", "unknown module"},
             at'.do \notin {"init", "fini"} \/ at' = at
      PROVE  BooksInv'
  BY <1>0, <1>S DEF BooksInv, Books
<1>F. ASSUME careful' = careful, verdict' = verdict \/ verdict' \notin {"put too far",
             "unknown module"},
             careful => Core(modules', use', holds'),
             careful /\ at'.do \in {"init", "fini"} => Free(at'.mod, modules', holds')
      PROVE  BooksInv'
  BY <1>0, <1>F DEF BooksInv, Books
<1> HIDE DEF Same
<1>1. CASE UNCHANGED vars
  BY <1>1, <1>S DEF vars, loaderVars, Same
<1>2. ASSUME NEW m \in Module, insmod(m) PROVE BooksInv'
  <2>1. /\ m \notin Loaded /\ dlopen(m) /\ load_mod(m) /\ holds' = holds /\ careful' = careful
        /\ verdict' = verdict /\ at'.mod = m
    BY <1>2 DEF insmod
  <2>2. careful => Core(modules', use', holds) /\ Free(m, modules', holds)
    BY <1>0, <2>1, BooksLoad
  <2> QED
    BY <1>F, <2>1, <2>2
<1>3. ASSUME NEW m \in Module, rmmod(m) PROVE BooksInv'
  <2>1. /\ modules' = modules /\ use' = use /\ holds' = holds /\ verdict' = verdict /\ at'.mod = m
        /\ careful' = (careful /\ \A o \in Module : /\ o \in Loaded => m \notin Needs[o]
                                                    /\ <<o, m>> \notin holds)
        /\ at = Idle
    BY <1>3 DEF rmmod, Command
  <2>2. careful' => Free(m, modules, holds) /\ careful
    BY <1>0, <2>1 DEF Free, Loaded
  <2>3. careful' \in BOOLEAN /\ verdict' = "none"
    BY <1>0, <2>1 DEF Idle
  <2> QED
    BY <1>0, <2>1, <2>2, <2>3 DEF BooksInv, Books
<1>4. CASE insmod_a
  BY <1>4, <1>S DEF insmod_a, Same
<1>5. ASSUME NEW for \in {"all", "exit"}, Sweep(for, modules'), modules' \in Seq(Module),
             use' = use, holds' = holds, careful' = careful,
             careful => Core(modules', use', holds')
      PROVE  BooksInv'
  <2>1. \/ at' = [do |-> "prompt", mod |-> NULL, for |-> "user"]
        \/ at' = [do |-> "over", mod |-> NULL, for |-> "exit"]
        \/ at' = [do |-> "over", mod |-> NULL, for |-> "user"]
        \/ /\ at' = [do |-> "fini", mod |-> Head(modules'), for |-> for]
           /\ modules' # << >> /\ use[Head(modules')] = 0
    BY <1>5, SweepCases DEF Idle
  <2>2. at'.do \in {"init", "fini"}
        => at'.mod = Head(modules') /\ modules' # << >> /\ use[Head(modules')] = 0
    BY <2>1
  <2>3. verdict' = verdict \/ verdict' = "in use"
    BY <1>5, SweepCases
  <2>4. careful /\ at'.do \in {"init", "fini"} => Free(at'.mod, modules', holds')
    BY <1>5, <2>2, FirstMayGo
  <2> QED
    BY <1>5, <1>F, <2>3, <2>4
<1>6. CASE rmmod_a \/ Exit
  <2>1. /\ modules' = modules /\ use' = use /\ holds' = holds /\ careful' = careful
        /\ Sweep("all", modules) \/ Sweep("exit", modules)
    BY <1>6 DEF rmmod_a, Exit
  <2> QED
    BY <1>0, <1>5, <2>1
<1>7. CASE Event
  <2>1. /\ Same /\ (verdict' = verdict \/ verdict' = "crashed")
        /\ \/ at' = [do |-> "event", mod |-> NULL, for |-> "user"]
           \/ at' = [do |-> "over", mod |-> NULL, for |-> "user"]
    BY <1>7 DEF Event, Same
  <2>2. at'.do \notin {"init", "fini"}
    BY <2>1
  <2> QED
    BY <1>S, <2>1, <2>2
<1>8. CASE ModuleCode
  <2>1. CASE CodeKeeps
    BY <1>S, <2>1 DEF CodeKeeps, Same
  <2>2. CASE Gets
    <3>1. PICK m \in Module, o \in Module :
            /\ Runs(m) /\ o \in Loaded /\ UNCHANGED <<modules, at, scan, careful, verdict, owes>>
            /\ o \in Needs[m] /\ <<m, o>> \notin holds
            /\ holds' = holds \cup {<<m, o>>} /\ use' = [use EXCEPT ![o] = @ + 1]
      BY <2>2 DEF Gets
    <3>2. m \in Loaded
      BY <3>1, RunsLoaded
    <3>3. careful => Core(modules, use', holds')
      BY <1>0, <3>1, BooksGet
    <3>4. ASSUME careful, at.do \in {"init", "fini"} PROVE Free(at.mod, modules, holds')
      <4>1. Free(at.mod, modules, holds)
        BY <1>0, <3>4
      <4>2. at.mod # o
        BY <3>1, <3>2, <4>1 DEF Free, Loaded
      <4> QED
        BY <3>1, <4>1, <4>2 DEF Free
    <3> QED
      BY <1>F, <3>1, <3>3, <3>4
  <2>3. CASE Puts
    <3>1. PICK m \in Module, o \in Module :
            /\ o \in Loaded /\ UNCHANGED <<modules, at, scan, careful, verdict, owes>>
            /\ <<m, o>> \in holds
            /\ holds' = holds \ {<<m, o>>} /\ use' = [use EXCEPT ![o] = @ - 1]
      BY <2>3 DEF Puts
    <3>3. careful => Core(modules, use', holds')
      BY <1>0, <3>1, BooksPut
    <3>4. ASSUME careful, at.do \in {"init", "fini"} PROVE Free(at.mod, modules, holds')
      BY <1>0, <3>1, <3>4 DEF Free
    <3> QED
      BY <1>F, <3>1, <3>3, <3>4
  <2>4. CASE Barfs
    <3>1. at'.do = "over" /\ modules' = modules /\ use' = use /\ careful' = careful
      BY <1>0, <2>4 DEF Barfs, Where
    <3>2. CASE verdict' = "cannot remove" /\ holds' = holds
      BY <1>S, <3>1, <3>2 DEF Same
    <3>3. ASSUME NEW m \in Module, NEW o \in Module, Runs(m), o \in Needs[m] \ Loaded PROVE ~careful
      <4>1. m \in Loaded
        BY <3>3, RunsLoaded
      <4> QED
        BY <1>0, <3>3, <4>1 DEF Core, Loaded
    <3>4. ASSUME NEW m \in Module, NEW o \in Module, <<m, o>> \in holds,
                 o \notin Loaded \/ use[o] = 0
          PROVE  ~careful
      <4> SUFFICES ASSUME careful PROVE FALSE
        OBVIOUS
      <4>1. o \in Loaded /\ use[o] = Cardinality(Holders(o, holds))
        BY <1>0, <3>4 DEF Core, Loaded
      <4>2. m \in Holders(o, holds) /\ Cardinality(Holders(o, holds)) = 0
        BY <3>4, <4>1 DEF Holders
      <4> QED
        BY <4>2, HoldersFinite, FS_EmptySet
    <3>5. CASE ~careful
      BY <1>0, <3>1, <3>5 DEF BooksInv
    <3> QED
      BY <2>4, <3>2, <3>3, <3>4, <3>5 DEF Barfs
  <2> QED
    BY <1>8, <2>1, <2>2, <2>3, <2>4, CodeCases
<1>9. ASSUME NEW m \in Module, ReadDir(m) PROVE BooksInv'
  <2>1. verdict' = verdict /\ holds' = holds /\ careful' = careful
    BY <1>9 DEF ReadDir
  <2>2. CASE m \in Loaded \/ ~dlopen(m)
    <3>1. Same /\ at' = at
      BY <1>9, <2>1, <2>2 DEF ReadDir, Same
    <3> QED
      BY <1>S, <2>1, <3>1
  <2>3. CASE m \notin Loaded /\ dlopen(m)
    <3>1. load_mod(m) /\ at' = [at EXCEPT !.do = "init", !.mod = m]
      BY <1>9, <2>3 DEF ReadDir
    <3>2. at'.mod = m
      BY <1>0, <3>1 DEF Where
    <3>3. careful => Core(modules', use', holds) /\ Free(m, modules', holds)
      BY <1>0, <2>3, <3>1, BooksLoad
    <3> QED
      BY <1>F, <2>1, <3>2, <3>3
  <2> QED
    BY <2>2, <2>3
<1>10. CASE EndOfDir
  <2>1. /\ Same /\ verdict' = verdict /\ (at' = at \/ at' = Idle)
    BY <1>10 DEF EndOfDir, Same
  <2> QED
    BY <1>S, <2>1 DEF Idle
<1>11. CASE InitSucceeds
  <2>1. Same /\ verdict' = verdict
        /\ (at' = [at EXCEPT !.do = "scan", !.mod = NULL] \/ at' = Idle)
    BY <1>11 DEF InitSucceeds, Same
  <2>2. CASE at' = Idle
    BY <1>S, <2>1, <2>2 DEF Idle
  <2>3. CASE at' = [at EXCEPT !.do = "scan", !.mod = NULL]
    <3>1. at'.do = "scan"
      BY <1>0, <2>3 DEF Where
    <3> QED
      BY <1>S, <2>1, <3>1
  <2> QED
    BY <2>1, <2>2, <2>3
<1>12. CASE InitFails
  <2>1. /\ at.do = "init" /\ Gone(at.mod) /\ at' = Idle /\ use' = use /\ holds' = holds
        /\ careful' = careful /\ verdict' = verdict
    BY <1>12 DEF InitFails
  <2>2. careful => Core(modules', use, holds)
    BY <1>0, <2>1, BooksGone
  <2>3. at'.do \notin {"init", "fini"}
    BY <2>1 DEF Idle
  <2> QED
    BY <1>F, <2>1, <2>2, <2>3
<1>13. CASE FiniReturns
  <2>1. /\ at.do = "fini" /\ Gone(at.mod) /\ use' = use /\ holds' = holds /\ careful' = careful
    BY <1>13 DEF FiniReturns
  <2>2. careful => Core(modules', use, holds)
    BY <1>0, <2>1, BooksGone
  <2>3. modules' \in Seq(Module)
    BY <2>1, GoneStep
  <2>4. CASE at.for = "user"
    <3>1. at'.do \notin {"init", "fini"} /\ verdict' = verdict
      BY <1>13, <2>4 DEF FiniReturns, Idle
    <3> QED
      BY <1>F, <2>1, <2>2, <3>1
  <2>5. CASE at.for # "user"
    <3>1. at.for \in {"all", "exit"} /\ Sweep(at.for, modules')
      BY <1>0, <1>13, <2>5 DEF FiniReturns, Where
    <3> QED
      BY <1>5, <2>1, <2>2, <2>3, <3>1
  <2> QED
    BY <2>4, <2>5
<1>14. CASE check_allocations
  BY <1>14, <1>S DEF check_allocations, Same
<1>15. CASE EventGoesOn
  <2>1. /\ at.do = "event" /\ Same
        /\ \/ (at' = Idle \/ at' = at) /\ verdict' = verdict
           \/ at' = [at EXCEPT !.do = "over"] /\ verdict' = "crashed"
    BY <1>15 DEF EventGoesOn, Same
  <2>2. CASE at' = Idle /\ verdict' = verdict
    BY <1>S, <2>1, <2>2 DEF Idle
  <2>3. CASE at' = at /\ verdict' = verdict
    BY <1>S, <2>1, <2>3
  <2>4. CASE at' = [at EXCEPT !.do = "over"] /\ verdict' = "crashed"
    <3>1. at'.do = "over"
      BY <1>0, <2>4 DEF Where
    <3> QED
      BY <1>S, <2>1, <2>4, <3>1
  <2> QED
    BY <2>1, <2>2, <2>3, <2>4
<1> QED
  BY <1>1, <1>2, <1>3, <1>4, <1>6, <1>7, <1>8, <1>9, <1>10, <1>11, <1>12, <1>13, <1>14, <1>15
  DEF Next, Loader

\* A directory whose entries are those of the modules O, one each, under the names K.
Filed(l, K, O) ==
    /\ \A i \in DOMAIN l : l[i].key = K[l[i].owner]
    /\ \A i, j \in DOMAIN l : l[i].owner = l[j].owner => i = j
    /\ \A m \in Module : m \in O <=> \E i \in DOMAIN l : l[i].owner = m

\* proc_match finds the first entry of a name.
LEMMA MatchIs ==
    ASSUME NEW l \in Seq(Entry), NEW name
    PROVE  /\ Match(l, name) = 0 <=> \A i \in DOMAIN l : l[i].key # name
           /\ Match(l, name) # 0 => Match(l, name) \in DOMAIN l /\ l[Match(l, name)].key = name
<1> DEFINE hits == { i \in DOMAIN l : l[i].key = name }
<1>1. Match(l, name) = IF hits = {} THEN 0 ELSE CHOOSE i \in hits : \A j \in hits : i <= j
  BY DEF Match
<1>2. DOMAIN l = 1 .. Len(l) /\ Len(l) \in Nat
  OBVIOUS
<1>3. CASE hits = {}
  BY <1>1, <1>3
<1>4. CASE hits # {}
  <2>1. hits \subseteq Nat /\ 0 \notin hits
    BY <1>2
  <2>2. \A i \in hits : i \in DOMAIN l /\ l[i].key = name
    OBVIOUS
  <2>3. \E i \in DOMAIN l : l[i].key = name
    BY <1>4
  <2> HIDE DEF hits
  <2>4. \E i \in hits : \A j \in hits : i <= j
    BY <1>4, <2>1, Least
  <2>5. Match(l, name) \in hits
    BY <1>1, <1>4, <2>4
  <2> QED
    BY <2>1, <2>2, <2>3, <2>5
<1> QED
  BY <1>3, <1>4

\* A directory is empty exactly if it has the entries of nobody.
LEMMA FiledEmpty ==
    ASSUME Given, NEW l \in Seq(Entry), NEW K, NEW O \in SUBSET Module, Filed(l, K, O)
    PROVE  l = << >> <=> O = {}
<1>1. DOMAIN l = 1 .. Len(l) /\ Len(l) \in Nat /\ \A i \in DOMAIN l : l[i] \in Entry
  OBVIOUS
<1>2. \A i \in DOMAIN l : l[i].owner \in Module
  BY <1>1 DEF Entry, Given, ModuleAssumption
<1>3. ASSUME l = << >> PROVE O = {}
  BY <1>3 DEF Filed
<1>4. ASSUME O = {} PROVE l = << >>
  <2>1. DOMAIN l = {}
    BY <1>2, <1>4 DEF Filed
  <2>2. Len(l) = 0
    BY <1>1, <2>1
  <2> QED
    BY <2>2
<1> QED
  BY <1>3, <1>4

\* A new entry...
LEMMA FiledCreate ==
    ASSUME Given, NEW l \in Seq(Entry), NEW K, NEW O \in SUBSET Module, Filed(l, K, O),
           NEW m \in Module \ O, K[m] \in Name \cup {PathStart}
    PROVE  Created(l, K[m], m) \in Seq(Entry) /\ Filed(Created(l, K[m], m), K, O \cup {m})
<1> DEFINE e == [key |-> K[m], owner |-> m]
           t == <<e>> \o l
<1>1. e \in Entry /\ e.owner = m /\ e.key = K[m]
  BY DEF Entry, Given, ModuleAssumption
<1> HIDE DEF e
<1>2. t \in Seq(Entry) /\ Pushed(t, e, l)
  BY <1>1, InFront
<1>3. Created(l, K[m], m) = t
  BY DEF Created, e
<1> HIDE DEF t
<1>4. /\ DOMAIN l = 1 .. Len(l) /\ Len(l) \in Nat /\ DOMAIN t = 1 .. Len(t)
      /\ Len(t) = Len(l) + 1 /\ t[1] = e
      /\ \A k \in 1 .. Len(l) : t[k + 1] = l[k]
      /\ \A k \in 1 .. Len(t) : k = 1 \/ (k - 1 \in 1 .. Len(l) /\ t[k] = l[k - 1])
  BY <1>2 DEF Pushed
<1>5. \A i \in DOMAIN l : l[i].owner # m
  BY DEF Filed
<1>0. ASSUME NEW i \in DOMAIN t, i # 1 PROVE i - 1 \in DOMAIN l /\ t[i] = l[i - 1] /\ i \in Nat
  BY <1>0, <1>4
<1>6. ASSUME NEW i \in DOMAIN t PROVE t[i].key = K[t[i].owner]
  <2>1. CASE i = 1
    BY <1>1, <1>4, <2>1
  <2>2. CASE i # 1
    BY <1>0, <2>2 DEF Filed
  <2> QED
    BY <2>1, <2>2
<1>7. ASSUME NEW i \in DOMAIN t, NEW j \in DOMAIN t, t[i].owner = t[j].owner PROVE i = j
  <2>1. CASE i = 1 \/ j = 1
    <3>1. \A k \in DOMAIN t : k # 1 => t[k].owner # m
      BY <1>0, <1>5
    <3>2. t[1].owner = m
      BY <1>1, <1>4
    <3> QED
      BY <1>7, <2>1, <3>1, <3>2
  <2>2. CASE i # 1 /\ j # 1
    <3>0. /\ i - 1 \in DOMAIN l /\ t[i] = l[i - 1] /\ i \in Nat
          /\ j - 1 \in DOMAIN l /\ t[j] = l[j - 1] /\ j \in Nat
      BY <1>0, <2>2
    <3>1. i - 1 = j - 1
      BY <1>7, <3>0 DEF Filed
    <3> QED
      BY <3>0, <3>1
  <2> QED
    BY <2>1, <2>2
<1>8. ASSUME NEW o \in Module PROVE o \in O \cup {m} <=> \E i \in DOMAIN t : t[i].owner = o
  <2>1. CASE o = m
    <3>1. 1 \in DOMAIN t
      BY <1>4
    <3> QED
      BY <1>1, <1>4, <2>1, <3>1
  <2>2. CASE o # m
    <3>1. ASSUME NEW i \in DOMAIN t, t[i].owner = o PROVE o \in O
      <4>1. i - 1 \in DOMAIN l /\ t[i] = l[i - 1]
        BY <1>0, <1>1, <1>4, <2>2, <3>1
      <4> QED
        BY <3>1, <4>1 DEF Filed
    <3>2. ASSUME o \in O PROVE \E i \in DOMAIN t : t[i].owner = o
      <4>1. PICK k \in DOMAIN l : l[k].owner = o
        BY <3>2 DEF Filed
      <4>2. k + 1 \in DOMAIN t /\ t[k + 1] = l[k]
        BY <1>4
      <4> QED
        BY <4>1, <4>2
    <3> QED
      BY <2>2, <3>1, <3>2
  <2> QED
    BY <2>1, <2>2
<1> QED
  BY <1>2, <1>3, <1>6, <1>7, <1>8 DEF Filed

\* ... and one less: that of m, if no other entry has its name.
LEMMA FiledRemove ==
    ASSUME Given, NEW l \in Seq(Entry), NEW K, NEW O \in SUBSET Module, Filed(l, K, O),
           NEW m \in O, NEW name, K[m] = name, \A o \in O : K[o] = name => o = m
    PROVE  /\ Match(l, name) # 0
           /\ Removed(l, name) \in Seq(Entry) /\ Filed(Removed(l, name), K, O \ {m})
<1>0. /\ \A i \in DOMAIN l : l[i].owner \in Module /\ l[i].owner \in O
      /\ DOMAIN l = 1 .. Len(l) /\ Len(l) \in Nat
  <2>1. \A i \in DOMAIN l : l[i] \in Entry
    OBVIOUS
  <2>2. \A i \in DOMAIN l : l[i].owner \in Module
    BY <2>1 DEF Entry, Given, ModuleAssumption
  <2> QED
    BY <2>2 DEF Filed
<1>1. PICK j \in DOMAIN l : l[j].owner = m
  BY DEF Filed
<1>2. l[j].key = name
  BY <1>1 DEF Filed
<1>3. Match(l, name) # 0
  BY <1>1, <1>2, MatchIs
<1> DEFINE p == Match(l, name)
           t == RemoveAt(l, p)
<1>4. p \in DOMAIN l /\ l[p].key = name
  BY <1>3, MatchIs
<1>5. l[p].owner = m
  BY <1>0, <1>4 DEF Filed
<1>6. Removed(l, name) = t
  BY <1>3 DEF Removed
<1> HIDE DEF p
<1>7. /\ t \in Seq(Entry) /\ Len(t) = Len(l) - 1
      /\ \A k \in 1 .. Len(l) - 1 : t[k] = IF k < p THEN l[k] ELSE l[k + 1]
  BY <1>4, RemoveAtProperties, Zenon
<1> HIDE DEF t
<1>8. DOMAIN t = 1 .. Len(l) - 1 /\ p \in 1 .. Len(l)
  BY <1>0, <1>4, <1>7
<1> DEFINE from(k) == IF k < p THEN k ELSE k + 1
<1>9. ASSUME NEW k \in DOMAIN t PROVE from(k) \in DOMAIN l /\ from(k) # p /\ t[k] = l[from(k)]
  BY <1>0, <1>7, <1>8
<1>10. ASSUME NEW i \in DOMAIN t, NEW k \in DOMAIN t, from(i) = from(k) PROVE i = k
  BY <1>8, <1>10
<1>11. ASSUME NEW i \in DOMAIN l, i # p PROVE \E k \in DOMAIN t : from(k) = i
  <2>1. CASE i < p
    <3>1. i \in DOMAIN t
      BY <1>0, <1>8, <2>1
    <3> QED
      BY <2>1, <3>1
  <2>2. CASE ~(i < p)
    <3>1. i - 1 \in DOMAIN t /\ ~(i - 1 < p) /\ (i - 1) + 1 = i
      BY <1>0, <1>8, <1>11, <2>2
    <3> QED
      BY <3>1
  <2> QED
    BY <2>1, <2>2
<1> HIDE DEF from
<1>12. \A i \in DOMAIN t : t[i].key = K[t[i].owner]
  BY <1>9 DEF Filed
<1>13. ASSUME NEW i \in DOMAIN t, NEW k \in DOMAIN t, t[i].owner = t[k].owner PROVE i = k
  <2>1. from(i) = from(k)
    BY <1>9, <1>13 DEF Filed
  <2> QED
    BY <1>10, <2>1
<1>14. ASSUME NEW o \in Module PROVE o \in O \ {m} <=> \E i \in DOMAIN t : t[i].owner = o
  <2>1. ASSUME NEW i \in DOMAIN t, t[i].owner = o PROVE o \in O \ {m}
    <3>1. from(i) \in DOMAIN l /\ from(i) # p /\ l[from(i)].owner = o
      BY <1>9, <2>1
    <3>2. o \in O
      BY <1>0, <3>1
    <3>3. o # m
      BY <1>4, <1>5, <3>1 DEF Filed
    <3> QED
      BY <3>2, <3>3
  <2>2. ASSUME o \in O \ {m} PROVE \E i \in DOMAIN t : t[i].owner = o
    <3>1. PICK i \in DOMAIN l : l[i].owner = o
      BY <2>2 DEF Filed
    <3>2. i # p
      BY <1>5, <2>2, <3>1
    <3>3. PICK k \in DOMAIN t : from(k) = i
      BY <1>11, <3>2
    <3> QED
      BY <1>9, <3>1, <3>3
  <2> QED
    BY <2>1, <2>2
<1> QED
  BY <1>3, <1>6, <1>7, <1>12, <1>13, <1>14 DEF Filed

\* Removing leaves a list of entries, whatever is in it.
LEMMA RemovedIsList ==
    ASSUME NEW l \in Seq(Entry), NEW name
    PROVE  Removed(l, name) \in Seq(Entry)
<1>1. CASE Match(l, name) = 0
  BY <1>1 DEF Removed
<1>2. CASE Match(l, name) # 0
  <2>1. Match(l, name) \in DOMAIN l
    BY <1>2, MatchIs
  <2>2. RemoveAt(l, Match(l, name)) \in Seq(Entry)
    BY <2>1, RemoveAtProperties
  <2> QED
    BY <1>2, <2>2 DEF Removed
<1> QED
  BY <1>1, <1>2

\* A list with an entry in front is a list of entries.
LEMMA CreatedIsList ==
    ASSUME Given, NEW l \in Seq(Entry), NEW key \in Name \cup {PathStart}, NEW m \in Module
    PROVE  Created(l, key, m) \in Seq(Entry) /\ Len(Created(l, key, m)) = Len(l) + 1
           /\ Created(l, key, m)[1].key = key
<1> DEFINE e == [key |-> key, owner |-> m]
<1>1. e \in Entry /\ e.key = key
  BY DEF Entry, Given, ModuleAssumption
<1>2. Created(l, key, m) = <<e>> \o l
  BY DEF Created
<1> HIDE DEF e
<1> QED
  BY <1>1, <1>2, InFront DEF Pushed

\* The directory of the tables: it is there once, exactly if it has a file.
OneDir(sys, there) ==
    /\ sys \in Seq(Entry) /\ Len(sys) = IF there THEN 1 ELSE 0
    /\ \A i \in DOMAIN sys : sys[i].key = "shared"

\* The shared directory is found exactly if it is there.
LEMMA OneDirMatch ==
    ASSUME NEW sys, NEW there \in BOOLEAN, OneDir(sys, there)
    PROVE  Match(sys, "shared") = IF there THEN 1 ELSE 0
<1>1. sys \in Seq(Entry) /\ DOMAIN sys = 1 .. Len(sys)
  BY DEF OneDir
<1>2. CASE there
  <2>1. DOMAIN sys = {1} /\ sys[1].key = "shared"
    BY <1>1, <1>2 DEF OneDir
  <2> QED
    BY <1>1, <1>2, <2>1, MatchIs
<1>3. CASE ~there
  <2>1. DOMAIN sys = {}
    BY <1>1, <1>3 DEF OneDir
  <2> QED
    BY <1>1, <1>3, <2>1, MatchIs
<1> QED
  BY <1>2, <1>3

\* register_proc_table makes it unless it is there.
LEMMA OneDirMade ==
    ASSUME Given, NEW sys, NEW there \in BOOLEAN, OneDir(sys, there), NEW m \in Module
    PROVE  OneDir(IF Match(sys, "shared") = 0 THEN Created(sys, "shared", m) ELSE sys, TRUE)
<1>1. "shared" \in Name \cup {PathStart} /\ sys \in Seq(Entry)
  BY DEF Name, OneDir
<1>2. CASE there
  <2>1. Match(sys, "shared") = 1
    BY <1>2, OneDirMatch
  <2> QED
    BY <1>2, <2>1 DEF OneDir
<1>3. CASE ~there
  <2> DEFINE t == Created(sys, "shared", m)
  <2>1. Match(sys, "shared") = 0
    BY <1>3, OneDirMatch
  <2>2. t \in Seq(Entry) /\ Len(t) = 1 /\ t[1].key = "shared"
    <3>1. Len(sys) = 0
      BY <1>3 DEF OneDir
    <3>2. t \in Seq(Entry) /\ Len(t) = Len(sys) + 1 /\ t[1].key = "shared"
      BY <1>1, CreatedIsList
    <3> QED
      BY <3>1, <3>2
  <2> HIDE DEF t
  <2>3. DOMAIN t = {1}
    BY <2>2
  <2>4. OneDir(t, TRUE)
    BY <2>2, <2>3 DEF OneDir
  <2> QED
    BY <2>1, <2>4 DEF t
<1> QED
  BY <1>2, <1>3

\* unregister_proc_table removes it with its last file.
LEMMA OneDirGone ==
    ASSUME NEW sys, NEW there \in BOOLEAN, OneDir(sys, there)
    PROVE  OneDir(Removed(sys, "shared"), FALSE)
<1>1. CASE there
  <2>1. Match(sys, "shared") = 1 /\ sys \in Seq(Entry) /\ Len(sys) = 1
    BY <1>1, OneDirMatch DEF OneDir
  <2>2. 1 \in DOMAIN sys
    BY <2>1
  <2> DEFINE t == RemoveAt(sys, 1)
  <2>3. t \in Seq(Entry) /\ Len(t) = Len(sys) - 1
    BY <2>1, <2>2, RemoveAtProperties
  <2>4. Removed(sys, "shared") = t
    BY <2>1 DEF Removed
  <2> HIDE DEF t
  <2>5. Len(t) = 0 /\ DOMAIN t = {}
    BY <2>1, <2>3
  <2> QED
    BY <2>3, <2>4, <2>5 DEF OneDir
<1>2. CASE ~there
  <2>1. Match(sys, "shared") = 0
    BY <1>2, OneDirMatch
  <2> QED
    BY <1>2, <2>1 DEF OneDir, Removed
<1> QED
  BY <1>1, <1>2

\* The modules that have not undone a registration of this kind.
Owed(kind) == { m \in Module : <<kind, m>> \in owes }

\* The names of the files in /proc/net.
NetName == [m \in Module |-> IF m \in ByPath THEN PathStart ELSE FileName[m]]

\* What there is, is what is owed: caches, files and, unless two files in the shared directory
\* had one name, the tables with their directory.
Ledger ==
    /\ proc \in [Dir -> Seq(Entry)] /\ tables \subseteq Module /\ clash \in BOOLEAN
    /\ owes \subseteq Thing
    /\ caches \in [Module -> -1 .. MaxObjects]
    /\ \A m \in Module : caches[m] >= 0 <=> <<"cache", m>> \in owes
    /\ ~ignore_proc_issues =>
         /\ Filed(proc["net"], NetName, Owed("file"))
         /\ tables = Owed("table")
         /\ ~clash => /\ Filed(proc["shared"], LeafName, tables)
                      /\ \A o, p \in tables : LeafName[o] = LeafName[p] => o = p
                      /\ OneDir(proc["sys"], tables # {})

\* Which steps have to do with it.
LEMMA LedgerMoves ==
    ASSUME LoaderTypes, [Next]_vars
    PROVE  \/ UNCHANGED <<procVars, owes, caches, clash>>
           \/ /\ proc_cleanup /\ UNCHANGED <<owes, caches, clash>>
           \/ \E m \in Module :
                \/ \E b \in Block : RegisterBlock(m, b) \/ UnregisterBlock(m, b)
                \/ CreateFile(m) \/ RemoveFile(m)
                \/ RegisterTable(m) \/ UnregisterTable(m)
                \/ kmem_cache_create(m) \/ kmem_cache_alloc(m)
                \/ kmem_cache_free(m) \/ kmem_cache_destroy(m)
<1>1. CASE UNCHANGED vars
  BY <1>1 DEF vars
<1>2. CASE \E m \in Module : insmod(m) \/ rmmod(m)
  BY <1>2 DEF insmod, rmmod
<1>3. CASE insmod_a
  BY <1>3 DEF insmod_a
<1>4. CASE rmmod_a \/ Exit
  <2>1. /\ Sweep("all", modules) \/ Sweep("exit", modules)
        /\ UNCHANGED <<owes, caches, clash>>
    BY <1>4 DEF rmmod_a, Exit
  <2>2. UNCHANGED procVars \/ proc_cleanup
    BY <2>1, SweepCases
  <2> QED
    BY <2>1, <2>2
<1>5. CASE Event
  BY <1>5 DEF Event
<1>6. CASE ModuleCode
  <2>1. PICK m \in Module :
            \/ \E b \in Block : RegisterBlock(m, b) \/ UnregisterBlock(m, b)
            \/ CreateFile(m) \/ RemoveFile(m)
            \/ RegisterTable(m) \/ UnregisterTable(m)
            \/ kmem_cache_create(m) \/ kmem_cache_alloc(m)
            \/ kmem_cache_free(m) \/ kmem_cache_destroy(m)
            \/ \E o \in Module : try_module_get(m, o) \/ module_put(m, o)
    BY <1>6 DEF ModuleCode
  <2>2. CASE \E o \in Module : try_module_get(m, o) \/ module_put(m, o)
    BY <2>2 DEF try_module_get, module_put
  <2> QED
    BY <2>1, <2>2
<1>7. CASE FiniReturns
  <2>1. UNCHANGED <<owes, caches, clash>>
    BY <1>7 DEF FiniReturns
  <2>2. CASE at.for = "user"
    BY <1>7, <2>1, <2>2 DEF FiniReturns
  <2>3. CASE at.for # "user"
    <3>1. at.for \in {"all", "exit"} /\ Sweep(at.for, modules')
      BY <1>7, <2>3 DEF FiniReturns, LoaderTypes, Where
    <3>2. UNCHANGED procVars \/ proc_cleanup
      BY <3>1, SweepCases
    <3> QED
      BY <2>1, <3>2
  <2> QED
    BY <2>2, <2>3
<1>8. CASE \/ \E m \in Module : ReadDir(m)
           \/ EndOfDir \/ InitSucceeds \/ InitFails \/ check_allocations \/ EventGoesOn
  BY <1>8 DEF ReadDir, EndOfDir, InitSucceeds, InitFails, check_allocations, EventGoesOn
<1> QED
  BY <1>1, <1>2, <1>3, <1>4, <1>5, <1>6, <1>7, <1>8 DEF Next, Loader

\* At the start there is nothing and nothing is owed.
LEMMA LedgerStarts == ASSUME Given, Init PROVE Ledger
<1>1. /\ proc = [d \in Dir |-> << >>] /\ tables = {} /\ clash = FALSE /\ owes = {}
      /\ caches = [m \in Module |-> -1]
  BY DEF Init, ProcInit
<1>2. /\ proc["net"] = << >> /\ proc["sys"] = << >> /\ proc["shared"] = << >>
      /\ proc \in [Dir -> Seq(Entry)]
  BY <1>1 DEF Dir
<1>3. Owed("file") = {} /\ Owed("table") = {}
  BY <1>1 DEF Owed
<1>4. \A K : Filed(<< >>, K, {})
  BY DEF Filed
<1>5. OneDir(<< >>, FALSE)
  BY DEF OneDir
<1>6. MaxObjects \in Nat
  BY DEF Given, ModuleAssumption
<1>7. caches \in [Module -> -1 .. MaxObjects] /\ \A m \in Module : ~(caches[m] >= 0)
  BY <1>1, <1>6
<1> QED
  BY <1>1, <1>2, <1>3, <1>4, <1>5, <1>7 DEF Ledger

\* A step that leaves files, tables and caches alone, and what is owed of them.
LEMMA LedgerSame ==
    ASSUME Ledger, UNCHANGED <<procVars, caches, clash>>, owes' \subseteq Thing,
           \A m \in Module, k \in {"file", "table", "cache"} :
                <<k, m>> \in owes' <=> <<k, m>> \in owes
    PROVE  Ledger'
<1>1. Owed("file")' = Owed("file") /\ Owed("table")' = Owed("table")
  BY DEF Owed
<1>2. proc' = proc /\ tables' = tables /\ caches' = caches /\ clash' = clash
  BY DEF procVars
<1>3. \A m \in Module : caches'[m] >= 0 <=> <<"cache", m>> \in owes'
  BY <1>2 DEF Ledger
<1> QED
  BY <1>1, <1>2, <1>3 DEF Ledger

\* proc_cleanup frees what is owed only with --ignore-proc-issues.
LEMMA LedgerCleaned ==
    ASSUME Given, Ledger, proc_cleanup, UNCHANGED <<owes, caches, clash>>
    PROVE  Ledger'
<1>1. CASE ignore_proc_issues
  <2>1. proc' = [d \in Dir |-> << >>] /\ tables' = {}
    BY <1>1 DEF proc_cleanup
  <2>2. proc' \in [Dir -> Seq(Entry)]
    BY <2>1
  <2> QED
    BY <1>1, <2>1, <2>2 DEF Ledger
<1>2. CASE ~ignore_proc_issues
  <2>1. UNCHANGED <<procVars, caches, clash>> /\ owes' = owes
    BY <1>2 DEF proc_cleanup
  <2>2. owes' \subseteq Thing
    BY <2>1 DEF Ledger
  <2> QED
    BY <2>1, <2>2, LedgerSame
<1> QED
  BY <1>1, <1>2

\* A file comes...
LEMMA LedgerFile ==
    ASSUME Given, Ledger, NEW m \in Module, CreateFile(m)
    PROVE  Ledger'
<1>0. /\ proc \in [Dir -> Seq(Entry)] /\ owes \subseteq Thing
  BY DEF Ledger
<1>1. /\ <<"file", m>> \notin owes /\ owes' = owes \cup {<<"file", m>>}
      /\ proc' = [proc EXCEPT !["net"] =
                    Created(@, IF m \in ByPath THEN PathStart ELSE FileName[m], m)]
      /\ tables' = tables /\ caches' = caches /\ clash' = clash
  BY DEF CreateFile, create_proc_entry
<1>2. NetName[m] = (IF m \in ByPath THEN PathStart ELSE FileName[m])
      /\ NetName[m] \in Name \cup {PathStart}
  BY DEF NetName, Name, Given, ModuleAssumption
<1>3. /\ proc'["net"] = Created(proc["net"], NetName[m], m)
      /\ proc'["shared"] = proc["shared"] /\ proc'["sys"] = proc["sys"]
      /\ proc["net"] \in Seq(Entry)
  BY <1>0, <1>1, <1>2 DEF Dir
<1>4. Created(proc["net"], NetName[m], m) \in Seq(Entry)
  BY <1>2, <1>3, CreatedIsList
<1>5. proc' \in [Dir -> Seq(Entry)]
  BY <1>0, <1>1, <1>2, <1>4
<1>6. Owed("file")' = Owed("file") \cup {m} /\ Owed("table")' = Owed("table")
      /\ m \notin Owed("file")
  BY <1>1 DEF Owed
<1>7. ASSUME ~ignore_proc_issues PROVE Filed(proc'["net"], NetName, Owed("file")')
  <2>1. Filed(proc["net"], NetName, Owed("file")) /\ Owed("file") \in SUBSET Module
        /\ m \in Module \ Owed("file")
    BY <1>6, <1>7 DEF Ledger, Owed
  <2>2. Filed(Created(proc["net"], NetName[m], m), NetName, Owed("file") \cup {m})
    BY <1>2, <1>3, <2>1, FiledCreate
  <2> QED
    BY <1>3, <1>6, <2>2
<1>8. \A o \in Module : <<"cache", o>> \in owes' <=> <<"cache", o>> \in owes
  BY <1>1
<1>9. owes' \subseteq Thing
  BY <1>0, <1>1 DEF Thing
<1> QED
  BY <1>1, <1>3, <1>5, <1>6, <1>7, <1>8, <1>9 DEF Ledger

\* ... and goes, or the simulator ends.
LEMMA LedgerFileGone ==
    ASSUME Given, Ledger, NEW m \in Module, RemoveFile(m)
    PROVE  Ledger'
<1>0. /\ proc \in [Dir -> Seq(Entry)] /\ owes \subseteq Thing
  BY DEF Ledger
<1>1. CASE CannotRemove(m)
  <2>1. UNCHANGED <<procVars, caches, clash>> /\ owes' = owes
    BY <1>1 DEF RemoveFile
  <2> QED
    BY <1>0, <2>1, LedgerSame
<1>2. CASE ~CannotRemove(m)
  <2>1. /\ <<"file", m>> \in owes /\ owes' = owes \ {<<"file", m>>}
        /\ proc' = [proc EXCEPT !["net"] = Removed(@, FileName[m])]
        /\ tables' = tables /\ caches' = caches /\ clash' = clash
    BY <1>2 DEF RemoveFile, remove_proc_entry
  <2>3. /\ proc'["net"] = Removed(proc["net"], FileName[m])
        /\ proc'["shared"] = proc["shared"] /\ proc'["sys"] = proc["sys"]
        /\ proc["net"] \in Seq(Entry)
    BY <1>0, <2>1 DEF Dir
  <2>4. Removed(proc["net"], FileName[m]) \in Seq(Entry)
    BY <2>3, RemovedIsList
  <2>5. proc' \in [Dir -> Seq(Entry)]
    BY <1>0, <2>1, <2>4
  <2>6. Owed("file")' = Owed("file") \ {m} /\ Owed("table")' = Owed("table") /\ m \in Owed("file")
    BY <2>1 DEF Owed
  <2>7. ASSUME ~ignore_proc_issues PROVE Filed(proc'["net"], NetName, Owed("file")')
    <3>1. Filed(proc["net"], NetName, Owed("file")) /\ Owed("file") \in SUBSET Module
      BY <2>7 DEF Ledger, Owed
    <3>2. FileName[m] \in Name /\ PathStart \notin Name
      BY DEF Name, Given, ProcAssumption, ModuleAssumption
    <3>3. \A o \in Module : FileName[o] = FileName[m] => o = m
      BY DEF Given, ProcAssumption, ModuleAssumption, IsInjective
    <3>4. \A o \in Module : NetName[o] = FileName[m] => o = m
      BY <3>2, <3>3 DEF NetName
    <3>5. Match(proc["net"], FileName[m]) # 0
      BY <1>2, <2>7 DEF CannotRemove
    <3>6. PICK i \in DOMAIN proc["net"] : proc["net"][i].key = FileName[m]
      BY <2>3, <3>5, MatchIs
    <3>7. proc["net"][i].owner \in Module
      <4>1. proc["net"][i] \in Entry
        BY <2>3
      <4> QED
        BY <4>1 DEF Entry, Given, ModuleAssumption
    <3>8. NetName[m] = FileName[m]
      BY <3>1, <3>4, <3>6, <3>7 DEF Filed
    <3>9. \A o \in Owed("file") : NetName[o] = FileName[m] => o = m
      BY <3>1, <3>4
    <3>10. Filed(Removed(proc["net"], FileName[m]), NetName, Owed("file") \ {m})
      BY <2>3, <2>6, <3>1, <3>8, <3>9, FiledRemove
    <3> QED
      BY <2>3, <2>6, <3>10
  <2>8. \A o \in Module : <<"cache", o>> \in owes' <=> <<"cache", o>> \in owes
    BY <2>1
  <2>9. owes' \subseteq Thing
    BY <1>0, <2>1
  <2> QED
    BY <2>1, <2>3, <2>5, <2>6, <2>7, <2>8, <2>9 DEF Ledger
<1> QED
  BY <1>1, <1>2

\* A table comes: the directory if it is not there, and its file.
LEMMA LedgerTable ==
    ASSUME Given, Ledger, NEW m \in Module, RegisterTable(m)
    PROVE  Ledger'
<1>0. /\ proc \in [Dir -> Seq(Entry)] /\ owes \subseteq Thing /\ tables \subseteq Module
      /\ clash \in BOOLEAN
  BY DEF Ledger
<1> DEFINE made == IF Match(proc["sys"], "shared") = 0 THEN Created(proc["sys"], "shared", m)
                   ELSE proc["sys"]
           file == Created(proc["shared"], LeafName[m], m)
<1>1. /\ <<"table", m>> \notin owes /\ owes' = owes \cup {<<"table", m>>}
      /\ proc' = [proc EXCEPT !["sys"] = made, !["shared"] = file]
      /\ tables' = tables \cup {m} /\ caches' = caches
      /\ clash' = (clash \/ Match(proc["shared"], LeafName[m]) # 0)
  BY <1>0 DEF RegisterTable, register_sysctl_table, Dir
<1>2. LeafName[m] \in Name \cup {PathStart} /\ "shared" \in Name \cup {PathStart}
  BY DEF Name, Given, ModuleAssumption
<1>3. /\ proc["net"] \in Seq(Entry) /\ proc["sys"] \in Seq(Entry) /\ proc["shared"] \in Seq(Entry)
  BY <1>0 DEF Dir
<1>4. made \in Seq(Entry) /\ file \in Seq(Entry)
  BY <1>2, <1>3, CreatedIsList
<1> HIDE DEF made, file
<1>5. proc' \in [Dir -> Seq(Entry)] /\ proc'["net"] = proc["net"] /\ proc'["sys"] = made
      /\ proc'["shared"] = file
  BY <1>0, <1>1, <1>4 DEF Dir
<1>6. /\ Owed("table")' = Owed("table") \cup {m} /\ Owed("file")' = Owed("file")
      /\ m \notin Owed("table")
  BY <1>1 DEF Owed
<1>7. \A o \in Module : <<"cache", o>> \in owes' <=> <<"cache", o>> \in owes
  BY <1>1
<1>8. owes' \subseteq Thing /\ tables' \subseteq Module /\ clash' \in BOOLEAN
  BY <1>0, <1>1 DEF Thing
<1>9. ASSUME ~ignore_proc_issues, ~clash'
      PROVE  /\ Filed(proc'["shared"], LeafName, tables')
             /\ \A o, p \in tables' : LeafName[o] = LeafName[p] => o = p
             /\ OneDir(proc'["sys"], tables' # {})
  <2>1. /\ ~clash /\ Match(proc["shared"], LeafName[m]) = 0
    BY <1>0, <1>1, <1>9
  <2>2. /\ tables = Owed("table") /\ Filed(proc["shared"], LeafName, tables)
        /\ \A o, p \in tables : LeafName[o] = LeafName[p] => o = p
        /\ OneDir(proc["sys"], tables # {})
    BY <1>9, <2>1 DEF Ledger
  <2>3. m \in Module \ tables /\ tables \in SUBSET Module
    BY <1>0, <1>6, <2>2
  <2>4. Filed(file, LeafName, tables \cup {m})
    BY <1>2, <1>3, <2>2, <2>3, FiledCreate DEF file
  <2>5. \A o \in tables : LeafName[o] # LeafName[m]
    <3> SUFFICES ASSUME NEW o \in tables, LeafName[o] = LeafName[m] PROVE FALSE
      OBVIOUS
    <3>1. PICK i \in DOMAIN proc["shared"] : proc["shared"][i].owner = o
      BY <1>0, <2>2 DEF Filed
    <3>2. proc["shared"][i].key = LeafName[m]
      BY <2>2, <3>1 DEF Filed
    <3> QED
      BY <1>3, <2>1, <3>2, MatchIs
  <2>6. OneDir(made, TRUE)
    BY <2>2, OneDirMade DEF made
  <2>7. (tables' # {}) = TRUE
    BY <1>1
  <2>8. \A o, p \in tables' : LeafName[o] = LeafName[p] => o = p
    BY <1>1, <2>2, <2>5
  <2> QED
    BY <1>1, <1>5, <2>4, <2>6, <2>7, <2>8
<1>10. ~ignore_proc_issues
       => Filed(proc'["net"], NetName, Owed("file")') /\ tables' = Owed("table")'
  BY <1>1, <1>5, <1>6 DEF Ledger
<1> QED
  BY <1>1, <1>5, <1>7, <1>8, <1>9, <1>10 DEF Ledger

\* A table goes: its file, and the directory with the last file.
LEMMA LedgerTableGone ==
    ASSUME Given, Ledger, NEW m \in Module, UnregisterTable(m)
    PROVE  Ledger'
<1>0. /\ proc \in [Dir -> Seq(Entry)] /\ owes \subseteq Thing /\ tables \subseteq Module
      /\ clash \in BOOLEAN
  BY DEF Ledger
<1>1. PICK garbled \in (IF LeafGone(m) THEN BOOLEAN ELSE {FALSE}) :
        LET left == IF garbled THEN proc["shared"] ELSE Removed(proc["shared"], LeafName[m])
        IN  /\ tables' = tables \ {m}
            /\ proc' = [proc EXCEPT
                            !["shared"] = left,
                            !["sys"] = IF left = << >> THEN Removed(@, "shared") ELSE @]
  BY DEF UnregisterTable, unregister_sysctl_table
<1> DEFINE left == IF garbled THEN proc["shared"] ELSE Removed(proc["shared"], LeafName[m])
           dirs == IF left = << >> THEN Removed(proc["sys"], "shared") ELSE proc["sys"]
<1>2. /\ <<"table", m>> \in owes /\ owes' = owes \ {<<"table", m>>}
      /\ caches' = caches /\ clash' = clash /\ tables' = tables \ {m}
      /\ proc' = [proc EXCEPT !["shared"] = left, !["sys"] = dirs]
  BY <1>0, <1>1 DEF UnregisterTable, Dir
<1>3. /\ proc["net"] \in Seq(Entry) /\ proc["sys"] \in Seq(Entry) /\ proc["shared"] \in Seq(Entry)
  BY <1>0 DEF Dir
<1>4. left \in Seq(Entry) /\ dirs \in Seq(Entry)
  BY <1>3, RemovedIsList
<1> HIDE DEF left, dirs
<1>5. proc' \in [Dir -> Seq(Entry)] /\ proc'["net"] = proc["net"] /\ proc'["sys"] = dirs
      /\ proc'["shared"] = left
  BY <1>0, <1>2, <1>4 DEF Dir
<1>6. /\ Owed("table")' = Owed("table") \ {m} /\ Owed("file")' = Owed("file")
      /\ m \in Owed("table")
  BY <1>2 DEF Owed
<1>7. \A o \in Module : <<"cache", o>> \in owes' <=> <<"cache", o>> \in owes
  BY <1>2
<1>8. owes' \subseteq Thing /\ tables' \subseteq Module /\ clash' \in BOOLEAN
  BY <1>0, <1>2
<1>9. ASSUME ~ignore_proc_issues, ~clash'
      PROVE  /\ Filed(proc'["shared"], LeafName, tables')
             /\ \A o, p \in tables' : LeafName[o] = LeafName[p] => o = p
             /\ OneDir(proc'["sys"], tables' # {})
  <2>2. /\ tables = Owed("table") /\ Filed(proc["shared"], LeafName, tables)
        /\ \A o, p \in tables : LeafName[o] = LeafName[p] => o = p
        /\ OneDir(proc["sys"], tables # {})
    BY <1>2, <1>9 DEF Ledger
  <2>3. m \in tables /\ tables \in SUBSET Module /\ tables \ {m} \in SUBSET Module
    BY <1>0, <1>6, <2>2
  <2>4. ~LeafGone(m)
    BY <1>0, <2>2, <2>3 DEF LeafGone, Filed
  <2>5. left = Removed(proc["shared"], LeafName[m])
    BY <1>1, <2>4 DEF left
  <2>6. \A o \in tables : LeafName[o] = LeafName[m] => o = m
    BY <2>2, <2>3
  <2>7. Filed(left, LeafName, tables \ {m})
    BY <1>3, <2>2, <2>3, <2>5, <2>6, FiledRemove
  <2>8. left = << >> <=> tables \ {m} = {}
    BY <1>4, <2>3, <2>7, FiledEmpty
  <2>9. OneDir(dirs, tables \ {m} # {})
    <3>1. CASE left = << >>
      <4>1. OneDir(Removed(proc["sys"], "shared"), FALSE)
        BY <2>2, OneDirGone
      <4>2. (tables \ {m} # {}) = FALSE
        BY <2>8, <3>1
      <4> QED
        BY <3>1, <4>1, <4>2 DEF dirs
    <3>2. CASE left # << >>
      <4>1. (tables # {}) = TRUE /\ (tables \ {m} # {}) = TRUE
        BY <2>3, <2>8, <3>2
      <4> QED
        BY <2>2, <3>2, <4>1 DEF dirs
    <3> QED
      BY <3>1, <3>2
  <2> QED
    BY <1>2, <1>5, <2>2, <2>7, <2>9
<1>10. ~ignore_proc_issues
       => Filed(proc'["net"], NetName, Owed("file")') /\ tables' = Owed("table")'
  BY <1>2, <1>5, <1>6 DEF Ledger
<1> QED
  BY <1>2, <1>5, <1>7, <1>8, <1>9, <1>10 DEF Ledger

\* Slab caches come, fill, empty and go.
LEMMA LedgerCache ==
    ASSUME Given, Ledger, NEW m \in Module,
           \/ kmem_cache_create(m) \/ kmem_cache_alloc(m)
           \/ kmem_cache_free(m) \/ kmem_cache_destroy(m)
    PROVE  Ledger'
<1>0. /\ owes \subseteq Thing /\ caches \in [Module -> -1 .. MaxObjects] /\ MaxObjects \in Nat
      /\ \A o \in Module : caches[o] >= 0 <=> <<"cache", o>> \in owes
  BY DEF Ledger, Given, ModuleAssumption
<1>1. UNCHANGED <<procVars, clash>>
  BY DEF kmem_cache_create, kmem_cache_alloc, kmem_cache_free, kmem_cache_destroy
<1>2. /\ caches' \in [Module -> -1 .. MaxObjects]
      /\ \A o \in Module : caches'[o] >= 0 <=> <<"cache", o>> \in owes'
      /\ owes' \subseteq Thing
      /\ \A o \in Module : <<"file", o>> \in owes' <=> <<"file", o>> \in owes
      /\ \A o \in Module : <<"table", o>> \in owes' <=> <<"table", o>> \in owes
  <2>1. CASE kmem_cache_create(m)
    <3>1. caches' = [caches EXCEPT ![m] = 0] /\ owes' = owes \cup {<<"cache", m>>}
      BY <2>1 DEF kmem_cache_create
    <3>2. caches' \in [Module -> -1 .. MaxObjects]
      BY <1>0, <3>1
    <3>3. owes' \subseteq Thing
      BY <1>0, <3>1 DEF Thing
    <3> QED
      BY <1>0, <3>1, <3>2, <3>3
  <2>2. CASE kmem_cache_alloc(m)
    <3>1. /\ caches[m] \in 0 .. MaxObjects - 1 /\ caches' = [caches EXCEPT ![m] = @ + 1]
          /\ owes' = owes
      BY <2>2 DEF kmem_cache_alloc
    <3>2. caches' \in [Module -> -1 .. MaxObjects] /\ caches'[m] >= 0 /\ caches[m] >= 0
      BY <1>0, <3>1
    <3> QED
      BY <1>0, <3>1, <3>2
  <2>3. CASE kmem_cache_free(m)
    <3>1. caches[m] > 0 /\ caches' = [caches EXCEPT ![m] = @ - 1] /\ owes' = owes
      BY <2>3 DEF kmem_cache_free
    <3>2. caches' \in [Module -> -1 .. MaxObjects] /\ caches'[m] >= 0 /\ caches[m] >= 0
      BY <1>0, <3>1
    <3> QED
      BY <1>0, <3>1, <3>2
  <2>4. CASE kmem_cache_destroy(m)
    <3>1. caches' = [caches EXCEPT ![m] = -1] /\ owes' = owes \ {<<"cache", m>>}
      BY <2>4 DEF kmem_cache_destroy
    <3>2. caches' \in [Module -> -1 .. MaxObjects] /\ ~(caches'[m] >= 0)
      BY <1>0, <3>1
    <3> QED
      BY <1>0, <3>1, <3>2
  <2> QED
    BY <2>1, <2>2, <2>3, <2>4
<1>3. Owed("file")' = Owed("file") /\ Owed("table")' = Owed("table")
  BY <1>2 DEF Owed
<1> QED
  BY <1>1, <1>2, <1>3 DEF Ledger, procVars

\* What there is, is always what is owed.
LEMMA LedgerHolds ==
    ASSUME Given, LoaderTypes, Ledger, [Next]_vars
    PROVE  Ledger'
<1>1. CASE UNCHANGED <<procVars, owes, caches, clash>>
  <2>1. owes' \subseteq Thing
    BY <1>1 DEF Ledger
  <2> QED
    BY <1>1, <2>1, LedgerSame
<1>2. CASE proc_cleanup /\ UNCHANGED <<owes, caches, clash>>
  BY <1>2, LedgerCleaned
<1>3. ASSUME NEW m \in Module, NEW b \in Block, RegisterBlock(m, b) \/ UnregisterBlock(m, b)
      PROVE  Ledger'
  <2>1. /\ UNCHANGED <<procVars, caches, clash>> /\ BlockOf[b] = m
        /\ owes' = owes \cup {<<b, m>>} \/ owes' = owes \ {<<b, m>>}
    BY <1>3 DEF RegisterBlock, UnregisterBlock
  <2>2. b \notin {"file", "table", "cache"}
    BY DEF Given, ModuleAssumption
  <2>3. owes' \subseteq Thing
    BY <2>1 DEF Ledger, Thing
  <2> QED
    BY <2>1, <2>2, <2>3, LedgerSame
<1> QED
  BY <1>1, <1>2, <1>3, LedgerMoves, LedgerFile, LedgerFileGone, LedgerTable, LedgerTableGone,
     LedgerCache

\* How a run ends: module code ends it, a module in use or a callback that is gone does, or
\* check_allocations, which comes after proc_cleanup.
LEMMA Endings ==
    ASSUME LoaderTypes, [Next]_vars
    PROVE  \/ UNCHANGED vars
           \/ check_allocations
           \/ verdict = "none" /\ Barfs
           \/ verdict = "none" /\ verdict' \in {"in use", "crashed"}
           \/ /\ verdict = "none" /\ verdict' = "none" /\ at.do # "over"
              /\ at'.do = "over" /\ at'.for = "exit" => proc_cleanup
<1>0. at \in Where /\ (verdict # "none" => at.do = "over")
  BY DEF LoaderTypes
<1>1. CASE \E m \in Module : insmod(m) \/ rmmod(m)
  <2>1. at.do # "over" /\ verdict' = verdict /\ at'.do # "over"
    BY <1>1 DEF insmod, rmmod, Command, Idle
  <2> QED
    BY <1>0, <2>1
<1>2. CASE insmod_a
  BY <1>0, <1>2 DEF insmod_a, Command, Idle
<1>3. ASSUME NEW for \in {"all", "exit"}, NEW list, Sweep(for, list), at.do # "over"
      PROVE  \/ verdict = "none" /\ verdict' = "in use"
             \/ /\ verdict = "none" /\ verdict' = "none"
                /\ at'.do = "over" /\ at'.for = "exit" => proc_cleanup
  <2>1. verdict = "none"
    BY <1>0, <1>3
  <2>2. CASE at' = Idle /\ verdict' = verdict
    BY <2>1, <2>2 DEF Idle
  <2>3. CASE at' = [do |-> "fini", mod |-> Head(list), for |-> for] /\ verdict' = verdict
    BY <2>1, <2>3
  <2> QED
    BY <1>3, <2>1, <2>2, <2>3, SweepCases
<1>4. CASE rmmod_a
  <2>1. at.do # "over" /\ Sweep("all", modules)
    BY <1>4 DEF rmmod_a, Command, Idle
  <2> QED
    BY <1>3, <2>1
<1>5. CASE Exit
  <2>1. at.do # "over" /\ Sweep("exit", modules)
    BY <1>5 DEF Exit, Idle
  <2> QED
    BY <1>3, <2>1
<1>6. CASE Event
  <2>1. at.do # "over" /\ at'.for = "user" /\ (verdict' = verdict \/ verdict' = "crashed")
    BY <1>6 DEF Event, Command, Idle
  <2> QED
    BY <1>0, <2>1
<1>7. CASE ModuleCode
  <2>1. CASE CodeKeeps \/ Gets \/ Puts
    BY <1>0, <2>1 DEF CodeKeeps, Gets, Puts
  <2>2. CASE Barfs
    BY <1>0, <2>2 DEF Barfs
  <2> QED
    BY <1>7, <2>1, <2>2, CodeCases
<1>8. CASE FiniReturns
  <2>1. CASE at.for = "user"
    <3>1. at.do # "over" /\ verdict' = verdict /\ at' = Idle
      BY <1>8, <2>1 DEF FiniReturns
    <3>2. at'.do # "over"
      BY <3>1 DEF Idle
    <3> QED
      BY <1>0, <3>1, <3>2
  <2>2. CASE at.for # "user"
    <3>1. at.for \in {"all", "exit"} /\ Sweep(at.for, modules') /\ at.do # "over"
      BY <1>0, <1>8, <2>2 DEF FiniReturns, Where
    <3> QED
      BY <1>3, <3>1
  <2> QED
    BY <2>1, <2>2
<1>9. CASE (\E m \in Module : ReadDir(m)) \/ EndOfDir
  <2>1. at.do = "scan" /\ verdict' = verdict
    BY <1>9 DEF ReadDir, EndOfDir
  <2>2. \/ at' = at \/ at' = Idle
        \/ \E m \in Module : at' = [at EXCEPT !.do = "init", !.mod = m]
    BY <1>9 DEF ReadDir, EndOfDir
  <2>3. at'.do # "over"
    <3>1. CASE at' = at
      BY <2>1, <3>1
    <3>2. CASE at' = Idle
      BY <3>2 DEF Idle
    <3>3. CASE \E m \in Module : at' = [at EXCEPT !.do = "init", !.mod = m]
      BY <1>0, <3>3 DEF Where
    <3> QED
      BY <2>2, <3>1, <3>2, <3>3
  <2> QED
    BY <1>0, <2>1, <2>3
<1>10. CASE InitSucceeds \/ InitFails
  <2>1. at.do = "init" /\ verdict' = verdict
    BY <1>10 DEF InitSucceeds, InitFails
  <2>2. at' = Idle \/ at' = [at EXCEPT !.do = "scan", !.mod = NULL]
    BY <1>10 DEF InitSucceeds, InitFails
  <2>3. at'.do # "over"
    <3>1. CASE at' = Idle
      BY <3>1 DEF Idle
    <3>2. CASE at' = [at EXCEPT !.do = "scan", !.mod = NULL]
      BY <1>0, <3>2 DEF Where
    <3> QED
      BY <2>2, <3>1, <3>2
  <2> QED
    BY <1>0, <2>1, <2>3
<1>11. CASE EventGoesOn
  <2>1. at.do = "event" /\ verdict = "none"
    BY <1>0, <1>11 DEF EventGoesOn
  <2>2. \/ at' = Idle /\ verdict' = verdict
        \/ at' = at /\ verdict' = verdict
        \/ verdict' = "crashed"
    BY <1>11 DEF EventGoesOn
  <2>3. CASE at' = Idle /\ verdict' = verdict
    BY <2>1, <2>3 DEF Idle
  <2> QED
    BY <2>1, <2>2, <2>3
<1>12. CASE check_allocations \/ UNCHANGED vars
  BY <1>12
<1> QED
  BY <1>1, <1>2, <1>4, <1>5, <1>6, <1>7, <1>8, <1>9, <1>10, <1>11, <1>12 DEF Next, Loader

\* A file that is there and cannot be removed was made by a path.
Stuck == verdict = "cannot remove" => \E m \in ByPath : <<"file", m>> \in owes

\* With --ignore-proc-issues nothing is left of /proc when the blocks are counted.
Cleaned ==
    ignore_proc_issues /\ at.do = "over" /\ at.for = "exit" /\ verdict \in {"none", "leak", "clean"}
    => proc = [d \in Dir |-> << >>] /\ tables = {}

\* What check_allocations said is what it counted.
CountedRight ==
    verdict \in {"leak", "clean"} =>
        /\ at.do = "over" /\ at.for = "exit"
        /\ verdict = "leak" <=> Blocks # 0

EndInv == Stuck /\ Cleaned /\ CountedRight

\* At the start the run has not ended.
LEMMA EndStarts == ASSUME Init PROVE EndInv
BY DEF Init, Idle, EndInv, Stuck, Cleaned, CountedRight

\* The name of a file that was made below a parent is found.
LEMMA FoundByName ==
    ASSUME Given, Ledger, NEW m \in Module, <<"file", m>> \in owes, CannotRemove(m)
    PROVE  m \in ByPath
<1>1. Filed(proc["net"], NetName, Owed("file")) /\ proc["net"] \in Seq(Entry)
      /\ Match(proc["net"], FileName[m]) = 0
  BY DEF Ledger, CannotRemove, Dir
<1>2. m \in Owed("file")
  BY DEF Owed
<1>3. PICK i \in DOMAIN proc["net"] : proc["net"][i].owner = m /\ proc["net"][i].key = NetName[m]
  BY <1>1, <1>2 DEF Filed
<1>4. proc["net"][i].key # FileName[m]
  BY <1>1, MatchIs
<1> QED
  BY <1>3, <1>4 DEF NetName

\* What a run ends with stays true.
LEMMA EndHolds ==
    ASSUME Given, LoaderTypes, Ledger, EndInv, [Next]_vars
    PROVE  EndInv'
<1>1. CASE UNCHANGED vars
  <2>1. /\ UNCHANGED <<verdict, owes, at, proc, tables, caches, fields>>
    BY <1>1 DEF vars, loaderVars, procVars, chainVars
  <2>2. Blocks' = Blocks
    BY <2>1 DEF Blocks, ProcBlocks
  <2> QED
    BY <2>1, <2>2 DEF EndInv, Stuck, Cleaned, CountedRight
<1>2. CASE check_allocations
  <2>1. /\ UNCHANGED <<owes, at, proc, tables, caches, fields>>
        /\ at.do = "over" /\ at.for = "exit" /\ verdict = "none"
        /\ verdict' = IF Blocks # 0 THEN "leak" ELSE "clean"
    BY <1>2 DEF check_allocations, procVars, chainVars
  <2>2. Blocks' = Blocks
    BY <2>1 DEF Blocks, ProcBlocks
  <2> QED
    BY <2>1, <2>2 DEF EndInv, Stuck, Cleaned, CountedRight
<1>3. CASE verdict = "none" /\ Barfs
  <2>1. owes' = owes /\ verdict' \in {"cannot remove", "unknown module", "put too far"}
        /\ (verdict' = "cannot remove" =>
                \E m \in Module : <<"file", m>> \in owes /\ CannotRemove(m))
    BY <1>3 DEF Barfs
  <2>2. verdict' = "cannot remove" => \E m \in ByPath : <<"file", m>> \in owes'
    BY <2>1, FoundByName
  <2> QED
    BY <2>1, <2>2 DEF EndInv, Stuck, Cleaned, CountedRight
<1>4. CASE verdict = "none" /\ verdict' \in {"in use", "crashed"}
  BY <1>4 DEF EndInv, Stuck, Cleaned, CountedRight
<1>5. CASE /\ verdict = "none" /\ verdict' = "none" /\ at.do # "over"
           /\ at'.do = "over" /\ at'.for = "exit" => proc_cleanup
  BY <1>5 DEF EndInv, Stuck, Cleaned, CountedRight, proc_cleanup
<1> QED
  BY <1>1, <1>2, <1>3, <1>4, <1>5, Endings

\* Nothing of a finite set is counted exactly if there is nothing in it.
LEMMA CountsNone ==
    ASSUME NEW S, IsFiniteSet(S)
    PROVE  Cardinality(S) \in Nat /\ (Cardinality(S) # 0 <=> S # {})
BY FS_CardinalityType, FS_EmptySet

\* The blocks of /proc that check_allocations counts are owed, and excused with
\* --ignore-proc-issues.
LEMMA ProcCounted ==
    ASSUME Given, Ledger, ~clash, \/ ~ignore_proc_issues
                                  \/ proc = [d \in Dir |-> << >>] /\ tables = {}
    PROVE  /\ ProcBlocks \in Nat
           /\ ProcBlocks # 0 <=> ~ignore_proc_issues /\ (Owed("file") # {} \/ Owed("table") # {})
<1>1. /\ proc \in [Dir -> Seq(Entry)] /\ tables \subseteq Module /\ IsFiniteSet(Module)
  BY DEF Ledger, Given, ModuleAssumption
<1>2. IsFiniteSet(tables)
  BY <1>1, FS_Subset
<1>3. Cardinality(tables) \in Nat /\ (Cardinality(tables) # 0 <=> tables # {})
  BY <1>2, CountsNone
<1>4. /\ proc["net"] \in Seq(Entry) /\ proc["sys"] \in Seq(Entry) /\ proc["shared"] \in Seq(Entry)
  BY <1>1 DEF Dir
<1>5. \A l \in Seq(Entry) : Len(l) \in Nat /\ (Len(l) # 0 <=> l # << >>)
  OBVIOUS
<1>6. /\ ProcBlocks \in Nat
      /\ ProcBlocks # 0 <=> \/ proc["net"] # << >> \/ proc["sys"] # << >> \/ proc["shared"] # << >>
                            \/ tables # {}
  <2> DEFINE a == Len(proc["net"])
             b == Len(proc["sys"])
             c == Len(proc["shared"])
             d == Cardinality(tables)
  <2>1. /\ a \in Nat /\ b \in Nat /\ c \in Nat /\ d \in Nat
        /\ a # 0 <=> proc["net"] # << >>
        /\ b # 0 <=> proc["sys"] # << >>
        /\ c # 0 <=> proc["shared"] # << >>
        /\ d # 0 <=> tables # {}
    BY <1>3, <1>4, <1>5
  <2>2. ProcBlocks = 2 * (a + b + c) + d
    BY DEF ProcBlocks
  <2> HIDE DEF a, b, c, d
  <2>3. ProcBlocks \in Nat /\ (ProcBlocks # 0 <=> a # 0 \/ b # 0 \/ c # 0 \/ d # 0)
    BY <2>1, <2>2
  <2> QED
    BY <2>1, <2>3
<1>7. CASE ~ignore_proc_issues
  <2>1. /\ Filed(proc["net"], NetName, Owed("file"))
        /\ tables = Owed("table")
        /\ Filed(proc["shared"], LeafName, tables)
        /\ OneDir(proc["sys"], tables # {})
    BY <1>7 DEF Ledger
  <2>2. Owed("file") \in SUBSET Module /\ tables \in SUBSET Module
    BY <1>1 DEF Owed
  <2>3. (proc["net"] = << >> <=> Owed("file") = {}) /\ (proc["shared"] = << >> <=> tables = {})
    BY <1>4, <2>1, <2>2, FiledEmpty
  <2>4. tables = {} => proc["sys"] = << >>
    BY <1>4, <2>1 DEF OneDir
  <2> QED
    BY <1>6, <1>7, <2>1, <2>3, <2>4
<1>8. CASE ignore_proc_issues
  <2>1. proc = [d \in Dir |-> << >>] /\ tables = {}
    BY <1>8
  <2>2. proc["net"] = << >> /\ proc["sys"] = << >> /\ proc["shared"] = << >>
    BY <2>1 DEF Dir
  <2> QED
    BY <1>6, <1>8, <2>1, <2>2
<1> QED
  BY <1>7, <1>8

\* So are the fields of the notifier blocks ...
LEMMA FieldsCounted ==
    ASSUME Given, ChainInv, OwesBlocks
    PROVE  LET left == { b \in Block : fields[b] # 0 }
           IN  /\ Cardinality(left) \in Nat
               /\ Cardinality(left) # 0 <=> \E b \in Block : <<b, BlockOf[b]>> \in owes
<1> DEFINE left == { b \in Block : fields[b] # 0 }
<1>1. \A b \in Block : fields[b] # 0 <=> <<b, BlockOf[b]>> \in owes
  <2>1. fields = [b \in Block |-> IF b \in Registered THEN 1 ELSE 0]
    BY DEF ChainInv
  <2> QED
    BY <2>1 DEF OwesBlocks
<1>2. IsFiniteSet(left)
  BY FS_Subset DEF Given, BlockAssumption
<1>3. left # {} <=> \E b \in Block : <<b, BlockOf[b]>> \in owes
  BY <1>1
<1> HIDE DEF left
<1>4. Cardinality(left) \in Nat /\ (Cardinality(left) # 0 <=> left # {})
  BY <1>2, CountsNone
<1> QED
  BY <1>3, <1>4 DEF left

\* ... and the slab caches with what is in them.
LEMMA CachesCounted ==
    ASSUME Given, Ledger
    PROVE  LET objects == { o \in Module \X (0 .. MaxObjects) : o[2] <= caches[o[1]] }
           IN  /\ Cardinality(objects) \in Nat
               /\ Cardinality(objects) # 0 <=> Owed("cache") # {}
<1> DEFINE all == Module \X (0 .. MaxObjects)
           objects == { o \in all : o[2] <= caches[o[1]] }
<1>1. IsFiniteSet(Module) /\ MaxObjects \in Nat
  BY DEF Given, ModuleAssumption
<1>2. IsFiniteSet(0 .. MaxObjects)
  BY <1>1, FS_Interval
<1>3. IsFiniteSet(all)
  BY <1>1, <1>2, FS_Product
<1>4. IsFiniteSet(objects)
  BY <1>3, FS_Subset
<1>5. /\ caches \in [Module -> -1 .. MaxObjects]
      /\ \A m \in Module : caches[m] >= 0 <=> <<"cache", m>> \in owes
  BY DEF Ledger
<1>6. ASSUME NEW o \in objects PROVE Owed("cache") # {}
  <2>1. o[1] \in Module /\ o[2] \in 0 .. MaxObjects /\ o[2] <= caches[o[1]]
    OBVIOUS
  <2>2. caches[o[1]] >= 0
    BY <1>1, <1>5, <2>1
  <2> QED
    BY <1>5, <2>1, <2>2 DEF Owed
<1>7. ASSUME NEW m \in Owed("cache") PROVE <<m, 0>> \in objects
  <2>1. m \in Module /\ caches[m] >= 0
    BY <1>5 DEF Owed
  <2>2. <<m, 0>> \in all /\ <<m, 0>>[1] = m /\ <<m, 0>>[2] = 0
    BY <1>1, <2>1
  <2> QED
    BY <1>5, <2>1, <2>2
<1>8. objects # {} <=> Owed("cache") # {}
  BY <1>6, <1>7
<1> HIDE DEF objects
<1>9. Cardinality(objects) \in Nat /\ (Cardinality(objects) # 0 <=> objects # {})
  BY <1>4, CountsNone
<1>10. Cardinality(objects) \in Nat /\ (Cardinality(objects) # 0 <=> Owed("cache") # {})
  BY <1>8, <1>9
<1> QED
  BY <1>10 DEF objects

\* So the count says whether something that is not excused is owed.
LEMMA CountIsTrue ==
    ASSUME Given, ChainInv, OwesBlocks, Ledger, EndInv, verdict \in {"leak", "clean"}, ~clash
    PROVE  (verdict = "leak") =
            (\E t \in owes : t[1] \notin (IF ignore_proc_issues THEN {"file", "table"} ELSE {}))
<1> DEFINE excused == IF ignore_proc_issues THEN {"file", "table"} ELSE {}
           left == { b \in Block : fields[b] # 0 }
           objects == { o \in Module \X (0 .. MaxObjects) : o[2] <= caches[o[1]] }
           told == \E b \in Block : <<b, BlockOf[b]>> \in owes
<1>1. /\ Cardinality(left) \in Nat
      /\ Cardinality(left) # 0 <=> told
  BY FieldsCounted
<1>2. /\ Cardinality(objects) \in Nat
      /\ Cardinality(objects) # 0 <=> Owed("cache") # {}
  BY CachesCounted
<1>3. \/ ~ignore_proc_issues
      \/ proc = [d \in Dir |-> << >>] /\ tables = {}
  BY DEF EndInv, CountedRight, Cleaned
<1>4. /\ ProcBlocks \in Nat
      /\ ProcBlocks # 0 <=> ~ignore_proc_issues /\ (Owed("file") # {} \/ Owed("table") # {})
  BY <1>3, ProcCounted
<1>5. Blocks = ProcBlocks + Cardinality(left) + Cardinality(objects)
  BY DEF Blocks
<1>6. verdict = "leak" <=> Blocks # 0
  BY DEF EndInv, CountedRight
<1> HIDE DEF left, objects
<1>7. Blocks # 0 <=> ProcBlocks # 0 \/ Cardinality(left) # 0 \/ Cardinality(objects) # 0
  BY <1>1, <1>2, <1>4, <1>5
<1>8. verdict = "leak" <=> \/ told \/ Owed("cache") # {}
                           \/ ~ignore_proc_issues /\ (Owed("file") # {} \/ Owed("table") # {})
  BY <1>1, <1>2, <1>4, <1>6, <1>7
<1>9. owes \subseteq Thing /\ Block \cap {"file", "table", "cache"} = {}
  BY DEF Ledger, Given, ModuleAssumption
<1>10. ASSUME NEW t \in owes, t[1] \notin excused
       PROVE  \/ told \/ Owed("cache") # {}
              \/ ~ignore_proc_issues /\ (Owed("file") # {} \/ Owed("table") # {})
  <2>1. t \in Thing
    BY <1>9
  <2>2. CASE \E b \in Block : t = <<b, BlockOf[b]>>
    BY <2>2
  <2>3. CASE t \in {"file", "table", "cache"} \X Module
    <3>1. PICK k \in {"file", "table", "cache"}, m \in Module : t = <<k, m>>
      BY <2>3
    <3>2. m \in Owed(k) /\ t[1] = k
      BY <3>1 DEF Owed
    <3>3. CASE k = "cache"
      BY <3>2, <3>3
    <3>4. CASE k # "cache"
      <4>1. ~ignore_proc_issues
        BY <1>10, <3>1, <3>2, <3>4
      <4> QED
        BY <3>1, <3>2, <3>4, <4>1
    <3> QED
      BY <3>3, <3>4
  <2> QED
    BY <2>1, <2>2, <2>3 DEF Thing
<1>11. ASSUME NEW b \in Block, <<b, BlockOf[b]>> \in owes
       PROVE  \E t \in owes : t[1] \notin excused
  <2>1. <<b, BlockOf[b]>>[1] = b /\ b \notin excused
    BY <1>9
  <2> QED
    BY <1>11, <2>1
<1>12. ASSUME NEW m \in Owed("cache") PROVE \E t \in owes : t[1] \notin excused
  <2>1. <<"cache", m>> \in owes /\ <<"cache", m>>[1] \notin excused
    BY DEF Owed
  <2> QED
    BY <2>1
<1>13. ASSUME ~ignore_proc_issues, NEW k, NEW m \in Owed(k)
       PROVE \E t \in owes : t[1] \notin excused
  <2>1. <<k, m>> \in owes /\ <<k, m>>[1] \notin excused
    BY <1>13 DEF Owed
  <2> QED
    BY <2>1
<1> HIDE DEF excused
<1>14. verdict = "leak" <=> \E t \in owes : t[1] \notin excused
  BY <1>8, <1>10, <1>11, <1>12, <1>13
<1> QED
  BY <1>14 DEF excused

\* The inductive invariant.
LoaderInv ==
    ChainInv /\ WalkInv /\ LoaderTypes /\ EventInv /\ BooksInv /\ Ledger /\ EndInv

\* It gives the types ...
LEMMA TypesFollow == ASSUME Given, LoaderInv PROVE TypeOK
<1>1. ChainTypeOK
  <2>1. WalkOK(walk)
    BY DEF LoaderInv, ChainInv, WalkOK, Walk
  <2>2. fields \in [Block -> 0 .. 1]
    <3>1. fields = [b \in Block |-> IF b \in Registered THEN 1 ELSE 0]
      BY DEF LoaderInv, ChainInv
    <3> QED
      BY <3>1
  <2> QED
    BY <2>1, <2>2 DEF LoaderInv, ChainInv, ChainTypeOK
<1>2. ProcTypeOK
  <2>1. proc \in [Dir -> Seq(Entry)] /\ tables \subseteq Module /\ Module = Owner
    BY DEF LoaderInv, Ledger, Given, ModuleAssumption
  <2>2. ASSUME NEW d \in Dir, NEW i \in DOMAIN proc[d] PROVE proc[d][i] \in Entry
    <3>1. proc[d] \in Seq(Entry)
      BY <2>1
    <3> QED
      BY <3>1
  <2> QED
    BY <2>1, <2>2 DEF ProcTypeOK
<1>3. /\ modules \in Seq(Module) /\ IsInjective(modules)
      /\ use \in [Module -> Nat]
      /\ at \in Where /\ scan \in Pass
      /\ holds \subseteq Module \X Module
      /\ verdict \in Verdict
  BY DEF LoaderInv, LoaderTypes
<1>4. caches \in [Module -> -1 .. MaxObjects] /\ owes \subseteq Thing
  BY DEF LoaderInv, Ledger
<1> QED
  BY <1>1, <1>2, <1>3, <1>4 DEF TypeOK, Where, Pass, Verdict

\* ... and the rest of what the loader promises.
LEMMA SoundFollows == ASSUME Given, LoaderInv PROVE LoaderSound
<1>1. TypeOK
  BY TypesFollow
<1>2. BarfHasACause
  BY DEF LoaderInv, BooksInv, EventInv, Crash, EndInv, Stuck, BarfHasACause
<1>3. ASSUME careful
      PROVE  /\ \A i, j \in DOMAIN modules : i < j => Behind(i, j)
             /\ \A m \in Loaded : use[m] = Cardinality({ o \in Module : <<o, m>> \in holds })
  <2>1. Core(modules, use, holds)
    BY <1>3 DEF LoaderInv, BooksInv, Books
  <2>2. \A i, j \in DOMAIN modules : i < j => Behind(i, j)
    BY <2>1 DEF Core, Behind
  <2>3. \A m \in Loaded : use[m] = Cardinality({ o \in Module : <<o, m>> \in holds })
    BY <2>1 DEF Core, Holders, Loaded
  <2> QED
    BY <2>2, <2>3
<1> QED
  BY <1>1, <1>2, <1>3 DEF LoaderSound

\* The invariant holds in every reachable state, whatever the constants are.
LEMMA LoaderInvHolds == Spec => []LoaderInv
<1>0. Given
  BY Assumed
<1> USE <1>0
<1>1. Init => LoaderInv
  <2>1. Init => ChainInit
    BY DEF Init
  <2> QED
    BY <2>1, ChainStarts, LoaderStarts, EventStarts, BooksStart, LedgerStarts, EndStarts
    DEF LoaderInv
<1>2. LoaderInv /\ [Next]_vars => LoaderInv'
  BY ChainHolds, LoaderHolds, EventHolds, BooksHold, LedgerHolds, EndHolds DEF LoaderInv
<1> QED
  BY <1>1, <1>2, PTL DEF Spec

\* The loader's books (module.c): whatever the modules do and in whatever order they come and
\* go, a use count is the number of references, no module is listed behind one it needs as
\* long as rmmod is used with care, and the simulator ends over its bookkeeping only for a
\* reason.
THEOREM LoaderAlwaysSound == Spec => []LoaderSound
<1>0. Given
  BY Assumed
<1> USE <1>0
<1>1. LoaderInv => LoaderSound
  BY SoundFollows
<1> QED
  BY <1>1, LoaderInvHolds, PTL

\* check_allocations says "Resource leak" exactly if a module left something behind, for any
\* modules with any files, tables, blocks and caches.
THEOREM LeakCheckAlwaysTrue == Spec => []LeakCheckIsTrue
<1>0. Given
  BY Assumed
<1> USE <1>0
<1>1. LoaderInv => LeakCheckIsTrue
  BY CountIsTrue DEF LeakCheckIsTrue, LoaderInv, EventInv
<1> QED
  BY <1>1, LoaderInvHolds, PTL

-----------------------------------------------------------------------------
(* Packets in memory.                                                      *)

\* A packet buffer whose fields are of the right kind, of whatever size.
Buffer == [ buf : Seq(Byte), data : Nat, tail : Nat, len : Nat, nh : Int, extra : Seq(Byte),
            writable : Nat, nonlinear : BOOLEAN ]

\* InsideItsBuffers, of any packet.
Inside(s) ==
    IF s.nonlinear
    THEN /\ s.writable <= Len(s.buf)
         /\ s.data + s.len <= Len(s.extra)
         /\ Len(s.buf) <= Len(s.extra)
    ELSE s.data + s.len = s.tail /\ s.tail <= Len(s.buf)

\* The header pointer stays near the data, and a packet that can still be put to has its
\* data up to the tail.
Shape(s) ==
    /\ InReach(s.nh - s.data)
    /\ s.nonlinear => s.tail = s.data + s.len \/ s.tail >= Len(s.buf)

Sound(s) == s \in SkBuff /\ Inside(s) /\ Shape(s)

\* What is inductive.
SkbInv == AlarmIsTrue /\ Sound(skb)

\* The strings of the model are the sequences of at most so many bytes.
LEMMA StringsAreSequences ==
    ASSUME NEW n \in Nat
    PROVE  \A s : s \in Strings(n) <=> s \in Seq(Byte) /\ Len(s) <= n
<1>1. ASSUME NEW s \in Strings(n) PROVE s \in Seq(Byte) /\ Len(s) <= n
  <2>1. PICK k \in 0 .. n : s \in [1 .. k -> Byte]
    BY DEF Strings
  <2> QED
    BY <2>1
<1>2. ASSUME NEW s \in Seq(Byte), Len(s) <= n PROVE s \in Strings(n)
  <2>1. Len(s) \in 0 .. n /\ s \in [1 .. Len(s) -> Byte]
    BY <1>2
  <2> QED
    BY <2>1 DEF Strings
<1> QED
  BY <1>1, <1>2

\* The sizes are numbers, and a packet fits into the largest buffer.
LEMMA Sizes == Longest \in Nat /\ MaxLen \in Nat /\ MaxRoom \in Nat /\ MaxLen <= Longest
BY SkbAssumption DEF Longest

\* m bytes of t from the one behind place d on.
LEMMA Slice ==
    ASSUME NEW t \in Seq(Byte), NEW d \in Nat, NEW m \in Nat, m = 0 \/ d + m <= Len(t)
    PROVE  /\ SubSeq(t, d + 1, d + m) \in Seq(Byte) /\ Len(SubSeq(t, d + 1, d + m)) = m
           /\ \A i \in 1 .. m : SubSeq(t, d + 1, d + m)[i] = t[d + i]
<1> DEFINE a == d + 1
           b == d + m
<1>1. a \in Int /\ b \in Int /\ \A i \in a .. b : t[i] \in Byte
  OBVIOUS
<1>2. b - a + 1 = m /\ (a <= b <=> m # 0) /\ \A i \in 1 .. m : a + i - 1 = d + i
  OBVIOUS
<1> HIDE DEF a, b
<1>3. /\ SubSeq(t, a, b) \in Seq(Byte)
      /\ Len(SubSeq(t, a, b)) = IF a <= b THEN b - a + 1 ELSE 0
      /\ \A i \in 1 .. b - a + 1 : SubSeq(t, a, b)[i] = t[a + i - 1]
  BY <1>1, SubSeqProperties
<1>4. SubSeq(t, a, b) \in Seq(Byte) /\ Len(SubSeq(t, a, b)) = m
      /\ \A i \in 1 .. m : SubSeq(t, a, b)[i] = t[d + i]
  BY <1>2, <1>3
<1> QED
  BY <1>4 DEF a, b

\* A sound packet, field by field.
LEMMA BufferFields ==
    ASSUME NEW s \in SkBuff
    PROVE  /\ s \in Buffer
           /\ Len(s.buf) <= Longest /\ Len(s.extra) <= Longest
           /\ s.data <= Longest /\ s.tail <= Longest /\ s.len <= Longest /\ s.writable <= Longest
<1>1. /\ s.buf \in Strings(Longest) /\ s.extra \in Strings(Longest)
      /\ s = [ buf |-> s.buf, data |-> s.data, tail |-> s.tail, len |-> s.len, nh |-> s.nh,
               extra |-> s.extra, writable |-> s.writable, nonlinear |-> s.nonlinear ]
      /\ s.nonlinear \in BOOLEAN
      /\ s.data \in 0 .. Longest /\ s.tail \in 0 .. Longest /\ s.len \in 0 .. Longest
      /\ s.writable \in 0 .. Longest
      /\ s.nh \in -MaxLen .. Longest + MaxLen
  BY DEF SkBuff
<1>2. /\ s.buf \in Seq(Byte) /\ Len(s.buf) <= Longest
      /\ s.extra \in Seq(Byte) /\ Len(s.extra) <= Longest
  BY <1>1, Sizes, StringsAreSequences
<1>3. s.data \in Nat /\ s.tail \in Nat /\ s.len \in Nat /\ s.writable \in Nat /\ s.nh \in Int
  BY <1>1, Sizes
<1>4. s \in Buffer
  BY <1>1, <1>2, <1>3 DEF Buffer
<1> QED
  BY <1>1, <1>2, <1>4, Sizes

\* The converse: what has to be shown of a new packet.
LEMMA BufferIsSkBuff ==
    ASSUME NEW s \in Buffer, InReach(s.nh - s.data),
           Len(s.buf) <= Longest, Len(s.extra) <= Longest,
           s.data <= Longest, s.tail <= Longest, s.len <= Longest, s.writable <= Longest
    PROVE  s \in SkBuff
<1>1. /\ s.buf \in Strings(Longest) /\ s.extra \in Strings(Longest)
  BY Sizes, StringsAreSequences DEF Buffer
<1>2. /\ s.data \in 0 .. Longest /\ s.tail \in 0 .. Longest /\ s.len \in 0 .. Longest
      /\ s.writable \in 0 .. Longest /\ s.nh \in -MaxLen .. Longest + MaxLen
  BY Sizes DEF Buffer, InReach
<1>3. s.nonlinear \in BOOLEAN
      /\ s = [ buf |-> s.buf, data |-> s.data, tail |-> s.tail, len |-> s.len, nh |-> s.nh,
               extra |-> s.extra, writable |-> s.writable, nonlinear |-> s.nonlinear ]
  BY DEF Buffer
<1> QED
  BY <1>1, <1>2, <1>3 DEF SkBuff

\* The bytes of a sound packet, and where they are.
LEMMA ContentsProperties ==
    ASSUME NEW s, Sound(s)
    PROVE  /\ Contents(s) \in Seq(Byte) /\ Len(Contents(s)) = s.len
           /\ \A k \in 1 .. s.len : Contents(s)[k] = ByteAt(s, s.data + k)
<1>1. s \in Buffer /\ Inside(s)
  BY BufferFields DEF Sound
<1>2. ASSUME NEW k \in 1 .. s.len PROVE ByteAt(s, s.data + k) \in Byte
  <2>1. s.buf \in Seq(Byte) /\ s.extra \in Seq(Byte) /\ s.data \in Nat /\ s.len \in Nat
    BY <1>1 DEF Buffer
  <2>2. CASE s.data + k <= Len(s.buf)
    BY <2>1, <2>2 DEF ByteAt
  <2>3. CASE ~(s.data + k <= Len(s.buf))
    <3>1. s.data + k <= Len(s.extra)
      BY <1>1, <2>1, <2>3 DEF Inside, Buffer
    <3> QED
      BY <2>1, <2>3, <3>1 DEF ByteAt
  <2> QED
    BY <2>2, <2>3
<1>3. s.len \in Nat /\ Contents(s) \in [1 .. s.len -> Byte]
  BY <1>1, <1>2 DEF Contents, Buffer
<1>4. \A k \in 1 .. s.len : Contents(s)[k] = ByteAt(s, s.data + k)
  BY DEF Contents
<1> QED
  BY <1>3, <1>4

\* skb_copy_bits() of all there is gives the bytes of the packet, wherever they are.
LEMMA CopyBitsIsContents ==
    ASSUME NEW s, Sound(s)
    PROVE  skb_copy_bits(s, 0, s.len) = Contents(s)
<1>1. s \in Buffer /\ Inside(s)
  BY BufferFields DEF Sound
<1>2. /\ s.buf \in Seq(Byte) /\ s.extra \in Seq(Byte) /\ s.data \in Nat /\ s.len \in Nat
      /\ s.tail \in Nat /\ Len(s.buf) \in Nat /\ Len(s.extra) \in Nat
  BY <1>1 DEF Buffer
<1> DEFINE n == IF 0 < Len(s.buf) - s.data
                THEN IF s.len < Len(s.buf) - s.data THEN s.len ELSE Len(s.buf) - s.data
                ELSE 0
           front == SubSeq(s.buf, s.data + 1, s.data + n)
           back == SubSeq(s.extra, s.data + n + 1, s.data + s.len)
<1>3. skb_copy_bits(s, 0, s.len) = front \o back
  <2>1. /\ s.data + 0 + 1 = s.data + 1 /\ s.data + 0 + n = s.data + n
        /\ s.data + 0 + n + 1 = s.data + n + 1 /\ s.data + 0 + s.len = s.data + s.len
        /\ Len(s.buf) - s.data - 0 = Len(s.buf) - s.data
    BY <1>2
  <2> QED
    BY <2>1 DEF skb_copy_bits, nfsim_linear_length, skb_headroom
<1>4. /\ n \in Nat /\ n <= s.len
      /\ s.data + n <= Len(s.buf) \/ n = 0
      /\ n < s.len => n = 0 \/ s.data + n = Len(s.buf)
      /\ n < s.len => s.data + s.len <= Len(s.extra) /\ s.data + n + 1 > Len(s.buf)
  BY <1>1, <1>2, SMTT(60) DEF Inside
<1>5. n \in Nat /\ n <= s.len
  BY <1>2
<1> HIDE DEF n
<1>6. front \in Seq(Byte) /\ Len(front) = n /\ \A i \in 1 .. n : front[i] = s.buf[s.data + i]
  <2> DEFINE t == s.buf
             d == s.data
  <2>1. t \in Seq(Byte) /\ d \in Nat /\ (n = 0 \/ d + n <= Len(t))
    BY <1>2, <1>4
  <2> HIDE DEF t, d
  <2>2. /\ SubSeq(t, d + 1, d + n) \in Seq(Byte) /\ Len(SubSeq(t, d + 1, d + n)) = n
        /\ \A i \in 1 .. n : SubSeq(t, d + 1, d + n)[i] = t[d + i]
    BY <1>5, <2>1, Slice
  <2> QED
    BY <2>2 DEF t, d
<1>7. back \in Seq(Byte) /\ Len(back) = s.len - n
      /\ \A i \in 1 .. s.len - n : back[i] = s.extra[s.data + n + i]
  <2> DEFINE d == s.data + n
             m == s.len - n
  <2>1. d \in Nat /\ m \in Nat /\ (m = 0 \/ d + m <= Len(s.extra)) /\ d + m = s.data + s.len
    BY <1>2, <1>4, <1>5
  <2> HIDE DEF d, m
  <2>2. /\ SubSeq(s.extra, d + 1, d + m) \in Seq(Byte) /\ Len(SubSeq(s.extra, d + 1, d + m)) = m
        /\ \A i \in 1 .. m : SubSeq(s.extra, d + 1, d + m)[i] = s.extra[d + i]
    BY <1>2, <2>1, Slice
  <2>3. back = SubSeq(s.extra, d + 1, d + m)
    BY <2>1 DEF d
  <2> QED
    BY <2>2, <2>3 DEF d, m
<1> HIDE DEF front, back
<1>8. /\ front \o back \in Seq(Byte) /\ Len(front \o back) = s.len
      /\ \A i \in 1 .. s.len : (front \o back)[i] = IF i <= n THEN front[i] ELSE back[i - n]
  <2>1. /\ front \o back \in Seq(Byte) /\ Len(front \o back) = Len(front) + Len(back)
        /\ \A i \in 1 .. Len(front) + Len(back) :
              (front \o back)[i] = IF i <= Len(front) THEN front[i] ELSE back[i - Len(front)]
    BY <1>6, <1>7, ConcatProperties, ZenonT(60)
  <2>2. Len(front) = n /\ Len(front) + Len(back) = s.len
    BY <1>2, <1>5, <1>6, <1>7
  <2> QED
    BY <2>1, <2>2
<1>9. ASSUME NEW i \in 1 .. s.len PROVE (front \o back)[i] = Contents(s)[i]
  <2>1. Contents(s)[i] = ByteAt(s, s.data + i)
    BY ContentsProperties
  <2>2. CASE i <= n
    BY <1>2, <1>4, <1>5, <1>6, <1>8, <2>1, <2>2 DEF ByteAt
  <2>3. CASE ~(i <= n)
    <3>1. s.data + i > Len(s.buf) /\ i - n \in 1 .. s.len - n /\ s.data + n + (i - n) = s.data + i
      BY <1>2, <1>4, <1>5, <2>3
    <3>2. back[i - n] = s.extra[s.data + i]
      BY <1>7, <3>1
    <3>3. (front \o back)[i] = back[i - n]
      BY <1>8, <2>3
    <3>4. ByteAt(s, s.data + i) = s.extra[s.data + i]
      BY <1>2, <3>1 DEF ByteAt
    <3> QED
      BY <2>1, <3>2, <3>3, <3>4
  <2> QED
    BY <2>2, <2>3
<1>10. Contents(s) \in Seq(Byte) /\ Len(Contents(s)) = s.len
  BY ContentsProperties
<1>11. front \o back = Contents(s)
  BY <1>8, <1>9, <1>10, SeqEqual
<1> QED
  BY <1>3, <1>11

\* n is the packet s in another place: sound, as nobody has modified it, with the bytes
\* of s and its header pointer.
Moved(s, n) ==
    /\ Sound(n) /\ Modified(n) = {} /\ Contents(n) = Contents(s)
    /\ n.nh - n.data = s.nh - s.data /\ n.len = s.len

\* A linear packet that holds the bytes of s.
LEMMA LinearMove ==
    ASSUME NEW s, Sound(s), NEW n \in Buffer, ~n.nonlinear, n.len = s.len,
           n.tail = n.data + n.len, n.tail <= Len(n.buf), Len(n.buf) <= Longest,
           n.extra = << >>, n.writable = 0, n.nh - n.data = s.nh - s.data,
           \A k \in 1 .. s.len : n.buf[n.data + k] = Contents(s)[k]
    PROVE  Moved(s, n)
<1>1. s \in Buffer /\ Shape(s)
  BY BufferFields DEF Sound
<1>2. n.buf \in Seq(Byte) /\ n.data \in Nat /\ n.len \in Nat /\ n.tail \in Nat /\ Len(n.buf) \in Nat
  BY DEF Buffer
<1>3. InReach(n.nh - n.data)
  BY <1>1 DEF Shape
<1>4. n \in SkBuff
  <2>1. Len(n.extra) <= Longest /\ n.data <= Longest /\ n.tail <= Longest /\ n.len <= Longest
        /\ n.writable <= Longest
    BY <1>2, Sizes
  <2> QED
    BY <1>3, <2>1, BufferIsSkBuff
<1>5. Sound(n)
  BY <1>3, <1>4 DEF Sound, Inside, Shape
<1>6. Modified(n) = {}
  BY DEF Modified
<1>7. Contents(n) = Contents(s)
  <2>1. /\ Contents(n) \in Seq(Byte) /\ Len(Contents(n)) = s.len
        /\ \A k \in 1 .. s.len : Contents(n)[k] = ByteAt(n, n.data + k)
    BY <1>5, ContentsProperties
  <2>2. Contents(s) \in Seq(Byte) /\ Len(Contents(s)) = s.len
    BY ContentsProperties
  <2>3. ASSUME NEW k \in 1 .. s.len PROVE Contents(n)[k] = Contents(s)[k]
    <3>1. n.data + k <= Len(n.buf)
      BY <1>2
    <3> QED
      BY <2>1, <3>1 DEF ByteAt
  <2> QED
    BY <2>1, <2>2, <2>3, SeqEqual
<1> QED
  BY <1>5, <1>6, <1>7 DEF Moved

\* A packet that is linear as far as it is writable, with the bytes of s as its master.
LEMMA NonlinearMove ==
    ASSUME NEW s, Sound(s), NEW n \in Buffer, n.nonlinear, n.len = s.len, n.data = 0,
           n.extra = Contents(s), n.writable = Len(n.buf), n.tail = Len(n.buf),
           Len(n.buf) <= s.len, n.nh = s.nh - s.data,
           \A k \in 1 .. Len(n.buf) : n.buf[k] = Contents(s)[k]
    PROVE  Moved(s, n)
<1>1. s \in Buffer /\ Shape(s) /\ s.len <= Longest
  BY BufferFields DEF Sound
<1>2. n.buf \in Seq(Byte) /\ n.len \in Nat /\ Len(n.buf) \in Nat /\ n.nh \in Int
  BY DEF Buffer
<1>3. InReach(n.nh - n.data) /\ n.nh - n.data = s.nh - s.data
  <2>1. n.nh - n.data = n.nh
    BY <1>2
  <2> QED
    BY <1>1, <2>1 DEF Shape
<1>4. Contents(s) \in Seq(Byte) /\ Len(Contents(s)) = s.len
  BY ContentsProperties
<1>5. n \in SkBuff
  <2>1. /\ Len(n.extra) <= Longest /\ Len(n.buf) <= Longest /\ n.data <= Longest
        /\ n.tail <= Longest /\ n.len <= Longest /\ n.writable <= Longest
    BY <1>1, <1>2, <1>4, Sizes
  <2> QED
    BY <1>3, <2>1, BufferIsSkBuff
<1>6. Sound(n)
  <2>1. Inside(n)
    BY <1>2, <1>4 DEF Inside
  <2>2. Shape(n)
    BY <1>2, <1>3 DEF Shape
  <2> QED
    BY <1>5, <2>1, <2>2 DEF Sound
<1>7. Modified(n) = {}
  <2>1. DOMAIN n.buf = 1 .. Len(n.buf)
    BY <1>2
  <2> QED
    BY <1>2, <2>1 DEF Modified
<1>8. Contents(n) = Contents(s)
  <2>1. /\ Contents(n) \in Seq(Byte) /\ Len(Contents(n)) = s.len
        /\ \A k \in 1 .. s.len : Contents(n)[k] = ByteAt(n, n.data + k)
    BY <1>6, ContentsProperties
  <2>2. ASSUME NEW k \in 1 .. s.len PROVE Contents(n)[k] = Contents(s)[k]
    <3>1. n.data + k = k
      BY <1>2
    <3>2. CASE k <= Len(n.buf)
      BY <1>2, <2>1, <3>1, <3>2 DEF ByteAt
    <3>3. CASE ~(k <= Len(n.buf))
      BY <2>1, <3>1, <3>3 DEF ByteAt
    <3> QED
      BY <3>2, <3>3
  <2> QED
    BY <1>4, <2>1, <2>2, SeqEqual
<1> QED
  BY <1>3, <1>6, <1>7, <1>8 DEF Moved

\* Two strings, one behind the other.
LEMMA Joined ==
    ASSUME NEW a \in Seq(Byte), NEW b \in Seq(Byte)
    PROVE  /\ a \o b \in Seq(Byte) /\ Len(a \o b) = Len(a) + Len(b)
           /\ \A k \in 1 .. Len(a) : (a \o b)[k] = a[k]
           /\ \A k \in 1 .. Len(b) : (a \o b)[Len(a) + k] = b[k]
<1>1. /\ a \o b \in Seq(Byte) /\ Len(a \o b) = Len(a) + Len(b)
      /\ \A i \in 1 .. Len(a) + Len(b) : (a \o b)[i] = IF i <= Len(a) THEN a[i] ELSE b[i - Len(a)]
  BY ConcatProperties
<1>2. Len(a) \in Nat /\ Len(b) \in Nat
  OBVIOUS
<1>3. ASSUME NEW k \in 1 .. Len(a) PROVE (a \o b)[k] = a[k]
  BY <1>1, <1>2
<1>4. ASSUME NEW k \in 1 .. Len(b) PROVE (a \o b)[Len(a) + k] = b[k]
  <2>1. Len(a) + k \in 1 .. Len(a) + Len(b) /\ ~(Len(a) + k <= Len(a)) /\ Len(a) + k - Len(a) = k
    BY <1>2
  <2> QED
    BY <1>1, <2>1
<1> QED
  BY <1>1, <1>3, <1>4

\* A packet cut in two and put together again.
LEMMA CutAndJoined ==
    ASSUME NEW c \in Seq(Byte), NEW n \in 0 .. Len(c)
    PROVE  /\ SubSeq(c, 1, n) \in Seq(Byte) /\ Len(SubSeq(c, 1, n)) = n
           /\ \A k \in 1 .. n : SubSeq(c, 1, n)[k] = c[k]
           /\ SubSeq(c, 1, n) \o SubSeq(c, n + 1, Len(c)) = c
<1> DEFINE a == SubSeq(c, 1, n)
           b == SubSeq(c, n + 1, Len(c))
<1>1. a \in Seq(Byte) /\ Len(a) = n /\ \A k \in 1 .. n : a[k] = c[k]
  <2>1. 0 \in Nat /\ n \in Nat /\ 0 + n <= Len(c) /\ 0 + 1 = 1 /\ 0 + n = n
    OBVIOUS
  <2>2. /\ SubSeq(c, 0 + 1, 0 + n) \in Seq(Byte) /\ Len(SubSeq(c, 0 + 1, 0 + n)) = n
        /\ \A i \in 1 .. n : SubSeq(c, 0 + 1, 0 + n)[i] = c[0 + i]
    BY <2>1, Slice
  <2> QED
    BY <2>1, <2>2
<1>2. b \in Seq(Byte) /\ Len(b) = Len(c) - n /\ \A k \in 1 .. Len(c) - n : b[k] = c[n + k]
  <2> DEFINE m == Len(c) - n
  <2>1. n \in Nat /\ m \in Nat /\ n + m = Len(c) /\ n + m <= Len(c)
    OBVIOUS
  <2> HIDE DEF m, a, b
  <2>2. /\ SubSeq(c, n + 1, n + m) \in Seq(Byte) /\ Len(SubSeq(c, n + 1, n + m)) = m
        /\ \A i \in 1 .. m : SubSeq(c, n + 1, n + m)[i] = c[n + i]
    BY <2>1, Slice
  <2> QED
    BY <2>1, <2>2 DEF m, b
<1> HIDE DEF a, b
<1>3. /\ a \o b \in Seq(Byte) /\ Len(a \o b) = Len(c)
      /\ \A k \in 1 .. n : (a \o b)[k] = a[k]
      /\ \A k \in 1 .. Len(c) - n : (a \o b)[n + k] = b[k]
  BY <1>1, <1>2, Joined
<1>4. ASSUME NEW i \in 1 .. Len(c) PROVE (a \o b)[i] = c[i]
  <2>1. CASE i <= n
    BY <1>1, <1>3, <2>1
  <2>2. CASE ~(i <= n)
    <3>1. i - n \in 1 .. Len(c) - n /\ n + (i - n) = i
      BY <2>2
    <3> QED
      BY <1>2, <1>3, <3>1
  <2> QED
    BY <2>1, <2>2
<1>5. a \o b = c
  BY <1>3, <1>4, SeqEqual
<1> QED
  BY <1>1, <1>5 DEF a, b

\* How far skb_ip_make_writable() makes the packet writable.
Extent(s, w) ==
    IF s.nonlinear /\ w < s.writable THEN IF s.writable < s.len THEN s.writable ELSE s.len ELSE w

\* What skb_ip_make_writable makes writable lies within the packet, holds what was asked
\* for, and is never less than what was writable.
LEMMA ExtentProperties ==
    ASSUME NEW s, Sound(s), NEW w \in Nat, w <= s.len
    PROVE  /\ Extent(s, w) \in Nat /\ Extent(s, w) <= s.len /\ w <= Extent(s, w)
           /\ s.nonlinear => s.writable <= Extent(s, w) \/ Extent(s, w) = s.len
<1>1. s.len \in Nat /\ s.writable \in Nat
  BY BufferFields DEF Sound, Buffer
<1> QED
  BY <1>1 DEF Extent

\* The packet skb_ip_make_writable() returns.
LEMMA MakeWritableIs ==
    ASSUME NEW s, Sound(s), NEW w \in Nat, w <= s.len
    PROVE  MakeWritable(s, w) =
             IF linear
             THEN [ buf |-> Contents(s), data |-> 0, tail |-> s.len, len |-> s.len,
                    nh |-> s.nh - s.data, extra |-> << >>, writable |-> 0, nonlinear |-> FALSE ]
             ELSE [ buf |-> SubSeq(Contents(s), 1, Extent(s, w)), data |-> 0,
                    tail |-> Extent(s, w), len |-> s.len, nh |-> s.nh - s.data,
                    extra |-> Contents(s), writable |-> Extent(s, w), nonlinear |-> TRUE ]
<1> DEFINE c == Contents(s)
           n == Extent(s, w)
           a == SubSeq(c, 1, n)
           b == SubSeq(c, n + 1, s.len)
           made == nfsim_nonlinear_skb(a, b)
           new == copy_skb_header(made, s)
<1>1. s.len \in Nat /\ s.nh \in Int /\ s.data \in Nat
  BY BufferFields DEF Sound, Buffer
<1>2. c \in Seq(Byte) /\ Len(c) = s.len
  BY ContentsProperties
<1>3. a \o b = c /\ Len(a) = n
  <2>1. n \in 0 .. Len(c)
    BY <1>1, <1>2, ExtentProperties
  <2> HIDE DEF c, n
  <2> QED
    BY <1>2, <2>1, CutAndJoined
<1>4. MakeWritable(s, w) = IF new.nonlinear THEN [new EXCEPT !.writable = n] ELSE new
  BY CopyBitsIsContents DEF MakeWritable, Extent
<1> HIDE DEF c, n, a, b
<1>5. s.nh + 0 - s.data = s.nh - s.data
  BY <1>1
<1>6. CASE linear
  <2>1. made = [ buf |-> c, data |-> 0, tail |-> s.len, len |-> s.len, nh |-> 0, extra |-> << >>,
                 writable |-> 0, nonlinear |-> FALSE ]
    BY <1>2, <1>3, <1>6 DEF nfsim_nonlinear_skb, nfsim_skb, None
  <2> HIDE DEF made
  <2>2. new = [ buf |-> c, data |-> 0, tail |-> s.len, len |-> s.len, nh |-> s.nh - s.data,
                extra |-> << >>, writable |-> 0, nonlinear |-> FALSE ]
    <3>1. made.data = 0
      BY <2>1
    <3>2. new = [made EXCEPT !.nh = s.nh - s.data]
      BY <1>5, <3>1 DEF copy_skb_header
    <3> QED
      BY <2>1, <3>2
  <2> HIDE DEF new
  <2> QED
    BY <1>4, <1>6, <2>2 DEF c
<1>7. CASE ~linear
  <2>1. made = [ buf |-> a, data |-> 0, tail |-> n, len |-> s.len, nh |-> 0, extra |-> c,
                 writable |-> 0, nonlinear |-> TRUE ]
    BY <1>2, <1>3, <1>7 DEF nfsim_nonlinear_skb
  <2> HIDE DEF made
  <2>2. new = [ buf |-> a, data |-> 0, tail |-> n, len |-> s.len, nh |-> s.nh - s.data,
                extra |-> c, writable |-> 0, nonlinear |-> TRUE ]
    <3>1. made.data = 0
      BY <2>1
    <3>2. new = [made EXCEPT !.nh = s.nh - s.data]
      BY <1>5, <3>1 DEF copy_skb_header
    <3> QED
      BY <2>1, <3>2
  <2> HIDE DEF new
  <2>3. MakeWritable(s, w) =
          [ buf |-> a, data |-> 0, tail |-> n, len |-> s.len, nh |-> s.nh - s.data,
            extra |-> c, writable |-> n, nonlinear |-> TRUE ]
    BY <1>4, <2>2
  <2> QED
    BY <1>7, <2>3 DEF a, c, n
<1> QED
  BY <1>6, <1>7

\* skb_ip_make_writable moves the packet: the bytes and the header stay what they were.
LEMMA MakeWritableMoves ==
    ASSUME NEW s, Sound(s), NEW w \in Nat, w <= s.len
    PROVE  Moved(s, MakeWritable(s, w))
<1> DEFINE c == Contents(s)
           n == Extent(s, w)
           new == MakeWritable(s, w)
<1>1. s.len \in Nat /\ s.nh \in Int /\ s.data \in Nat /\ s.nh - s.data \in Int /\ s.len <= Longest
  BY BufferFields DEF Sound, Buffer
<1>2. c \in Seq(Byte) /\ Len(c) = s.len
  BY ContentsProperties
<1>3. n \in Nat /\ n <= s.len
  BY ExtentProperties
<1>4. CASE linear
  <2>1. new = [ buf |-> c, data |-> 0, tail |-> s.len, len |-> s.len, nh |-> s.nh - s.data,
                extra |-> << >>, writable |-> 0, nonlinear |-> FALSE ]
    BY <1>4, MakeWritableIs
  <2> HIDE DEF c, new
  <2>2. << >> \in Seq(Byte) /\ 0 \in Nat /\ FALSE \in BOOLEAN
    OBVIOUS
  <2>3. new \in Buffer
    BY <1>1, <1>2, <2>1, <2>2 DEF Buffer
  <2>4. /\ ~new.nonlinear /\ new.len = s.len /\ new.tail = new.data + new.len
        /\ new.tail <= Len(new.buf) /\ Len(new.buf) <= Longest
        /\ new.extra = << >> /\ new.writable = 0 /\ new.nh - new.data = s.nh - s.data
    BY <1>1, <1>2, <2>1
  <2>5. \A k \in 1 .. s.len : new.buf[new.data + k] = Contents(s)[k]
    BY <1>1, <2>1 DEF c
  <2>6. Moved(s, new)
    BY <2>3, <2>4, <2>5, LinearMove
  <2> QED
    BY <2>6 DEF new
<1>5. CASE ~linear
  <2> DEFINE a == SubSeq(c, 1, n)
  <2>1. new = [ buf |-> a, data |-> 0, tail |-> n, len |-> s.len, nh |-> s.nh - s.data,
                extra |-> c, writable |-> n, nonlinear |-> TRUE ]
    BY <1>5, MakeWritableIs
  <2> HIDE DEF c, new, n
  <2>2. a \in Seq(Byte) /\ Len(a) = n /\ \A k \in 1 .. n : a[k] = c[k]
    <3>1. n \in 0 .. Len(c)
      BY <1>1, <1>2, <1>3
    <3> QED
      BY <1>2, <3>1, CutAndJoined
  <2> HIDE DEF a
  <2>3. new \in Buffer
    BY <1>1, <1>2, <1>3, <2>1, <2>2 DEF Buffer
  <2>4. /\ new.nonlinear /\ new.len = s.len /\ new.data = 0 /\ new.extra = Contents(s)
        /\ new.writable = Len(new.buf) /\ new.tail = Len(new.buf) /\ Len(new.buf) <= s.len
        /\ new.nh = s.nh - s.data
    BY <1>3, <2>1, <2>2 DEF c
  <2>5. \A k \in 1 .. Len(new.buf) : new.buf[k] = Contents(s)[k]
    BY <2>1, <2>2 DEF c
  <2>6. Moved(s, new)
    BY <2>3, <2>4, <2>5, NonlinearMove
  <2> QED
    BY <2>6 DEF new
<1> QED
  BY <1>4, <1>5

\* Asking for write access takes none away.
LEMMA MakeWritableGives ==
    ASSUME NEW s, Sound(s), NEW w \in Nat, w <= s.len, s.nonlinear
    PROVE  /\ WritableBytes(MakeWritable(s, w)) >= WritableBytes(s)
           /\ WritableBytes(MakeWritable(s, w)) >= w
<1> DEFINE n == Extent(s, w)
           new == MakeWritable(s, w)
<1>1. s.len \in Nat /\ s.writable \in Nat /\ s.data \in Nat
  BY BufferFields DEF Sound, Buffer
<1>2. n \in Nat /\ n <= s.len /\ w <= n /\ (s.writable <= n \/ n = s.len)
  BY ExtentProperties
<1>3. \/ ~new.nonlinear /\ new.len = s.len
      \/ new.nonlinear /\ new.len = s.len /\ new.data = 0 /\ new.writable = n
  BY MakeWritableIs
<1> HIDE DEF n, new
<1>4. WritableBytes(new) \in Int /\ WritableBytes(new) >= n
  BY <1>1, <1>2, <1>3 DEF WritableBytes
<1>5. WritableBytes(s) \in Int /\ WritableBytes(s) <= n
  BY <1>1, <1>2 DEF WritableBytes
<1>6. WritableBytes(new) >= WritableBytes(s) /\ WritableBytes(new) >= w
  BY <1>2, <1>4, <1>5
<1> QED
  BY <1>6 DEF new

\* A packet that has become linear, field by field.
LEMMA LinearFields ==
    ASSUME NEW s \in Buffer, NEW b, NEW t, NEW n,
           n = [s EXCEPT !.buf = b, !.tail = t, !.extra = << >>, !.writable = 0,
                         !.nonlinear = FALSE]
    PROVE  n = [ buf |-> b, data |-> s.data, tail |-> t, len |-> s.len, nh |-> s.nh,
                 extra |-> << >>, writable |-> 0, nonlinear |-> FALSE ]
BY DEF Buffer

\* A linear copy of a packet with h bytes in front of it.
LEMMA CopyMoves ==
    ASSUME NEW s, Sound(s), NEW h \in Nat, NEW b \in Seq(Byte), Len(b) <= Longest,
           h + s.len <= Len(b), \A k \in 1 .. s.len : b[h + k] = Contents(s)[k],
           NEW nh \in Int, nh - h = s.nh - s.data, NEW n,
           n = [ buf |-> b, data |-> h, tail |-> h + s.len, len |-> s.len, nh |-> nh,
                 extra |-> << >>, writable |-> 0, nonlinear |-> FALSE ]
    PROVE  Moved(s, n)
<1>1. s.len \in Nat
  BY BufferFields DEF Sound, Buffer
<1>2. n \in Buffer
  <2>1. << >> \in Seq(Byte) /\ 0 \in Nat /\ FALSE \in BOOLEAN /\ h + s.len \in Nat
    BY <1>1
  <2> QED
    BY <1>1, <2>1 DEF Buffer
<1>3. /\ ~n.nonlinear /\ n.len = s.len /\ n.tail = n.data + n.len
      /\ n.tail <= Len(n.buf) /\ Len(n.buf) <= Longest
      /\ n.extra = << >> /\ n.writable = 0 /\ n.nh - n.data = s.nh - s.data
  OBVIOUS
<1>4. \A k \in 1 .. s.len : n.buf[n.data + k] = Contents(s)[k]
  OBVIOUS
<1> QED
  BY <1>2, <1>3, <1>4, LinearMove

\* The bytes of such a copy.
LEMMA Framed ==
    ASSUME NEW head \in Seq(Byte), NEW c \in Seq(Byte), NEW tail \in Seq(Byte)
    PROVE  /\ head \o c \o tail \in Seq(Byte)
           /\ Len(head \o c \o tail) = Len(head) + Len(c) + Len(tail)
           /\ \A k \in 1 .. Len(c) : (head \o c \o tail)[Len(head) + k] = c[k]
<1> DEFINE x == head \o c
<1>1. /\ x \in Seq(Byte) /\ Len(x) = Len(head) + Len(c)
      /\ \A k \in 1 .. Len(c) : x[Len(head) + k] = c[k]
  BY Joined
<1> HIDE DEF x
<1>2. /\ x \o tail \in Seq(Byte) /\ Len(x \o tail) = Len(x) + Len(tail)
      /\ \A k \in 1 .. Len(x) : (x \o tail)[k] = x[k]
  BY <1>1, Joined
<1>3. ASSUME NEW k \in 1 .. Len(c) PROVE (x \o tail)[Len(head) + k] = c[k]
  <2>1. Len(head) + k \in 1 .. Len(x)
    BY <1>1
  <2> QED
    BY <1>1, <1>2, <2>1
<1>4. Len(x \o tail) = Len(head) + Len(c) + Len(tail)
  BY <1>1, <1>2
<1> QED
  BY <1>2, <1>3, <1>4 DEF x

\* A step that moves the packet, and no more, keeps the invariant and is a stutter of the
\* bytes.
LEMMA MovedStep ==
    ASSUME SkbInv, Running, Modified(skb) = {}, Moved(skb, skb'),
           UNCHANGED <<linear, inHook, stained, dead>>
    PROVE  SkbInv' /\ Abstract!Keep
<1>1. Sound(skb') /\ Modified(skb') = {} /\ Contents(skb') = Contents(skb)
      /\ skb'.nh - skb'.data = skb.nh - skb.data
  BY DEF Moved
<1>2. Sound(skb)'
  BY <1>1
<1>3. linear' = linear /\ inHook' = inHook /\ stained' = stained /\ dead' = dead
  OBVIOUS
<1>4. skb' \in SkBuff /\ Inside(skb')
  BY <1>1 DEF Sound
<1>5. AlarmIsTrue /\ SkbTypeOK /\ stained = {}
  BY DEF SkbInv, AlarmIsTrue, InsideItsBuffers
<1>6. SkbTypeOK'
  BY <1>3, <1>4, <1>5, Zenon DEF SkbTypeOK
<1>7. InsideItsBuffers'
  BY <1>4, <1>6 DEF InsideItsBuffers, Inside
<1>8. AlarmIsTrue'
  BY <1>1, <1>3, <1>5, <1>7, Zenon DEF AlarmIsTrue, Running
<1> QED
  BY <1>1, <1>2, <1>8 DEF SkbInv, Abstract!Keep, Abstract!vars

\* nfsim ends: for a modified packet only if there is one.
LEMMA BarfStep ==
    ASSUME SkbInv, Running, NEW why \in {"modified", "overrun", "underrun", "expired"},
           why = "modified" => Modified(skb) # {}, Barf(why)
    PROVE  SkbInv' /\ Abstract!Keep /\ dead' # "no"
<1>1. skb' = skb /\ linear' = linear /\ inHook' = inHook /\ stained' = stained /\ dead' = why
  BY DEF Barf
<1>2. AlarmIsTrue /\ SkbTypeOK /\ InsideItsBuffers /\ stained = Modified(skb) /\ Sound(skb)
  BY DEF SkbInv, AlarmIsTrue, InsideItsBuffers
<1>3. dead' # "no" /\ dead' \in {"no", "modified", "overrun", "underrun", "expired"}
  BY <1>1
<1>4. SkbTypeOK'
  BY <1>1, <1>2, <1>3, Zenon DEF SkbTypeOK
<1>5. InsideItsBuffers' /\ Sound(skb)'
  BY <1>1, <1>2, <1>4 DEF InsideItsBuffers
<1>6. AlarmIsTrue'
  BY <1>1, <1>2, <1>3, <1>5, Zenon DEF AlarmIsTrue, Running
<1> QED
  BY <1>1, <1>3, <1>5, <1>6 DEF SkbInv, Abstract!Keep, Abstract!vars

\* The packet has changed where it may, or where the history knows of it.
LEMMA ChangedStep ==
    ASSUME SkbInv, Sound(skb'), stained' = Modified(skb'), ~inHook' => stained' = {},
           inHook' \in BOOLEAN, UNCHANGED <<linear, dead>>, Running
    PROVE  SkbInv'
<1>1. linear' = linear /\ dead' = dead /\ dead = "no"
  BY DEF Running
<1>2. skb' \in SkBuff /\ Inside(skb')
  BY DEF Sound
<1>3. SkbTypeOK
  BY DEF SkbInv, AlarmIsTrue, InsideItsBuffers
<1>4. stained' \in SUBSET (1 .. Longest)
  <2>1. skb'.buf \in Seq(Byte) /\ Len(skb'.buf) <= Longest /\ DOMAIN skb'.buf = 1 .. Len(skb'.buf)
    BY <1>2, BufferFields DEF Buffer
  <2>2. Modified(skb') \subseteq DOMAIN skb'.buf
    BY DEF Modified
  <2> QED
    BY <2>1, <2>2, Sizes
<1>5. SkbTypeOK'
  BY <1>1, <1>2, <1>3, <1>4, Zenon DEF SkbTypeOK
<1>6. InsideItsBuffers'
  BY <1>2, <1>5 DEF InsideItsBuffers, Inside
<1>7. AlarmIsTrue'
  BY <1>1, <1>6, Zenon DEF AlarmIsTrue, Running
<1> QED
  BY <1>7 DEF SkbInv

\* What the invariant says while nfsim runs.
LEMMA SkbFacts ==
    ASSUME SkbInv, Running
    PROVE  /\ Sound(skb) /\ SkbTypeOK /\ stained = Modified(skb) /\ (~inHook => stained = {})
           /\ inHook \in BOOLEAN /\ linear \in BOOLEAN
           /\ skb \in Buffer /\ Inside(skb) /\ Shape(skb)
           /\ skb.buf \in Seq(Byte) /\ skb.data \in Nat /\ skb.tail \in Nat /\ skb.len \in Nat
           /\ skb.nh \in Int /\ skb.extra \in Seq(Byte) /\ skb.writable \in Nat
           /\ Len(skb.buf) \in Nat /\ Len(skb.extra) \in Nat /\ skb.nonlinear \in BOOLEAN
           /\ Len(skb.buf) <= Longest /\ Len(skb.extra) <= Longest
           /\ skb.data <= Longest /\ skb.len <= Longest /\ skb.writable <= Longest
<1>1. /\ Sound(skb) /\ SkbTypeOK /\ stained = Modified(skb) /\ (~inHook => stained = {})
      /\ inHook \in BOOLEAN /\ linear \in BOOLEAN
  BY DEF SkbInv, AlarmIsTrue, InsideItsBuffers, SkbTypeOK
<1>2. skb \in SkBuff /\ Inside(skb) /\ Shape(skb)
  BY <1>1 DEF Sound
<1>3. skb \in Buffer
  BY <1>2, BufferFields
<1> QED
  BY <1>1, <1>2, <1>3, BufferFields DEF Buffer

\* skb_copy_expand: the copy has other room around it and the same bytes.
LEMMA ExpandStep ==
    ASSUME SkbInv, NEW h \in Nat, NEW t \in Nat, skb_copy_expand(h, t)
    PROVE  SkbInv' /\ Abstract!Keep
<1>1. Running /\ h + skb.len + t <= Longest
  BY DEF skb_copy_expand, Kernel
<1>2. /\ Sound(skb) /\ skb.len \in Nat /\ skb.nh \in Int /\ skb.data \in Nat
  BY <1>1, SkbFacts
<1>3. CASE ~nfsim_check_packet(skb)
  <2>1. Barf("modified") /\ Modified(skb) # {}
    BY <1>3 DEF skb_copy_expand, Checked, nfsim_check_packet
  <2> QED
    BY <1>1, <2>1, BarfStep
<1>4. CASE nfsim_check_packet(skb)
  <2> DEFINE N(head, tail) == [nfsim_skb(head \o skb_copy_bits(skb, 0, skb.len) \o tail)
                                 EXCEPT !.data = h, !.tail = h + skb.len, !.len = skb.len]
  <2>1. PICK head \in [1 .. h -> Byte], tail \in [1 .. t -> Byte] :
            Becomes(copy_skb_header(N(head, tail), skb))
    BY <1>4 DEF skb_copy_expand, Checked
  <2> DEFINE c == Contents(skb)
             b == head \o c \o tail
             made == [nfsim_skb(b) EXCEPT !.data = h, !.tail = h + skb.len, !.len = skb.len]
  <2>2. head \in Seq(Byte) /\ Len(head) = h /\ tail \in Seq(Byte) /\ Len(tail) = t
    OBVIOUS
  <2>3. skb_copy_bits(skb, 0, skb.len) = c
    BY <1>2, CopyBitsIsContents
  <2>4. skb' = copy_skb_header(made, skb) /\ UNCHANGED <<linear, inHook, stained, dead>>
    BY <2>1, <2>3, Zenon DEF Becomes
  <2>5. c \in Seq(Byte) /\ Len(c) = skb.len
    BY <1>2, ContentsProperties
  <2>6. b \in Seq(Byte) /\ Len(b) = h + skb.len + t /\ \A k \in 1 .. skb.len : b[h + k] = c[k]
    <3> HIDE DEF c
    <3>1. /\ b \in Seq(Byte)
          /\ Len(b) = Len(head) + Len(c) + Len(tail)
          /\ \A k \in 1 .. Len(c) : b[Len(head) + k] = c[k]
      BY <2>2, <2>5, Framed
    <3> HIDE DEF b
    <3> QED
      BY <2>2, <2>5, <3>1
  <2> HIDE DEF c, b
  <2>7. made = [ buf |-> b, data |-> h, tail |-> h + skb.len, len |-> skb.len, nh |-> 0,
                 extra |-> << >>, writable |-> 0, nonlinear |-> FALSE ]
    <3> DEFINE last == h + skb.len
               all == skb.len
    <3>1. made = [nfsim_skb(b) EXCEPT !.data = h, !.tail = last, !.len = all]
      OBVIOUS
    <3> HIDE DEF made, last, all
    <3>2. made = [ buf |-> b, data |-> h, tail |-> last, len |-> all, nh |-> 0, extra |-> << >>,
                   writable |-> 0, nonlinear |-> FALSE ]
      BY <3>1 DEF nfsim_skb, None
    <3> QED
      BY <3>2 DEF last, all
  <2> HIDE DEF made
  <2>8. skb' = [ buf |-> b, data |-> h, tail |-> h + skb.len, len |-> skb.len,
                 nh |-> skb.nh + h - skb.data, extra |-> << >>, writable |-> 0,
                 nonlinear |-> FALSE ]
    <3>1. made.data = h
      BY <2>7
    <3>2. skb' = [made EXCEPT !.nh = skb.nh + h - skb.data]
      BY <2>4, <3>1 DEF copy_skb_header
    <3> QED
      BY <2>7, <3>2
  <2>9. /\ skb.nh + h - skb.data \in Int /\ (skb.nh + h - skb.data) - h = skb.nh - skb.data
        /\ Len(b) <= Longest /\ h + skb.len <= Len(b)
    BY <1>1, <1>2, <2>6
  <2>10. Moved(skb, skb')
    <3> DEFINE nh == skb.nh + h - skb.data
               s == skb
               n == skb'
    <3>1. /\ nh \in Int /\ nh - h = s.nh - s.data /\ Len(b) <= Longest /\ h + s.len <= Len(b)
          /\ \A k \in 1 .. s.len : b[h + k] = Contents(s)[k]
          /\ n = [ buf |-> b, data |-> h, tail |-> h + s.len, len |-> s.len, nh |-> nh,
                   extra |-> << >>, writable |-> 0, nonlinear |-> FALSE ]
      BY <2>6, <2>8, <2>9 DEF c
    <3> HIDE DEF nh
    <3> QED
      BY <1>2, <2>6, <3>1, CopyMoves
  <2> QED
    BY <1>1, <1>4, <2>4, <2>10, MovedStep DEF nfsim_check_packet
<1> QED
  BY <1>3, <1>4

\* skb_linearize: the bytes come out of the master copy, in place.
LEMMA LinearizeStep ==
    ASSUME SkbInv, skb_linearize
    PROVE  SkbInv' /\ Abstract!Keep
<1>1. Running
  BY DEF skb_linearize, Kernel
<1>2. /\ Sound(skb) /\ skb.len \in Nat /\ skb.nh \in Int /\ skb.data \in Nat /\ skb \in Buffer
  BY <1>1, SkbFacts
<1>3. CASE ~nfsim_check_packet(skb)
  <2>1. Barf("modified") /\ Modified(skb) # {}
    BY <1>3 DEF skb_linearize, Checked, nfsim_check_packet
  <2> QED
    BY <1>1, <2>1, BarfStep
<1>4. CASE nfsim_check_packet(skb)
  <2> DEFINE h == skb.data
             c == Contents(skb)
             N(new) == [skb EXCEPT !.buf = new, !.tail = Len(new), !.extra = << >>, !.writable = 0,
                                   !.nonlinear = FALSE]
  <2>1. PICK head \in [1 .. h -> Byte] : Becomes(N(head \o skb_copy_bits(skb, 0, skb.len)))
    BY <1>4 DEF skb_linearize, Checked, skb_headroom
  <2>2. head \in Seq(Byte) /\ Len(head) = h /\ h \in Nat
    <3>1. h \in Nat
      BY <1>2
    <3> HIDE DEF h
    <3> QED
      BY <3>1
  <2>3. skb_copy_bits(skb, 0, skb.len) = c
    BY <1>2, CopyBitsIsContents
  <2> DEFINE b == head \o c
  <2>4. skb' = N(b) /\ UNCHANGED <<linear, inHook, stained, dead>>
    BY <2>1, <2>3, Zenon DEF Becomes
  <2>5. c \in Seq(Byte) /\ Len(c) = skb.len
    BY <1>2, ContentsProperties
  <2>6. b \in Seq(Byte) /\ Len(b) = h + skb.len /\ \A k \in 1 .. skb.len : b[h + k] = c[k]
    <3> HIDE DEF c, h
    <3>1. /\ b \in Seq(Byte) /\ Len(b) = Len(head) + Len(c)
          /\ \A k \in 1 .. Len(c) : b[Len(head) + k] = c[k]
      BY <2>2, <2>5, Joined
    <3> HIDE DEF b
    <3> QED
      BY <2>2, <2>5, <3>1
  <2> HIDE DEF c, b
  <2>7. skb' = [ buf |-> b, data |-> h, tail |-> h + skb.len, len |-> skb.len,
                 nh |-> skb.nh, extra |-> << >>, writable |-> 0, nonlinear |-> FALSE ]
    <3> DEFINE t == h + skb.len
    <3>1. skb' = [skb EXCEPT !.buf = b, !.tail = t, !.extra = << >>, !.writable = 0,
                             !.nonlinear = FALSE]
      BY <2>4, <2>6
    <3> HIDE DEF t
    <3>2. skb' = [ buf |-> b, data |-> skb.data, tail |-> t, len |-> skb.len,
                   nh |-> skb.nh, extra |-> << >>, writable |-> 0, nonlinear |-> FALSE ]
      BY <1>2, <3>1, LinearFields
    <3> QED
      BY <3>2 DEF t
  <2>8. Len(b) <= Longest
    BY <1>1, <2>6, SkbFacts, Sizes DEF Inside
  <2>9. Moved(skb, skb')
    <3> DEFINE s == skb
               n == skb'
    <3>1. /\ s.nh \in Int /\ s.nh - h = s.nh - s.data /\ Len(b) <= Longest /\ h + s.len <= Len(b)
          /\ \A k \in 1 .. s.len : b[h + k] = Contents(s)[k]
          /\ n = [ buf |-> b, data |-> h, tail |-> h + s.len, len |-> s.len, nh |-> s.nh,
                   extra |-> << >>, writable |-> 0, nonlinear |-> FALSE ]
      BY <1>2, <2>6, <2>7, <2>8 DEF c
    <3> HIDE DEF h
    <3> QED
      BY <1>2, <2>2, <2>6, <3>1, CopyMoves
  <2> QED
    BY <1>1, <1>4, <2>4, <2>9, MovedStep DEF nfsim_check_packet
<1> QED
  BY <1>3, <1>4

\* skb_ip_make_writable: the packet moves, or the call is refused because it asks for more
\* than there is.
LEMMA MakeWritableStep ==
    ASSUME SkbInv, NEW w \in Nat, skb_ip_make_writable(w)
    PROVE  SkbInv' /\ Abstract!Keep
<1>1. Running
  BY DEF skb_ip_make_writable, Kernel
<1>2. Sound(skb)
  BY <1>1, SkbFacts
<1>3. CASE ~nfsim_check_packet(skb)
  <2>1. Barf("modified") /\ Modified(skb) # {}
    BY <1>3 DEF skb_ip_make_writable, Checked, nfsim_check_packet
  <2> QED
    BY <1>1, <2>1, BarfStep
<1>4. CASE nfsim_check_packet(skb)
  <2>1. w <= skb.len /\ skb' = MakeWritable(skb, w) /\ UNCHANGED <<linear, inHook, stained, dead>>
    BY <1>4 DEF skb_ip_make_writable, Checked, Becomes
  <2>2. Moved(skb, skb')
    BY <1>2, <2>1, MakeWritableMoves
  <2> QED
    BY <1>1, <1>4, <2>1, <2>2, MovedStep DEF nfsim_check_packet
<1> QED
  BY <1>3, <1>4

\* A packet without a byte is the empty string.
LEMMA NothingInNone ==
    Sound(None) /\ Contents(None) = << >> /\ Modified(None) = {} /\ None.nh - None.data = 0
<1>1. None \in Buffer
  <2>1. << >> \in Seq(Byte) /\ 0 \in Nat /\ 0 \in Int /\ FALSE \in BOOLEAN
    OBVIOUS
  <2> QED
    BY <2>1 DEF Buffer, None
<1>2. InReach(None.nh - None.data) /\ None.nh - None.data = 0
  BY Sizes DEF InReach, None
<1>3. None \in SkBuff
  <2>1. /\ Len(None.buf) <= Longest /\ Len(None.extra) <= Longest /\ None.data <= Longest
        /\ None.tail <= Longest /\ None.len <= Longest /\ None.writable <= Longest
    BY Sizes DEF None
  <2> QED
    BY <1>1, <1>2, <2>1, BufferIsSkBuff
<1>4. Sound(None)
  BY <1>2, <1>3 DEF Sound, Shape, Inside, None
<1>5. Contents(None) \in Seq(Byte) /\ Len(Contents(None)) = 0
  BY <1>4, ContentsProperties DEF None
<1>6. Modified(None) = {}
  BY DEF Modified, None
<1> QED
  BY <1>2, <1>4, <1>5, <1>6, EmptySeq

\* Looking at a packet changes nothing, and ends the run if the packet was tampered with.
LEMMA ReadStep ==
    ASSUME SkbInv, Read
    PROVE  SkbInv' /\ Abstract!Keep
<1>1. Running
  BY DEF Read, Kernel
<1>2. CASE ~nfsim_check_packet(skb)
  <2>1. Barf("modified") /\ Modified(skb) # {}
    BY <1>2 DEF Read, Checked, nfsim_check_packet
  <2> QED
    BY <1>1, <2>1, BarfStep
<1>3. CASE nfsim_check_packet(skb)
  <2>1. skb' = skb /\ UNCHANGED <<linear, inHook, stained, dead>>
    BY <1>3 DEF Read, Checked, Becomes
  <2>2. Sound(skb) /\ Modified(skb) = {}
    BY <1>1, <1>3, SkbFacts DEF nfsim_check_packet
  <2>3. Moved(skb, skb')
    BY <2>1, <2>2 DEF Moved
  <2> QED
    BY <1>1, <2>1, <2>2, <2>3, MovedStep
<1> QED
  BY <1>2, <1>3

\* The code under test gets the packet, or gives it back.
LEMMA HookStep ==
    ASSUME SkbInv, CallElemHook \/ HookReturns
    PROVE  SkbInv' /\ Abstract!Keep
<1>1. Running
  BY DEF CallElemHook, HookReturns, Kernel, Nfsim
<1>2. CASE ~nfsim_check_packet(skb)
  <2>1. Barf("modified") /\ Modified(skb) # {}
    BY <1>2 DEF CallElemHook, HookReturns, nfsim_check_packet
  <2> QED
    BY <1>1, <2>1, BarfStep
<1>3. CASE nfsim_check_packet(skb)
  <2>1. skb' = skb /\ inHook' \in BOOLEAN /\ linear' = linear /\ stained' = stained /\ dead' = dead
    BY <1>3, Zenon DEF CallElemHook, HookReturns
  <2>2. Sound(skb) /\ stained = {} /\ Modified(skb) = {}
    BY <1>1, <1>3, SkbFacts DEF nfsim_check_packet
  <2>3. SkbInv'
    <3>1. Sound(skb') /\ stained' = Modified(skb') /\ stained' = {}
      BY <2>1, <2>2
    <3> QED
      BY <1>1, <2>1, <3>1, ChangedStep
  <2>4. Abstract!Keep
    BY <2>1 DEF Abstract!Keep, Abstract!vars
  <2> QED
    BY <2>3, <2>4
<1> QED
  BY <1>2, <1>3

\* kfree_skb: nothing is left, of the packet or of its bytes.
LEMMA FreeStep ==
    ASSUME SkbInv, kfree_skb
    PROVE  SkbInv' /\ Abstract!Gone
<1>1. Running /\ skb' = None /\ inHook' \in BOOLEAN /\ stained' = {} /\ linear' = linear
      /\ dead' = dead
  BY Zenon DEF kfree_skb
<1>2. Sound(skb') /\ Modified(skb') = {} /\ Contents(skb') = << >> /\ skb'.nh - skb'.data = 0
  BY <1>1, NothingInNone
<1>3. SkbInv'
  BY <1>1, <1>2, ChangedStep
<1>4. Abstract!Gone
  BY <1>2, Zenon DEF Abstract!Gone
<1> QED
  BY <1>3, <1>4

\* A string that is the first, or the last, part of another one.
LEMMA FrontIs ==
    ASSUME NEW p \in Seq(Byte), NEW q \in Seq(Byte), Len(p) <= Len(q),
           \A k \in 1 .. Len(p) : p[k] = q[k]
    PROVE  p = SubSeq(q, 1, Len(p))
<1> DEFINE n == Len(p)
           x == SubSeq(q, 1, n)
<1>1. n \in 0 .. Len(q)
  OBVIOUS
<1> HIDE DEF n
<1>2. x \in Seq(Byte) /\ Len(x) = n /\ \A k \in 1 .. n : x[k] = q[k]
  BY <1>1, CutAndJoined
<1> HIDE DEF x
<1>3. Len(p) = Len(x) /\ \A k \in 1 .. Len(p) : p[k] = x[k]
  BY <1>2 DEF n
<1>4. p = x
  BY <1>2, <1>3, SeqEqual
<1> QED
  BY <1>4 DEF x, n

\* A string that agrees with another one counted from the end is its back.
LEMMA BackIs ==
    ASSUME NEW p \in Seq(Byte), NEW q \in Seq(Byte), Len(p) <= Len(q),
           \A k \in 1 .. Len(p) : p[k] = q[(Len(q) - Len(p)) + k]
    PROVE  p = SubSeq(q, Len(q) - Len(p) + 1, Len(q))
<1> DEFINE d == Len(q) - Len(p)
           m == Len(p)
           x == SubSeq(q, d + 1, d + m)
<1>1. d \in Nat /\ m \in Nat /\ d + m = Len(q)
  OBVIOUS
<1>2. \A k \in 1 .. m : p[k] = q[d + k]
  OBVIOUS
<1> HIDE DEF d, m
<1>3. x \in Seq(Byte) /\ Len(x) = m /\ \A k \in 1 .. m : x[k] = q[d + k]
  BY <1>1, Slice
<1>4. x = SubSeq(q, d + 1, Len(q))
  BY <1>1
<1> HIDE DEF x
<1>5. p = x
  <2>1. Len(p) = Len(x) /\ \A k \in 1 .. Len(p) : p[k] = x[k]
    BY <1>2, <1>3 DEF m
  <2> QED
    BY <1>3, <2>1, SeqEqual
<1> QED
  BY <1>4, <1>5 DEF d

\* The packet begins or ends elsewhere in its buffers: skb_put(), skb_push(), skb_pull()
\* and skb_trim().
Resize(d, t, l) ==
    /\ Running /\ d \in Nat /\ t \in Nat /\ l \in Nat
    /\ d <= Longest /\ t <= Longest /\ l <= Longest /\ InReach(skb.nh - d)
    /\ IF skb.nonlinear
       THEN d + l <= Len(skb.extra) /\ (t = d + l \/ t >= Len(skb.buf))
       ELSE d + l = t /\ t <= Len(skb.buf)
    /\ skb' = [skb EXCEPT !.data = d, !.tail = t, !.len = l]
    /\ UNCHANGED <<linear, inHook, stained, dead>>

\* It keeps its bytes and its header pointer.
LEMMA ResizedStep ==
    ASSUME SkbInv, NEW d, NEW t, NEW l, Resize(d, t, l)
    PROVE  /\ SkbInv' /\ skb'.nh = skb.nh /\ skb'.data = d
           /\ Contents(skb') \in Seq(Byte) /\ Len(Contents(skb')) = l
           /\ \A k \in 1 .. l : Contents(skb')[k] = ByteAt(skb, d + k)
           /\ Contents(skb) \in Seq(Byte) /\ Len(Contents(skb)) = skb.len
           /\ \A k \in 1 .. skb.len : Contents(skb)[k] = ByteAt(skb, skb.data + k)
<1> DEFINE n == skb'
<1>r. /\ Running /\ d \in Nat /\ t \in Nat /\ l \in Nat
      /\ d <= Longest /\ t <= Longest /\ l <= Longest /\ InReach(skb.nh - d)
      /\ IF skb.nonlinear
         THEN d + l <= Len(skb.extra) /\ (t = d + l \/ t >= Len(skb.buf))
         ELSE d + l = t /\ t <= Len(skb.buf)
  BY DEF Resize
<1>u. UNCHANGED <<linear, inHook, stained, dead>>
  BY DEF Resize
<1>1. /\ Len(skb.buf) <= Longest /\ Len(skb.extra) <= Longest /\ skb.writable <= Longest
      /\ stained = Modified(skb) /\ (~inHook => stained = {}) /\ inHook \in BOOLEAN
      /\ skb \in Buffer /\ Inside(skb) /\ Sound(skb)
  BY <1>r, SkbFacts
<1>2. /\ n \in Buffer /\ n.buf = skb.buf /\ n.extra = skb.extra /\ n.writable = skb.writable
      /\ n.nonlinear = skb.nonlinear /\ n.nh = skb.nh /\ n.data = d /\ n.tail = t /\ n.len = l
  BY <1>r, <1>1 DEF Buffer, Resize
<1>3. Inside(n) /\ Shape(n)
  BY <1>r, <1>1, <1>2 DEF Inside, Shape
<1>4. n \in SkBuff
  BY <1>r, <1>1, <1>2, BufferIsSkBuff
<1>5. Sound(n)
  BY <1>3, <1>4 DEF Sound
<1>6. Modified(n) = Modified(skb)
  BY <1>2 DEF Modified
<1>7. SkbInv'
  <2>1. Sound(skb') /\ stained' = Modified(skb') /\ (~inHook' => stained' = {})
        /\ inHook' \in BOOLEAN
    BY <1>1, <1>5, <1>6, <1>u
  <2> QED
    BY <1>r, <1>u, <2>1, ChangedStep
<1>8. /\ Contents(n) \in Seq(Byte) /\ Len(Contents(n)) = l
      /\ \A k \in 1 .. l : Contents(n)[k] = ByteAt(n, d + k)
  BY <1>2, <1>5, ContentsProperties
<1>9. \A i : ByteAt(n, i) = ByteAt(skb, i)
  BY <1>2 DEF ByteAt
<1>10. /\ Contents(skb) \in Seq(Byte) /\ Len(Contents(skb)) = skb.len
       /\ \A k \in 1 .. skb.len : Contents(skb)[k] = ByteAt(skb, skb.data + k)
  BY <1>1, ContentsProperties
<1> QED
  BY <1>2, <1>7, <1>8, <1>9, <1>10

\* skb_put: new bytes at the back, and only where there is room for them.
LEMMA PutStep ==
    ASSUME SkbInv, NEW m \in Nat \ {0}, skb_put(m)
    PROVE  SkbInv' /\ Does(Abstract!Put(m))
<1>1. Running
  BY DEF skb_put, Kernel
<1> DEFINE d == skb.data
           t == skb.tail + m
           l == skb.len + m
           p == Contents(skb)
           q == Contents(skb')
<1>2. /\ Inside(skb) /\ Shape(skb) /\ skb \in Buffer /\ skb.nonlinear \in BOOLEAN
      /\ skb.data \in Nat /\ skb.tail \in Nat /\ skb.len \in Nat /\ skb.nh \in Int
      /\ Len(skb.buf) \in Nat /\ Len(skb.extra) \in Nat
      /\ Len(skb.buf) <= Longest /\ skb.data <= Longest
  BY <1>1, SkbFacts
<1>3. CASE skb.tail + m > Len(skb.buf)
  <2>1. Barf("overrun")
    BY <1>3 DEF skb_put
  <2> QED
    BY <1>1, <2>1, BarfStep DEF Does
<1>4. CASE ~(skb.tail + m > Len(skb.buf))
  <2>1. skb' = [skb EXCEPT !.tail = t, !.len = l] /\ UNCHANGED <<linear, inHook, stained, dead>>
    BY <1>4 DEF skb_put, Becomes
  <2>2. skb' = [skb EXCEPT !.data = d, !.tail = t, !.len = l]
    BY <1>2, <2>1 DEF Buffer
  <2>3. skb.data + skb.len = skb.tail /\ t <= Len(skb.buf)
    BY <1>2, <1>4 DEF Inside, Shape
  <2>4. /\ d \in Nat /\ t \in Nat /\ l \in Nat /\ d + l = t
        /\ d <= Longest /\ t <= Longest /\ l <= Longest
    <3>1. d \in Nat /\ t \in Nat /\ l \in Nat
      BY <1>2
    <3>2. d + l = t
      BY <1>2, <2>3
    <3>3. t <= Len(skb.buf) /\ Len(skb.buf) <= Longest /\ Len(skb.buf) \in Nat /\ Longest \in Nat
      BY <1>2, <2>3, Sizes
    <3> HIDE DEF d, t, l
    <3> QED
      BY <3>1, <3>2, <3>3
  <2>5. /\ InReach(skb.nh - d) /\ (skb.nonlinear => d + l <= Len(skb.extra))
    BY <1>2, <2>3, <2>4 DEF Inside, Shape
  <2>6. /\ SkbInv' /\ skb'.nh = skb.nh /\ skb'.data = d
        /\ q \in Seq(Byte) /\ Len(q) = l /\ (\A k \in 1 .. l : q[k] = ByteAt(skb, d + k))
        /\ p \in Seq(Byte) /\ Len(p) = skb.len
        /\ (\A k \in 1 .. skb.len : p[k] = ByteAt(skb, d + k))
    <3>1. Resize(d, t, l)
      BY <1>1, <2>1, <2>2, <2>3, <2>4, <2>5 DEF Resize
    <3> HIDE DEF t, l, d
    <3>2. skb.data = d
      BY DEF d
    <3> QED
      BY <3>1, <3>2, ResizedStep, Zenon
  <2> HIDE DEF p, q
  <2>7. Len(p) <= Len(q) /\ p = SubSeq(q, 1, Len(p))
    <3>1. Len(p) <= Len(q) /\ \A k \in 1 .. Len(p) : p[k] = q[k]
      <4>1. l >= skb.len
        BY <1>2
      <4> HIDE DEF l
      <4> QED
        BY <1>2, <2>4, <2>6, <4>1
    <3> QED
      BY <2>6, <3>1, FrontIs
  <2>8. Abstract!Put(m)
    <3>1. skb'.nh - skb'.data = skb.nh - skb.data
      BY <2>6
    <3>2. Len(q) = Len(p) + m
      BY <2>6
    <3> QED
      BY <2>7, <3>1, <3>2, Zenon DEF Abstract!Put, Abstract!Front, p, q
  <2>9. dead' = "no"
    BY <1>1, <2>1 DEF Running
  <2> QED
    BY <2>6, <2>8, <2>9 DEF Does
<1> QED
  BY <1>3, <1>4

\* skb_push: new bytes in front.
LEMMA PushStep ==
    ASSUME SkbInv, NEW m \in Nat, skb_push(m)
    PROVE  SkbInv' /\ Does(Abstract!Push(m))
<1>1. Running /\ InReach(skb.nh - skb.data + m)
  BY DEF skb_push, Kernel
<1> DEFINE d == skb.data - m
           t == skb.tail
           l == skb.len + m
           p == Contents(skb)
           q == Contents(skb')
<1>2. /\ Inside(skb) /\ Shape(skb) /\ skb \in Buffer /\ skb.nonlinear \in BOOLEAN
      /\ skb.data \in Nat /\ skb.tail \in Nat /\ skb.len \in Nat /\ skb.nh \in Int
      /\ Len(skb.buf) \in Nat /\ Len(skb.extra) \in Nat /\ Len(skb.extra) <= Longest
      /\ Len(skb.buf) <= Longest /\ skb.data <= Longest /\ skb.tail <= Longest
  BY <1>1, SkbFacts, BufferFields DEF Sound
<1>3. CASE m > skb.data
  <2>1. Barf("underrun")
    BY <1>3 DEF skb_push
  <2> QED
    BY <1>1, <2>1, BarfStep DEF Does
<1>4. CASE ~(m > skb.data)
  <2>1. skb' = [skb EXCEPT !.data = d, !.len = l] /\ UNCHANGED <<linear, inHook, stained, dead>>
    BY <1>4 DEF skb_push, Becomes
  <2>2. skb' = [skb EXCEPT !.data = d, !.tail = t, !.len = l]
    BY <1>2, <2>1 DEF Buffer
  <2>3. skb.data + skb.len <= Longest
    BY <1>2, Sizes DEF Inside
  <2>4. /\ d \in Nat /\ t \in Nat /\ l \in Nat /\ d + l = skb.data + skb.len
        /\ d <= Longest /\ t <= Longest /\ l <= Longest
    <3> DEFINE data == skb.data
               len == skb.len
    <3>1. /\ data \in Nat /\ len \in Nat /\ data <= Longest /\ data + len <= Longest
          /\ ~(m > data) /\ Longest \in Nat
      BY <1>2, <1>4, <2>3, Sizes
    <3> HIDE DEF data, len
    <3>2. /\ data - m \in Nat /\ len + m \in Nat /\ (data - m) + (len + m) = data + len
          /\ data - m <= Longest /\ len + m <= Longest
      BY <3>1
    <3> QED
      BY <1>2, <3>2 DEF data, len
  <2>5. skb.nh - d = skb.nh - skb.data + m
    BY <1>2
  <2>6. IF skb.nonlinear
        THEN d + l <= Len(skb.extra) /\ (t = d + l \/ t >= Len(skb.buf))
        ELSE d + l = t /\ t <= Len(skb.buf)
    BY <1>2, <2>4 DEF Inside, Shape
  <2>7. /\ SkbInv' /\ skb'.nh = skb.nh /\ skb'.data = d
        /\ q \in Seq(Byte) /\ Len(q) = l /\ (\A k \in 1 .. l : q[k] = ByteAt(skb, d + k))
        /\ p \in Seq(Byte) /\ Len(p) = skb.len
        /\ (\A k \in 1 .. skb.len : p[k] = ByteAt(skb, skb.data + k))
    <3>1. InReach(skb.nh - d)
      BY <1>1, <2>5
    <3>2. Resize(d, t, l)
      BY <1>1, <2>1, <2>2, <2>4, <2>6, <3>1 DEF Resize
    <3> HIDE DEF d, t, l
    <3> QED
      BY <3>2, ResizedStep, Zenon
  <2> HIDE DEF p, q
  <2>8. Len(p) <= Len(q) /\ p = SubSeq(q, Len(q) - Len(p) + 1, Len(q))
    <3>1. Len(p) <= Len(q) /\ Len(q) - Len(p) = m
      BY <1>2, <2>4, <2>7
    <3>2. ASSUME NEW k \in 1 .. Len(p) PROVE p[k] = q[(Len(q) - Len(p)) + k]
      <4>1. m + k \in 1 .. l /\ d + (m + k) = skb.data + k
        BY <1>2, <2>7, SMTT(60)
      <4> QED
        BY <2>7, <3>1, <4>1
    <3> QED
      BY <2>7, <3>1, <3>2, BackIs
  <2>9. Abstract!Push(m)
    <3>1. skb'.nh - skb'.data = skb.nh - skb.data + m /\ Len(q) = Len(p) + m
      BY <2>5, <2>7
    <3> QED
      BY <2>8, <3>1, Zenon DEF Abstract!Push, Abstract!Back, p, q
  <2>10. dead' = "no"
    BY <1>1, <2>1 DEF Running
  <2> QED
    BY <2>7, <2>9, <2>10 DEF Does
<1> QED
  BY <1>3, <1>4

\* skb_pull: bytes gone from the front, of the master copy as well.
LEMMA PullStep ==
    ASSUME SkbInv, NEW m \in Nat, skb_pull(m)
    PROVE  SkbInv' /\ Abstract!Pull(m)
<1> DEFINE d == skb.data + m
           t == skb.tail
           l == skb.len - m
           p == Contents(skb)
           q == Contents(skb')
<1>1. /\ Running /\ InReach(skb.nh - skb.data - m) /\ m <= skb.len
      /\ skb' = [skb EXCEPT !.data = d, !.len = l] /\ UNCHANGED <<linear, inHook, stained, dead>>
  BY DEF skb_pull, Kernel, Becomes
<1>2. /\ Inside(skb) /\ Shape(skb) /\ skb \in Buffer /\ skb.nonlinear \in BOOLEAN
      /\ skb.data \in Nat /\ skb.tail \in Nat /\ skb.len \in Nat /\ skb.nh \in Int
      /\ Len(skb.buf) \in Nat /\ Len(skb.extra) \in Nat /\ Len(skb.extra) <= Longest
      /\ Len(skb.buf) <= Longest /\ skb.data <= Longest /\ skb.tail <= Longest
  BY <1>1, SkbFacts, BufferFields DEF Sound
<1>3. skb' = [skb EXCEPT !.data = d, !.tail = t, !.len = l]
  BY <1>1, <1>2 DEF Buffer
<1>4. skb.data + skb.len <= Longest
  BY <1>2, Sizes DEF Inside
<1>5. /\ d \in Nat /\ t \in Nat /\ l \in Nat /\ d + l = skb.data + skb.len
      /\ d <= Longest /\ t <= Longest /\ l <= Longest
  <2>1. m <= skb.len /\ skb.data \in Nat /\ skb.len \in Nat /\ skb.tail <= Longest
        /\ skb.tail \in Nat /\ Longest \in Nat
    BY <1>1, <1>2, Sizes
  <2>2. d \in Nat /\ t \in Nat /\ l \in Nat /\ d + l = skb.data + skb.len
    BY <2>1
  <2> QED
    BY <1>4, <2>1, <2>2
<1>6. IF skb.nonlinear
      THEN d + l <= Len(skb.extra) /\ (t = d + l \/ t >= Len(skb.buf))
      ELSE d + l = t /\ t <= Len(skb.buf)
  BY <1>2, <1>5 DEF Inside, Shape
<1>7. /\ SkbInv' /\ skb'.nh = skb.nh /\ skb'.data = d
      /\ q \in Seq(Byte) /\ Len(q) = l /\ (\A k \in 1 .. l : q[k] = ByteAt(skb, d + k))
      /\ p \in Seq(Byte) /\ Len(p) = skb.len
      /\ (\A k \in 1 .. skb.len : p[k] = ByteAt(skb, skb.data + k))
  <2>1. skb.nh - d = skb.nh - skb.data - m
    BY <1>2
  <2>2. InReach(skb.nh - d)
    BY <1>1, <2>1
  <2>3. Resize(d, t, l)
    BY <1>1, <1>3, <1>5, <1>6, <2>2 DEF Resize
  <2> HIDE DEF d, t, l
  <2> QED
    BY <2>3, ResizedStep, Zenon
<1> HIDE DEF p, q
<1>8. Len(q) <= Len(p) /\ q = SubSeq(p, Len(p) - Len(q) + 1, Len(p))
  <2>1. Len(q) <= Len(p) /\ Len(p) - Len(q) = m
    BY <1>2, <1>5, <1>7
  <2>2. ASSUME NEW k \in 1 .. Len(q) PROVE q[k] = p[(Len(p) - Len(q)) + k]
    <3>1. m + k \in 1 .. skb.len /\ skb.data + (m + k) = d + k
      BY <1>2, <1>7
    <3> QED
      BY <1>7, <2>1, <3>1
  <2> QED
    BY <1>7, <2>1, <2>2, BackIs
<1>9. Abstract!Pull(m)
  <2>1. skb'.nh - skb'.data = skb.nh - skb.data - m /\ Len(p) = Len(q) + m
    <3>1. skb'.nh = skb.nh /\ skb'.data = d /\ Len(q) = l /\ Len(p) = skb.len
      BY <1>7
    <3>2. skb.nh - (skb.data + m) = skb.nh - skb.data - m /\ skb.len = (skb.len - m) + m
      BY <1>2
    <3> QED
      BY <3>1, <3>2
  <2> QED
    BY <1>8, <2>1, Zenon DEF Abstract!Pull, Abstract!Back, p, q
<1> QED
  BY <1>7, <1>9

\* skb_trim: bytes gone from the back.
LEMMA TrimStep ==
    ASSUME SkbInv, NEW m \in Nat, skb_trim(m)
    PROVE  SkbInv' /\ Abstract!Trim(m)
<1> DEFINE d == skb.data
           t == skb.data + m
           p == Contents(skb)
           q == Contents(skb')
<1>1. /\ Running /\ m < skb.len
      /\ skb' = [skb EXCEPT !.len = m, !.tail = t] /\ UNCHANGED <<linear, inHook, stained, dead>>
  BY DEF skb_trim, Kernel, Becomes
<1>2. /\ Inside(skb) /\ Shape(skb) /\ skb \in Buffer /\ skb.nonlinear \in BOOLEAN
      /\ skb.data \in Nat /\ skb.tail \in Nat /\ skb.len \in Nat /\ skb.nh \in Int
      /\ Len(skb.buf) \in Nat /\ Len(skb.extra) \in Nat /\ Len(skb.extra) <= Longest
      /\ Len(skb.buf) <= Longest /\ skb.data <= Longest
  BY <1>1, SkbFacts
<1>3. skb' = [skb EXCEPT !.data = d, !.tail = t, !.len = m]
  BY <1>1, <1>2 DEF Buffer
<1>4. skb.data + skb.len <= Longest
  BY <1>2, Sizes DEF Inside
<1>5. d \in Nat /\ t \in Nat /\ d + m = t /\ d <= Longest /\ t <= Longest /\ m <= Longest
  BY <1>1, <1>2, <1>4, Sizes
<1>6. IF skb.nonlinear
      THEN d + m <= Len(skb.extra) /\ (t = d + m \/ t >= Len(skb.buf))
      ELSE d + m = t /\ t <= Len(skb.buf)
  BY <1>1, <1>2, <1>5 DEF Inside
<1>7. /\ SkbInv' /\ skb'.nh = skb.nh /\ skb'.data = d
      /\ q \in Seq(Byte) /\ Len(q) = m /\ (\A k \in 1 .. m : q[k] = ByteAt(skb, d + k))
      /\ p \in Seq(Byte) /\ Len(p) = skb.len
      /\ (\A k \in 1 .. skb.len : p[k] = ByteAt(skb, d + k))
  <2>1. InReach(skb.nh - d)
    BY <1>2 DEF Shape
  <2>2. Resize(d, t, m)
    BY <1>1, <1>3, <1>5, <1>6, <2>1 DEF Resize
  <2> HIDE DEF t
  <2> QED
    BY <2>2, ResizedStep, Zenon
<1> HIDE DEF p, q
<1>8. Len(q) <= Len(p) /\ q = SubSeq(p, 1, Len(q))
  <2>1. Len(q) <= Len(p) /\ \A k \in 1 .. Len(q) : q[k] = p[k]
    BY <1>1, <1>2, <1>7, SMTT(60)
  <2> QED
    BY <1>7, <2>1, FrontIs
<1>9. Abstract!Trim(m)
  <2>1. skb'.nh - skb'.data = skb.nh - skb.data
    BY <1>7
  <2> QED
    BY <1>7, <1>8, <2>1, Zenon DEF Abstract!Trim, Abstract!Front, p, q
<1> QED
  BY <1>7, <1>9

\* n is the packet s with b at place i of its buffer and perhaps of its master.
Written(s, i, b, n) ==
    /\ n \in Buffer /\ i \in 1 .. Len(s.buf) /\ b \in Byte
    /\ n.buf = [s.buf EXCEPT ![i] = b] /\ n.extra \in {s.extra, [s.extra EXCEPT ![i] = b]}
    /\ n.data = s.data /\ n.tail = s.tail /\ n.len = s.len /\ n.nh = s.nh
    /\ n.writable = s.writable /\ n.nonlinear = s.nonlinear

\* A byte written into the buffer, and perhaps into the master copy, leaves every pointer
\* where it was.
LEMMA WrittenSound ==
    ASSUME NEW s, Sound(s), NEW i, NEW b, NEW n, Written(s, i, b, n)
    PROVE  /\ Sound(n) /\ n.nh - n.data = s.nh - s.data
           /\ Len(n.buf) = Len(s.buf) /\ Len(n.extra) = Len(s.extra)
           /\ \A k \in 1 .. Len(s.buf) : n.buf[k] = IF k = i THEN b ELSE s.buf[k]
           /\ \A k \in 1 .. Len(s.extra) : k # i => n.extra[k] = s.extra[k]
<1>1. /\ s.buf \in Seq(Byte) /\ s.extra \in Seq(Byte) /\ Len(s.buf) <= Longest
      /\ Len(s.extra) <= Longest /\ s.data <= Longest /\ s.tail <= Longest /\ s.len <= Longest
      /\ s.writable <= Longest /\ Inside(s) /\ Shape(s)
  BY BufferFields DEF Sound, Buffer
<1>2. /\ i \in 1 .. Len(s.buf) /\ b \in Byte /\ n \in Buffer /\ n.extra \in Seq(Byte)
      /\ n.buf = [s.buf EXCEPT ![i] = b] /\ n.extra \in {s.extra, [s.extra EXCEPT ![i] = b]}
  BY DEF Written, Buffer
<1>3. Len(n.buf) = Len(s.buf) /\ \A k \in 1 .. Len(s.buf) : n.buf[k] = IF k = i THEN b ELSE s.buf[k]
  BY <1>1, <1>2, ExceptSeq
<1>4. Len(n.extra) = Len(s.extra) /\ \A k \in 1 .. Len(s.extra) : k # i => n.extra[k] = s.extra[k]
  <2>1. CASE n.extra = s.extra
    BY <2>1
  <2>2. CASE n.extra = [s.extra EXCEPT ![i] = b]
    <3>1. DOMAIN n.extra = DOMAIN s.extra
          /\ \A k \in DOMAIN s.extra : k # i => n.extra[k] = s.extra[k]
      BY <2>2
    <3>2. DOMAIN s.extra = 1 .. Len(s.extra) /\ DOMAIN n.extra = 1 .. Len(n.extra)
          /\ Len(s.extra) \in Nat /\ Len(n.extra) \in Nat
      BY <1>1, <1>2
    <3> QED
      BY <3>1, <3>2
  <2> QED
    BY <1>2, <2>1, <2>2
<1>5. /\ n.data = s.data /\ n.tail = s.tail /\ n.len = s.len /\ n.nh = s.nh
      /\ n.writable = s.writable /\ n.nonlinear = s.nonlinear
  BY DEF Written
<1>6. Inside(n) /\ Shape(n)
  BY <1>1, <1>3, <1>4, <1>5 DEF Inside, Shape
<1>7. n \in SkBuff
  BY <1>1, <1>2, <1>3, <1>4, <1>5, <1>6, BufferIsSkBuff DEF Shape
<1> QED
  BY <1>3, <1>4, <1>5, <1>6, <1>7 DEF Sound

\* Its bytes change in that place, if it is one of the packet's.
LEMMA WrittenContents ==
    ASSUME NEW s, Sound(s), NEW i, NEW b, NEW n, Written(s, i, b, n)
    PROVE  Contents(n) = [k \in DOMAIN Contents(s) |->
                            IF k = i - s.data THEN b ELSE Contents(s)[k]]
<1> DEFINE p == Contents(s)
           q == Contents(n)
           j == i - s.data
           x == [k \in DOMAIN p |-> IF k = j THEN b ELSE p[k]]
<1>1. /\ Sound(n) /\ Len(n.buf) = Len(s.buf) /\ n.data = s.data /\ n.len = s.len
      /\ (\A k \in 1 .. Len(s.buf) : n.buf[k] = IF k = i THEN b ELSE s.buf[k])
      /\ Len(n.extra) = Len(s.extra)
      /\ \A k \in 1 .. Len(s.extra) : k # i => n.extra[k] = s.extra[k]
  <2>1. n.data = s.data /\ n.len = s.len
    BY DEF Written
  <2> QED
    BY <2>1, WrittenSound
<1>2. /\ s.data \in Nat /\ s.len \in Nat /\ Inside(s) /\ Len(s.buf) \in Nat /\ Len(s.extra) \in Nat
      /\ s.tail \in Nat
  BY BufferFields DEF Sound, Buffer
<1>3. i \in 1 .. Len(s.buf) /\ b \in Byte
  BY DEF Written
<1>4. /\ p \in Seq(Byte) /\ Len(p) = s.len /\ \A k \in 1 .. s.len : p[k] = ByteAt(s, s.data + k)
  BY ContentsProperties
<1>5. /\ q \in Seq(Byte) /\ Len(q) = s.len /\ \A k \in 1 .. s.len : q[k] = ByteAt(n, s.data + k)
  BY <1>1, ContentsProperties
<1>6. j \in Int
  BY <1>2, <1>3
<1> HIDE DEF p, q
<1>7. x \in [1 .. s.len -> Byte] /\ \A k \in 1 .. s.len : x[k] = IF k = j THEN b ELSE p[k]
  <2>1. p \in [1 .. s.len -> Byte]
    BY <1>4
  <2> HIDE DEF j
  <2> QED
    BY <1>3, <2>1
<1>8. ASSUME NEW k \in 1 .. s.len PROVE q[k] = x[k]
  <2> DEFINE r == s.data + k
  <2>1. r \in Nat /\ r >= 1 /\ (k = j <=> r = i)
    BY <1>2, <1>3
  <2>2. q[k] = ByteAt(n, r) /\ p[k] = ByteAt(s, r) /\ x[k] = IF k = j THEN b ELSE p[k]
    BY <1>4, <1>5, <1>7
  <2>3. r <= Len(s.buf) \/ r <= Len(s.extra)
    BY <1>2 DEF Inside
  <2> HIDE DEF r, j, x
  <2>4. CASE r <= Len(s.buf)
    <3>1. ByteAt(n, r) = n.buf[r] /\ ByteAt(s, r) = s.buf[r]
      BY <1>1, <2>4 DEF ByteAt
    <3>2. n.buf[r] = IF r = i THEN b ELSE s.buf[r]
      BY <1>1, <1>2, <2>1, <2>4
    <3> QED
      BY <2>1, <2>2, <3>1, <3>2
  <2>5. CASE ~(r <= Len(s.buf))
    <3>1. ByteAt(n, r) = n.extra[r] /\ ByteAt(s, r) = s.extra[r]
      BY <1>1, <2>5 DEF ByteAt
    <3>2. r # i /\ n.extra[r] = s.extra[r]
      BY <1>1, <1>2, <1>3, <2>1, <2>3, <2>5
    <3> QED
      BY <2>1, <2>2, <3>1, <3>2
  <2> QED
    BY <2>4, <2>5
<1> HIDE DEF x
<1>9. q = x
  <2>1. x \in [1 .. s.len -> Byte]
    BY <1>7
  <2>2. \A k \in 1 .. s.len : q[k] = x[k]
    BY <1>8
  <2>3. x \in Seq(Byte) /\ Len(x) = s.len
    BY <1>2, <2>1
  <2> QED
    BY <1>5, <2>2, <2>3, SeqEqual
<1> QED
  BY <1>9 DEF x, p, q, j

\* The step of the string of bytes that this is.
LEMMA WrittenStep ==
    ASSUME NEW i, NEW b, Sound(skb), Written(skb, i, b, skb')
    PROVE  Abstract!Write(i - skb.data, b)
<1>1. skb'.nh - skb'.data = skb.nh - skb.data
  BY WrittenSound
<1>2. Contents(skb') = [k \in DOMAIN Contents(skb) |->
                          IF k = i - skb.data THEN b ELSE Contents(skb)[k]]
  BY WrittenContents
<1> QED
  BY <1>1, <1>2, Zenon DEF Abstract!Write

\* Whether a place counts as modified after it has been written.
LEMMA WrittenModified ==
    ASSUME NEW s, Sound(s), NEW i, NEW b, NEW n, Written(s, i, b, n)
    PROVE  /\ Modified(n) \ {i} = Modified(s) \ {i}
           /\ i \in Modified(n) <=> s.nonlinear /\ i > s.writable /\ b # n.extra[i]
<1>1. /\ Sound(n) /\ Len(n.buf) = Len(s.buf) /\ n.nonlinear = s.nonlinear
      /\ n.writable = s.writable /\ n.buf \in Seq(Byte) /\ s.buf \in Seq(Byte)
      /\ Len(s.buf) \in Nat /\ Len(s.extra) \in Nat
  <2>1. Sound(n) /\ Len(n.buf) = Len(s.buf)
    BY WrittenSound
  <2>2. n.nonlinear = s.nonlinear /\ n.writable = s.writable /\ n \in Buffer
    BY DEF Written
  <2>3. s \in Buffer
    BY BufferFields DEF Sound
  <2> QED
    BY <2>1, <2>2, <2>3 DEF Buffer
<1>2. /\ \A k \in 1 .. Len(s.buf) : n.buf[k] = IF k = i THEN b ELSE s.buf[k]
      /\ \A k \in 1 .. Len(s.extra) : k # i => n.extra[k] = s.extra[k]
  BY WrittenSound
<1>3. i \in 1 .. Len(s.buf) /\ Inside(s)
  BY DEF Written, Sound
<1>4. DOMAIN n.buf = 1 .. Len(s.buf) /\ DOMAIN s.buf = 1 .. Len(s.buf)
  BY <1>1
<1>5. CASE s.nonlinear
  <2>1. Len(s.buf) <= Len(s.extra)
    BY <1>3, <1>5 DEF Inside
  <2>2. \A k : k \in Modified(n) <=> k \in 1 .. Len(s.buf) /\ k > s.writable
                /\ n.buf[k] # n.extra[k]
    BY <1>1, <1>4, <1>5 DEF Modified
  <2>3. \A k : k \in Modified(s) <=> k \in 1 .. Len(s.buf) /\ k > s.writable
                /\ s.buf[k] # s.extra[k]
    BY <1>4, <1>5 DEF Modified
  <2>4. ASSUME NEW k \in 1 .. Len(s.buf), k # i PROVE n.buf[k] = s.buf[k] /\ n.extra[k] = s.extra[k]
    BY <1>1, <1>2, <2>1, <2>4
  <2>5. \A k : k # i => (k \in Modified(n) <=> k \in Modified(s))
    BY <2>2, <2>3, <2>4
  <2>6. n.buf[i] = b
    BY <1>2, <1>3
  <2>7. i \in Modified(n) <=> i > s.writable /\ b # n.extra[i]
    BY <1>3, <2>2, <2>6
  <2> QED
    BY <1>5, <2>5, <2>7
<1>6. CASE ~s.nonlinear
  BY <1>1, <1>6 DEF Modified
<1> QED
  BY <1>5, <1>6

\* The code under test writes a byte: where it may not, the place is stained.
LEMMA StoreStep ==
    ASSUME SkbInv, NEW i, NEW b \in Byte, Store(i, b)
    PROVE  SkbInv' /\ Abstract!Write(i - skb.data, b)
<1>1. /\ Running /\ i \in DOMAIN skb.buf /\ skb' = [skb EXCEPT !.buf[i] = b]
      /\ linear' = linear /\ inHook' = inHook /\ dead' = dead /\ inHook
      /\ stained' = IF skb.nonlinear /\ i > skb.writable
                    THEN IF b = skb.extra[i] THEN stained \ {i} ELSE stained \cup {i}
                    ELSE stained
  BY DEF Store, Kernel
<1>2. /\ Sound(skb) /\ stained = Modified(skb) /\ skb \in Buffer /\ skb.buf \in Seq(Byte)
      /\ inHook \in BOOLEAN
  BY <1>1, SkbFacts
<1>3. i \in 1 .. Len(skb.buf)
  BY <1>1, <1>2
<1>4. [skb.buf EXCEPT ![i] = b] \in Seq(Byte)
  BY <1>2, <1>3, ExceptSeq
<1>5. Written(skb, i, b, skb') /\ skb'.extra = skb.extra
  <2>1. skb' = [skb EXCEPT !.buf = [skb.buf EXCEPT ![i] = b]]
    BY <1>1, <1>2 DEF Buffer
  <2> DEFINE x == [skb.buf EXCEPT ![i] = b]
  <2>2. x \in Seq(Byte) /\ skb' = [skb EXCEPT !.buf = x]
    BY <1>4, <2>1
  <2> HIDE DEF x
  <2>3. skb' \in Buffer /\ skb'.buf = x /\ skb'.extra = skb.extra
        /\ skb'.data = skb.data /\ skb'.tail = skb.tail /\ skb'.len = skb.len /\ skb'.nh = skb.nh
        /\ skb'.writable = skb.writable /\ skb'.nonlinear = skb.nonlinear
    BY <1>2, <2>2 DEF Buffer
  <2> QED
    BY <1>3, <2>3 DEF Written, x
<1>6. Sound(skb')
  BY <1>2, <1>5, WrittenSound
<1>7. stained' = Modified(skb')
  <2>1. /\ Modified(skb') \ {i} = Modified(skb) \ {i}
        /\ i \in Modified(skb') <=> skb.nonlinear /\ i > skb.writable /\ b # skb.extra[i]
    BY <1>2, <1>5, WrittenModified
  <2>2. ~(skb.nonlinear /\ i > skb.writable) => i \notin Modified(skb)
    BY DEF Modified
  <2>3. \A k : k \in stained' <=> k \in Modified(skb')
    BY <1>1, <1>2, <2>1, <2>2
  <2> QED
    BY <2>3
<1>8. Abstract!Write(i - skb.data, b)
  BY <1>2, <1>5, WrittenStep
<1>9. SkbInv'
  BY <1>1, <1>2, <1>6, <1>7, ChangedStep
<1> QED
  BY <1>8, <1>9

\* ip_forward(): nfsim tells the master.
LEMMA ForwardStep ==
    ASSUME SkbInv, NEW b \in Byte, IpForward(b)
    PROVE  SkbInv' /\ Does(Abstract!Write(1, b))
<1> DEFINE i == HeaderAt(skb)
           s1 == [skb EXCEPT !.buf[i] = b]
           n == nfsim_update_skb(s1, i)
<1>1. /\ Running /\ ~inHook /\ i \in DOMAIN skb.buf
      /\ IF nfsim_check_packet(n) THEN Becomes(n) ELSE Barf("modified")
  BY DEF IpForward, Nfsim
<1>2. /\ Sound(skb) /\ stained = {} /\ Modified(skb) = {} /\ skb \in Buffer
      /\ skb.buf \in Seq(Byte) /\ skb.extra \in Seq(Byte) /\ Inside(skb) /\ inHook \in BOOLEAN
      /\ skb.nonlinear \in BOOLEAN
  BY <1>1, SkbFacts
<1>3. i \in 1 .. Len(skb.buf) /\ i - skb.data = 1
  <2>1. i \in 1 .. Len(skb.buf)
    BY <1>1, <1>2
  <2>2. skb.nh = skb.data /\ skb.nh \in Int
    BY <1>1, SkbFacts DEF IpForward
  <2> QED
    BY <2>1, <2>2 DEF HeaderAt
<1> HIDE DEF i
<1> DEFINE x == [skb.buf EXCEPT ![i] = b]
           y == [skb.extra EXCEPT ![i] = b]
<1>4. x \in Seq(Byte) /\ x[i] = b
  BY <1>2, <1>3, ExceptSeq
<1>5. /\ s1 \in Buffer /\ s1.buf = x /\ s1.extra = skb.extra
      /\ s1.data = skb.data /\ s1.tail = skb.tail /\ s1.len = skb.len /\ s1.nh = skb.nh
      /\ s1.writable = skb.writable /\ s1.nonlinear = skb.nonlinear
  <2>1. s1 = [skb EXCEPT !.buf = x]
    BY <1>2 DEF Buffer
  <2> HIDE DEF x, s1
  <2> QED
    BY <1>2, <1>4, <2>1 DEF Buffer
<1> HIDE DEF s1
<1>6. Written(skb, i, b, n) /\ (skb.nonlinear /\ i > skb.writable => n.extra[i] = b)
  <2>1. CASE skb.nonlinear /\ i > skb.writable
    <3>1. i \in 1 .. Len(skb.extra)
      BY <1>2, <1>3, <2>1 DEF Inside
    <3>2. y \in Seq(Byte) /\ y[i] = b
      BY <1>2, <3>1, ExceptSeq
    <3>3. n = [s1 EXCEPT !.extra[i] = b]
      BY <1>4, <1>5, <2>1 DEF nfsim_update_skb
    <3>4. n = [s1 EXCEPT !.extra = y]
      BY <1>5, <3>3 DEF Buffer
    <3> HIDE DEF n, x, y
    <3>5. /\ n \in Buffer /\ n.buf = x /\ n.extra = y
          /\ n.data = skb.data /\ n.tail = skb.tail /\ n.len = skb.len /\ n.nh = skb.nh
          /\ n.writable = skb.writable /\ n.nonlinear = skb.nonlinear
      BY <1>5, <3>2, <3>4 DEF Buffer
    <3> QED
      BY <1>3, <3>2, <3>5 DEF Written, x, y
  <2>2. CASE ~(skb.nonlinear /\ i > skb.writable)
    <3>1. n = s1
      BY <1>5, <2>2 DEF nfsim_update_skb
    <3> HIDE DEF n
    <3> QED
      BY <1>3, <1>5, <2>2, <3>1 DEF Written
  <2> QED
    BY <2>1, <2>2
<1> HIDE DEF n
<1>7. Sound(n)
  BY <1>2, <1>6, WrittenSound
<1>8. Modified(n) = {}
  <2>1. /\ Modified(n) \ {i} = Modified(skb) \ {i}
        /\ i \in Modified(n) <=> skb.nonlinear /\ i > skb.writable /\ b # n.extra[i]
    BY <1>2, <1>6, WrittenModified
  <2> QED
    BY <1>2, <1>6, <2>1
<1>9. skb' = n /\ linear' = linear /\ inHook' = inHook /\ stained' = stained /\ dead' = dead
  BY <1>1, <1>8 DEF nfsim_check_packet, Becomes
<1>10. Does(Abstract!Write(1, b))
  <2>1. Abstract!Write(i - skb.data, b)
    BY <1>2, <1>6, <1>9, WrittenStep
  <2>2. dead' = "no"
    BY <1>1, <1>9 DEF Running
  <2> QED
    BY <1>3, <2>1, <2>2 DEF Does
<1>11. SkbInv'
  BY <1>1, <1>2, <1>7, <1>8, <1>9, ChangedStep
<1> QED
  BY <1>10, <1>11

\* ip_forward() of a packet whose time is over.
LEMMA ExpiredStep ==
    ASSUME SkbInv, NEW b, IpForwardExpired(b)
    PROVE  SkbInv' /\ Does(Abstract!Gone)
<1>1. Running /\ ~inHook /\ (Becomes(None) \/ Barf("expired"))
  BY DEF IpForwardExpired, Nfsim
<1>2. stained = {} /\ inHook \in BOOLEAN
  BY <1>1, SkbFacts
<1>3. CASE Barf("expired")
  BY <1>1, <1>3, BarfStep DEF Does
<1>4. CASE Becomes(None)
  <2>1. skb' = None /\ linear' = linear /\ inHook' = inHook /\ stained' = stained /\ dead' = dead
    BY <1>4 DEF Becomes
  <2>2. Sound(skb') /\ Modified(skb') = {} /\ Contents(skb') = << >>
        /\ skb'.nh - skb'.data = 0
    BY <2>1, NothingInNone
  <2>3. SkbInv'
    BY <1>1, <1>2, <2>1, <2>2, ChangedStep
  <2>4. Does(Abstract!Gone)
    <3>1. Abstract!Gone
      BY <2>2, Zenon DEF Abstract!Gone
    <3>2. dead' = "no"
      BY <1>1, <2>1 DEF Running
    <3> QED
      BY <3>1, <3>2 DEF Does
  <2> QED
    BY <2>3, <2>4
<1> QED
  BY <1>1, <1>3, <1>4

\* A new packet, of whatever bytes.
LEMMA ArrivalStep ==
    ASSUME SkbInv, Running, ~inHook, skb = None, NEW n, Becomes(n), Sound(n), Modified(n) = {},
           NEW p \in Seq(Byte), n.len = Len(p), n.nh = n.data,
           \A k \in 1 .. Len(p) : ByteAt(n, n.data + k) = p[k]
    PROVE  SkbInv' /\ Abstract!New(p)
<1>1. skb' = n /\ linear' = linear /\ inHook' = inHook /\ stained' = stained /\ dead' = dead
  BY DEF Becomes
<1>2. stained = {} /\ inHook \in BOOLEAN
  BY SkbFacts
<1>3. SkbInv'
  BY <1>1, <1>2, ChangedStep
<1>4. Contents(skb) = << >>
  BY NothingInNone
<1>5. Contents(n) = p
  <2>1. /\ Contents(n) \in Seq(Byte) /\ Len(Contents(n)) = Len(p)
        /\ \A k \in 1 .. Len(p) : Contents(n)[k] = p[k]
    BY ContentsProperties
  <2> QED
    BY <2>1, SeqEqual
<1>6. n.nh - n.data = 0
  BY BufferFields DEF Sound, Buffer
<1>7. Contents(skb') = p /\ skb'.nh - skb'.data = 0
  BY <1>1, <1>5, <1>6
<1> QED
  BY <1>3, <1>4, <1>7, Zenon DEF Abstract!New

\* A script sends a packet, split into a linear part and the rest at any place.
LEMMA SendStep ==
    ASSUME SkbInv, NEW m \in 1 .. MaxLen, NEW all \in [1 .. m -> Byte], NEW k \in 1 .. m,
           SendPacket(SubSeq(all, 1, k), SubSeq(all, k + 1, m))
    PROVE  SkbInv' /\ Abstract!New(all)
<1> DEFINE a == SubSeq(all, 1, k)
           b == SubSeq(all, k + 1, m)
           n == nfsim_nonlinear_skb(a, b)
<1>1. all \in Seq(Byte) /\ Len(all) = m /\ k \in 0 .. Len(all) /\ m \in Nat /\ k \in Nat
      /\ m <= MaxLen
  BY Sizes
<1>2. a \in Seq(Byte) /\ Len(a) = k /\ (\A j \in 1 .. k : a[j] = all[j]) /\ a \o b = all
  BY <1>1, CutAndJoined
<1>3. Running /\ ~inHook /\ skb = None /\ Becomes(n)
  BY DEF SendPacket
<1>4. m <= Longest /\ k <= Longest /\ 0 <= Longest /\ MaxLen \in Nat
  BY <1>1, Sizes
<1> HIDE DEF a, b
<1>5. << >> \in Seq(Byte) /\ Len(<< >>) = 0 /\ 0 \in Nat /\ 0 \in Int /\ TRUE \in BOOLEAN
      /\ FALSE \in BOOLEAN /\ 0 - 0 = 0
  OBVIOUS
<1>6. /\ Sound(n) /\ Modified(n) = {} /\ n.len = m /\ n.nh = n.data
      /\ \A j \in 1 .. m : ByteAt(n, n.data + j) = all[j]
  <2>1. CASE linear
    <3>1. n = [ buf |-> all, data |-> 0, tail |-> m, len |-> m, nh |-> 0, extra |-> << >>,
                writable |-> 0, nonlinear |-> FALSE ]
      BY <1>1, <1>2, <2>1 DEF nfsim_nonlinear_skb, nfsim_skb, None
    <3> HIDE DEF n
    <3>2. n \in Buffer
      BY <1>1, <1>5, <3>1 DEF Buffer
    <3>3. InReach(n.nh - n.data)
      BY <1>4, <3>1 DEF InReach
    <3>4. n \in SkBuff
      BY <1>1, <1>4, <1>5, <3>1, <3>2, <3>3, BufferIsSkBuff
    <3>5. Inside(n) /\ Shape(n)
      BY <1>1, <3>1, <3>3 DEF Inside, Shape
    <3>6. Modified(n) = {}
      BY <3>1 DEF Modified
    <3>7. /\ n.len = m /\ n.nh = n.data
          /\ \A j \in 1 .. m : ByteAt(n, n.data + j) = all[j]
      BY <1>1, <3>1 DEF ByteAt
    <3> QED
      BY <3>4, <3>5, <3>6, <3>7 DEF Sound
  <2>2. CASE ~linear
    <3>1. n = [ buf |-> a, data |-> 0, tail |-> k, len |-> m, nh |-> 0, extra |-> all,
                writable |-> 0, nonlinear |-> TRUE ]
      BY <1>1, <1>2, <2>2 DEF nfsim_nonlinear_skb
    <3> HIDE DEF n
    <3>2. n \in Buffer
      BY <1>1, <1>2, <1>5, <3>1 DEF Buffer
    <3>3. InReach(n.nh - n.data)
      BY <1>4, <3>1 DEF InReach
    <3>4. n \in SkBuff
      BY <1>1, <1>2, <1>4, <1>5, <3>1, <3>2, <3>3, BufferIsSkBuff
    <3>5. Inside(n) /\ Shape(n)
      BY <1>1, <1>2, <3>1, <3>3 DEF Inside, Shape
    <3>6. Modified(n) = {}
      <4>1. DOMAIN a = 1 .. k
        BY <1>2
      <4> QED
        BY <1>2, <3>1, <4>1 DEF Modified
    <3>7. /\ n.len = m /\ n.nh = n.data
          /\ \A j \in 1 .. m : ByteAt(n, n.data + j) = all[j]
      BY <1>1, <1>2, <3>1 DEF ByteAt
    <3> QED
      BY <3>4, <3>5, <3>6, <3>7 DEF Sound
  <2> QED
    BY <2>1, <2>2
<1> HIDE DEF n
<1> QED
  BY <1>1, <1>3, <1>6, ArrivalStep

\* The code under test makes a packet of its own (alloc_skb, with headroom).
LEMMA AllocStep ==
    ASSUME SkbInv, NEW m \in 1 .. MaxLen, NEW data \in [1 .. m -> Byte], NEW room \in 0 .. MaxRoom,
           AllocSkb(room, data)
    PROVE  SkbInv' /\ Abstract!New(data)
<1> DEFINE N(head) == [nfsim_skb(head \o data) EXCEPT !.data = room, !.tail = room + Len(data),
                                                      !.len = Len(data), !.nh = room]
<1>1. Running /\ ~inHook /\ skb = None
  BY DEF AllocSkb
<1>2. PICK head \in [1 .. room -> Byte] : Becomes(N(head))
  BY DEF AllocSkb
<1> DEFINE b == head \o data
           n == N(head)
<1>3. /\ m \in Nat /\ room \in Nat /\ m <= MaxLen /\ room <= MaxRoom /\ MaxLen \in Nat
      /\ Longest \in Nat /\ room + m <= Longest /\ room <= Longest /\ m <= Longest /\ 0 <= Longest
  BY SkbAssumption DEF Longest
<1>4. data \in Seq(Byte) /\ Len(data) = m /\ head \in Seq(Byte) /\ Len(head) = room
  BY <1>3
<1>5. b \in Seq(Byte) /\ Len(b) = room + m /\ \A k \in 1 .. m : b[room + k] = data[k]
  <2>1. b \in Seq(Byte) /\ Len(b) = Len(head) + Len(data)
        /\ \A k \in 1 .. Len(data) : b[Len(head) + k] = data[k]
    BY <1>4, Joined
  <2> QED
    BY <1>4, <2>1
<1>6. n = [ buf |-> b, data |-> room, tail |-> room + m, len |-> m, nh |-> room, extra |-> << >>,
            writable |-> 0, nonlinear |-> FALSE ]
  <2> DEFINE t == room + m
  <2>1. n = [nfsim_skb(b) EXCEPT !.data = room, !.tail = t, !.len = m, !.nh = room]
    BY <1>4, Zenon
  <2> HIDE DEF n, b, t
  <2>2. n = [ buf |-> b, data |-> room, tail |-> t, len |-> m, nh |-> room, extra |-> << >>,
              writable |-> 0, nonlinear |-> FALSE ]
    BY <2>1 DEF nfsim_skb, None
  <2> QED
    BY <2>2 DEF t
<1>7. Becomes(n)
  BY <1>2
<1> HIDE DEF n, b
<1>8. n \in Buffer
  <2>1. << >> \in Seq(Byte) /\ 0 \in Nat /\ FALSE \in BOOLEAN /\ room + m \in Nat /\ room \in Int
    BY <1>3
  <2> QED
    BY <1>3, <1>5, <1>6, <2>1 DEF Buffer
<1>9. InReach(n.nh - n.data)
  BY <1>3, <1>6 DEF InReach
<1>10. n \in SkBuff
  <2>1. /\ Len(n.buf) <= Longest /\ Len(n.extra) <= Longest /\ n.data <= Longest
        /\ n.tail <= Longest /\ n.len <= Longest /\ n.writable <= Longest
    BY <1>3, <1>5, <1>6
  <2> QED
    BY <1>8, <1>9, <2>1, BufferIsSkBuff
<1>11. Inside(n) /\ Shape(n) /\ Modified(n) = {}
  BY <1>3, <1>5, <1>6, <1>9 DEF Inside, Shape, Modified
<1>12. /\ n.len = m /\ n.nh = n.data
       /\ \A k \in 1 .. m : ByteAt(n, n.data + k) = data[k]
  BY <1>3, <1>5, <1>6 DEF ByteAt
<1> QED
  BY <1>1, <1>4, <1>7, <1>10, <1>11, <1>12, ArrivalStep DEF Sound

\* Every step keeps the invariant.
LEMMA SkbStep ==
    ASSUME SkbInv, [SkbNext]_skbVars
    PROVE  SkbInv'
<1>1. CASE UNCHANGED skbVars
  <2>1. skb' = skb /\ linear' = linear /\ inHook' = inHook /\ stained' = stained /\ dead' = dead
    BY <1>1 DEF skbVars
  <2>2. SkbTypeOK' /\ Sound(skb)'
    BY <2>1, Zenon DEF SkbInv, AlarmIsTrue, InsideItsBuffers, SkbTypeOK
  <2>3. InsideItsBuffers'
    BY <2>1, <2>2 DEF SkbInv, AlarmIsTrue, InsideItsBuffers
  <2>4. AlarmIsTrue'
    BY <2>1, <2>3, Zenon DEF SkbInv, AlarmIsTrue, Running
  <2> QED
    BY <2>1, <2>2, <2>4 DEF SkbInv
<1>2. ASSUME NEW m \in 1 .. MaxLen PROVE m \in Nat \ {0} /\ m \in Nat /\ m - 1 \in Nat
  BY Sizes
<1>3. ASSUME NEW m \in 1 .. MaxLen,
             skb_put(m) \/ skb_push(m) \/ skb_pull(m) \/ skb_trim(m - 1) \/ skb_ip_make_writable(m)
      PROVE  SkbInv'
  BY <1>2, <1>3, PutStep, PushStep, PullStep, TrimStep, MakeWritableStep
<1>4. ASSUME NEW h \in 0 .. MaxRoom, NEW t \in 0 .. MaxRoom, skb_copy_expand(h, t)
      PROVE  SkbInv'
  <2>1. h \in Nat /\ t \in Nat
    BY Sizes
  <2> QED
    BY <1>4, <2>1, ExpandStep
<1>5. ASSUME NEW b \in Byte,
             IpForward(b) \/ IpForwardExpired(b) \/ \E i \in DOMAIN skb.buf : Store(i, b)
      PROVE  SkbInv'
  BY <1>5, ForwardStep, ExpiredStep, StoreStep
<1>6. CASE CallElemHook \/ HookReturns \/ kfree_skb \/ Read \/ skb_linearize
  BY <1>6, HookStep, FreeStep, ReadStep, LinearizeStep
<1>7. CASE SkbNext
  BY <1>3, <1>4, <1>5, <1>6, <1>7, SendStep, AllocStep DEF SkbNext
<1> QED
  BY <1>1, <1>7

\* And does to the bytes what its routine is for.
LEMMA BytesAsAsked ==
    ASSUME SkbInv
    PROVE  AsAsked
<1>1. CallElemHook \/ HookReturns \/ Read \/ skb_linearize => Abstract!Keep
  BY HookStep, ReadStep, LinearizeStep
<1>2. \A h, t \in 0 .. MaxRoom : skb_copy_expand(h, t) => Abstract!Keep
  <2>1. SUFFICES ASSUME NEW h \in 0 .. MaxRoom, NEW t \in 0 .. MaxRoom, skb_copy_expand(h, t)
                 PROVE  Abstract!Keep
    OBVIOUS
  <2>2. h \in Nat /\ t \in Nat
    BY Sizes
  <2> QED
    BY <2>1, <2>2, ExpandStep
<1>3. \A n \in 1 .. MaxLen :
        /\ skb_ip_make_writable(n) => Abstract!Keep
        /\ skb_put(n) => Does(Abstract!Put(n))
        /\ skb_push(n) => Does(Abstract!Push(n))
        /\ skb_pull(n) => Abstract!Pull(n)
        /\ skb_trim(n - 1) => Abstract!Trim(n - 1)
  <2>1. TAKE n \in 1 .. MaxLen
  <2>2. n \in Nat \ {0} /\ n \in Nat /\ n - 1 \in Nat
    BY Sizes
  <2>3. skb_ip_make_writable(n) => Abstract!Keep
    BY <2>2, MakeWritableStep
  <2>4. skb_put(n) => Does(Abstract!Put(n))
    BY <2>2, PutStep
  <2>5. skb_push(n) => Does(Abstract!Push(n))
    BY <2>2, PushStep
  <2>6. skb_pull(n) => Abstract!Pull(n)
    BY <2>2, PullStep
  <2>7. skb_trim(n - 1) => Abstract!Trim(n - 1)
    BY <2>2, TrimStep
  <2> QED
    BY <2>3, <2>4, <2>5, <2>6, <2>7
<1>4. \A b \in Byte :
        /\ \A i \in DOMAIN skb.buf : Store(i, b) => Abstract!Write(i - skb.data, b)
        /\ IpForward(b) => Does(Abstract!Write(1, b))
        /\ IpForwardExpired(b) => Does(Abstract!Gone)
  BY StoreStep, ForwardStep, ExpiredStep
<1>5. kfree_skb => Abstract!Gone
  BY FreeStep
<1>6. \A m \in 1 .. MaxLen : \A p \in [1 .. m -> Byte] :
        /\ \A k \in 1 .. m : SendPacket(SubSeq(p, 1, k), SubSeq(p, k + 1, m)) => Abstract!New(p)
        /\ \A room \in 0 .. MaxRoom : AllocSkb(room, p) => Abstract!New(p)
  BY SendStep, AllocStep
<1> QED
  BY <1>1, <1>2, <1>3, <1>4, <1>5, <1>6 DEF AsAsked

\* Which is a step of the string of bytes, or none.
LEMMA BytesStep ==
    ASSUME SkbInv, AsAsked, SkbNext
    PROVE  [Abstract!Next]_Abstract!vars
<1> DEFINE ByteStep == Abstract!Next \/ Abstract!Keep
<1>1. SUFFICES ByteStep
  BY DEF Abstract!Keep
<1>2. ASSUME NEW S, Does(S), S => ByteStep PROVE ByteStep
  BY <1>2 DEF Does
<1>3. ASSUME NEW m \in 1 .. MaxLen,
             skb_put(m) \/ skb_push(m) \/ skb_pull(m) \/ skb_trim(m - 1) \/ skb_ip_make_writable(m)
      PROVE  ByteStep
  <2>1. Abstract!Put(m) \/ Abstract!Push(m) \/ Abstract!Pull(m) \/ Abstract!Trim(m - 1)
          => Abstract!Next
    BY Zenon DEF Abstract!Next
  <2>2. \/ Abstract!Keep \/ Does(Abstract!Put(m)) \/ Does(Abstract!Push(m))
        \/ Abstract!Pull(m) \/ Abstract!Trim(m - 1)
    BY <1>3, Zenon DEF AsAsked
  <2> QED
    BY <1>2, <2>1, <2>2, Zenon DEF Does
<1>4. ASSUME NEW h \in 0 .. MaxRoom, NEW t \in 0 .. MaxRoom, skb_copy_expand(h, t)
      PROVE  ByteStep
  BY <1>4, Zenon DEF AsAsked
<1>5. ASSUME NEW b \in Byte,
             IpForward(b) \/ IpForwardExpired(b) \/ \E i \in DOMAIN skb.buf : Store(i, b)
      PROVE  ByteStep
  <2>1. ASSUME NEW i, Abstract!Write(i, b) PROVE ByteStep
    <3>1. CASE i \in DOMAIN Contents(skb)
      BY <2>1, <3>1, Zenon DEF Abstract!Next
    <3>2. CASE i \notin DOMAIN Contents(skb)
      <4> DEFINE p == Contents(skb)
                 q == [k \in DOMAIN p |-> IF k = i THEN b ELSE p[k]]
      <4>1. p = [k \in DOMAIN p |-> p[k]]
        BY DEF Contents
      <4>2. q = [k \in DOMAIN p |-> p[k]]
        BY <3>2
      <4> QED
        BY <2>1, <4>1, <4>2, Zenon DEF Abstract!Write, Abstract!Keep, Abstract!vars
    <3> QED
      BY <3>1, <3>2
  <2>2. Abstract!Gone => ByteStep
    BY Zenon DEF Abstract!Next
  <2>3. CASE IpForward(b)
    BY <2>1, <2>3, Zenon DEF AsAsked, Does
  <2>4. CASE IpForwardExpired(b)
    BY <2>2, <2>4, Zenon DEF AsAsked, Does
  <2>5. ASSUME NEW i \in DOMAIN skb.buf, Store(i, b) PROVE ByteStep
    <3>1. Abstract!Write(i - skb.data, b)
      BY <2>5, Zenon DEF AsAsked
    <3> QED
      BY <2>1, <3>1
  <2> QED
    BY <1>5, <2>3, <2>4, <2>5
<1>6. CASE CallElemHook \/ HookReturns \/ kfree_skb \/ Read \/ skb_linearize
  BY <1>6, Zenon DEF AsAsked, Abstract!Next
<1>7. ASSUME NEW m \in 1 .. MaxLen, NEW p \in [1 .. m -> Byte], Abstract!New(p) PROVE ByteStep
  BY <1>7, Zenon DEF Abstract!Next
<1>8. ASSUME NEW m \in 1 .. MaxLen, NEW p \in [1 .. m -> Byte], NEW k \in 1 .. m,
             SendPacket(SubSeq(p, 1, k), SubSeq(p, k + 1, m))
      PROVE  ByteStep
  BY <1>7, <1>8, Zenon DEF AsAsked
<1>9. ASSUME NEW m \in 1 .. MaxLen, NEW p \in [1 .. m -> Byte], NEW room \in 0 .. MaxRoom,
             AllocSkb(room, p)
      PROVE  ByteStep
  BY <1>7, <1>9, Zenon DEF AsAsked
<1> HIDE DEF ByteStep
<1> QED
  BY <1>3, <1>4, <1>5, <1>6, <1>8, <1>9 DEF SkbNext

\* Before the first packet there are no bytes.
LEMMA SkbBegins ==
    ASSUME SkbInit
    PROVE  SkbInv /\ Abstract!Init
<1>1. Sound(skb) /\ Contents(skb) = << >> /\ Modified(skb) = {} /\ skb.nh - skb.data = 0
      /\ skb \in SkBuff /\ Inside(skb)
  BY NothingInNone DEF SkbInit, Sound
<1>2. SkbTypeOK
  BY <1>1 DEF SkbInit, SkbTypeOK
<1>3. InsideItsBuffers
  BY <1>1, <1>2 DEF InsideItsBuffers, Inside
<1> QED
  BY <1>1, <1>3 DEF SkbInit, SkbInv, AlarmIsTrue, Abstract!Init

\* nfsim complains of a modified packet exactly when the code under test has written where
\* it had no right to, and never compares beyond a buffer, for packets and rooms of every
\* size and every sequence of calls (nfsim_check_packet, nfsim_update_skb, kernelenv.c).
THEOREM AlarmIsAlwaysTrue == SkbSpec => []AlarmIsTrue
<1>1. SkbInit => SkbInv
  BY SkbBegins
<1>2. SkbInv /\ [SkbNext]_skbVars => SkbInv'
  BY SkbStep
<1>3. SkbInv => AlarmIsTrue
  BY DEF SkbInv
<1> QED
  BY <1>1, <1>2, <1>3, PTL DEF SkbSpec

\* However a packet lies in memory, to the code under test it is a string of bytes with a
\* place in it: copying, linearizing, making writable and looking leave it as it is, to the
\* byte; a store writes its byte and no other; putting, pushing, pulling and trimming change
\* its ends by as much as they are told to; for packets and rooms of every size
\* (skb_copy_bits, skb_linearize, skb_copy_expand, skb_ip_make_writable).
THEOREM LayoutAlwaysHidden == SkbSpec => LayoutHidden
<1>1. SkbInit => SkbInv /\ Abstract!Init
  BY SkbBegins
<1>2. SkbInv /\ [SkbNext]_skbVars => SkbInv' /\ [Abstract!Next]_Abstract!vars
  <2>1. SUFFICES ASSUME SkbInv, [SkbNext]_skbVars
                 PROVE  [Abstract!Next]_Abstract!vars
    BY SkbStep
  <2>2. CASE SkbNext
    BY <2>1, <2>2, BytesAsAsked, BytesStep
  <2>3. CASE UNCHANGED skbVars
    BY <2>3 DEF skbVars, Abstract!vars
  <2> QED
    BY <2>1, <2>2, <2>3
<1>3. SkbInv => AsAsked
  BY BytesAsAsked
<1>4. SkbInv /\ [SkbNext]_skbVars => [AsAsked]_skbVars
  BY <1>3
<1> QED
  BY <1>1, <1>2, <1>4, PTL DEF SkbSpec, LayoutHidden, Abstract!Spec

\* "We never make packet *less* writable": skb_ip_make_writable() gives at least what was
\* asked for and takes nothing away.
THEOREM WritableNeverLost == SkbSpec => NeverLessWritable
<1> DEFINE Gives == \A n \in 1 .. MaxLen :
                      skb_ip_make_writable(n) /\ dead' = "no" /\ skb.nonlinear =>
                        WritableBytes(skb') >= WritableBytes(skb) /\ WritableBytes(skb') >= n
<1>1. SkbInit => SkbInv
  BY SkbBegins
<1>2. SkbInv /\ [SkbNext]_skbVars => SkbInv'
  BY SkbStep
<1>3. ASSUME SkbInv PROVE Gives
  <2>1. SUFFICES ASSUME NEW n \in 1 .. MaxLen, skb_ip_make_writable(n), dead' = "no", skb.nonlinear
                 PROVE  WritableBytes(skb') >= WritableBytes(skb) /\ WritableBytes(skb') >= n
    OBVIOUS
  <2>2. Running /\ n \in Nat
    BY <2>1, Sizes DEF skb_ip_make_writable, Kernel
  <2>3. Sound(skb)
    BY <1>3, <2>2, SkbFacts
  <2>4. nfsim_check_packet(skb)
    BY <2>1 DEF skb_ip_make_writable, Checked, Barf
  <2>5. n <= skb.len /\ skb' = MakeWritable(skb, n)
    BY <2>1, <2>4 DEF skb_ip_make_writable, Checked, Becomes
  <2> QED
    BY <2>1, <2>2, <2>3, <2>5, MakeWritableGives
<1>4. SkbInv /\ [SkbNext]_skbVars => [Gives]_skbVars
  BY <1>3
<1> HIDE DEF Gives
<1>5. SkbSpec => [][Gives]_skbVars
  BY <1>1, <1>2, <1>4, PTL DEF SkbSpec
<1> QED
  BY <1>5 DEF NeverLessWritable, Gives

-----------------------------------------------------------------------------
(* Packets on the wire.                                                    *)

Number == 0 .. Short - 1

Session == [open : {TRUE}, seq : [End -> Number], ack : [End -> Number], lenchange : Int]

Doing == [cmd : {"open", "data", "close", "reset"}, in : End, len : 0 .. MaxData, step : 1 .. 3]
Sends(t) == Step(t.cmd, t.in, t.len)

SessionTyped ==
    /\ WireTypeOK
    /\ announced \in Int
    /\ curr \in Session \cup {NoSession}
    /\ todo = Nothing \/ (todo \in Doing /\ todo.step <= Len(Sends(todo)))

InTune ==
    curr # NoSession /\ ~misled =>
        /\ \A e \in End : curr.ack[Peer(e)] = (curr.seq[e] + shift[e]) % Short
        /\ curr.lenchange = announced

SessionInv ==
    /\ SessionTyped
    /\ InTune
    /\ todo # Nothing => curr # NoSession /\ (misled \/ SendsData \/ announced = 0)
    /\ crashed => todo = Nothing
    /\ script # "tcpsession" => curr = NoSession
    /\ SessionInStep

\* The sequence numbers count modulo something.
LEMMA ShortType ==
    ASSUME ChecksumAssumption PROVE Short \in Nat \ {0}
<1>1. Base \in Nat /\ Base >= 1
  BY DEF ChecksumAssumption
<1>2. Base * Base >= 1
  BY <1>1
<1> QED
  BY <1>1, <1>2 DEF Short

\* Remainders: a multiple of n more or less does not show.
LEMMA Remainder ==
    ASSUME NEW n \in Nat \ {0}, NEW a \in Int, NEW b \in Int
    PROVE  /\ a % n \in 0 .. n - 1
           /\ ((a % n) + b) % n = (a + b) % n
           /\ a \in 0 .. n - 1 => a % n = a
<1>0. a % n \in Int /\ 0 <= a % n /\ a % n < n /\ a = n * (a \div n) + (a % n) /\ a \div n \in Int
  OBVIOUS
<1>1. ASSUME NEW c \in Int, NEW q \in Int PROVE (c + n * q) % n = c % n
  <2>1. c % n \in Int /\ 0 <= c % n /\ c % n < n /\ c = n * (c \div n) + (c % n) /\ c \div n \in Int
    OBVIOUS
  <2> DEFINE x == c + n * q
  <2>2. x \in Int
    OBVIOUS
  <2>3. x = n * (c \div n + q) + (c % n)
    BY <2>1
  <2>4. x % n \in Int /\ 0 <= x % n /\ x % n < n /\ x = n * (x \div n) + (x % n) /\ x \div n \in Int
    BY <2>2
  <2>5. ASSUME NEW u \in Int, NEW v \in Int, NEW r \in Int, NEW s \in Int,
               0 <= r, r < n, 0 <= s, s < n, n * u + r = n * v + s
        PROVE  r = s
    <3>1. n * (u - v) = s - r
      BY <2>5
    <3>2. CASE u - v >= 1
      <4>1. n * (u - v) >= n
        BY <3>2
      <4> QED
        BY <3>1, <4>1, <2>5
    <3>3. CASE u - v <= -1
      <4>1. n * (u - v) <= -n
        BY <3>3
      <4> QED
        BY <3>1, <4>1, <2>5
    <3>4. CASE u - v = 0
      BY <3>1, <3>4
    <3> QED
      BY <3>2, <3>3, <3>4
  <2> HIDE DEF x
  <2>6. (c \div n + q) \in Int /\ n * (x \div n) + (x % n) = n * (c \div n + q) + (c % n)
    BY <2>1, <2>3, <2>4
  <2>7. x % n = c % n
    BY <2>1, <2>4, <2>5, <2>6, Zenon
  <2> QED
    BY <2>7 DEF x
<1>2. (a % n) + b = (a + b) + n * (0 - (a \div n))
  BY <1>0
<1>3. ((a % n) + b) % n = (a + b) % n
  <2>1. 0 - (a \div n) \in Int /\ a + b \in Int
    BY <1>0
  <2>2. (a + b + n * (0 - (a \div n))) % n = (a + b) % n
    BY <1>1, <2>1, Zenon
  <2> QED
    BY <1>2, <2>2, Zenon
<1>4. a \in 0 .. n - 1 => a % n = a
  OBVIOUS
<1> QED
  BY <1>0, <1>3, <1>4

-----------------------------------------------------------------------------
(* Packets. *)

\* Forwarding leaves the kind of a packet alone.
LEMMA ForwardedKind ==
    ASSUME NEW kind, NEW ttl, NEW head, NEW data
    PROVE  Forwarded(Packet(kind, ttl, head, data)).kind = kind
<1> DEFINE l4 == Transport(head, L4Check(kind, head, data), data)
           header == IpHeader(kind, ttl, Len(l4))
           sum == Complement(csum_partial(header, 0, 0) % Short)
           p == [kind |-> kind, l4 |-> l4, header |-> header, made |-> ttl, check |-> sum]
<1>1. Packet(kind, ttl, head, data) = p
  BY DEF Packet
<1> HIDE DEF l4, header, sum
<1>2. PICK h, c : Forwarded(p) = [[p EXCEPT !.header[5] = h] EXCEPT !.check = c]
  <2> DEFINE check == p.check + (IF LittleEndian THEN 1 ELSE Base)
             c == (check + (IF check >= Short - 1 THEN 1 ELSE 0)) % Short
             h == (p.header[5] + Base - 1) % Base
  <2>1. Forwarded(p) = [p EXCEPT !.header[5] = h, !.check = c]
    BY DEF Forwarded
  <2> HIDE DEF h, c
  <2>2. [p EXCEPT !.header[5] = h, !.check = c] = [[p EXCEPT !.header[5] = h] EXCEPT !.check = c]
    OBVIOUS
  <2> QED
    BY <2>1, <2>2
<1> QED
  BY <1>1, <1>2

\* What tcp_send expects, and what a box that does as announced sends.
LEMMA SentFields ==
    ASSUME NEW s, NEW datalen, NEW change
    PROVE  LET w == Sent(s, datalen, change)
               out == Peer(s.from)
           IN  /\ w.kind = "tcp"
               /\ w.expected = <<curr.ack[out], curr.seq[out], datalen + curr.lenchange>>
               /\ w.boxed = << (curr.seq[s.from] + shift[s.from]) % Short,
                               (curr.ack[s.from] - shift[out]) % Short, datalen + change >>
<1> DEFINE head == Network(curr.seq[s.from]) \o Network(curr.ack[s.from])
                     \o <<FlagByte(s.flags), 0>>
           data == [i \in 1 .. datalen |-> i % Base]
           q == Forwarded(Packet("tcp", 2, head, data))
<1> HIDE DEF head, data
<1>1. q.kind = "tcp"
  BY ForwardedKind
<1> HIDE DEF q
<1> QED
  BY <1>1 DEF Sent, WithExpectation, Short, q, head, data

-----------------------------------------------------------------------------
(* Fragments. *)

Piece == [off : Nat, data : Seq(Int), more : BOOLEAN]

\* A fragment is a proper part of the datagram, and knows whether it is the last.
Cut(f) ==
    /\ Len(f.data) \in 1 .. MaxData - 1
    /\ f.off + Len(f.data) <= MaxData
    /\ ~f.more => f.off + Len(f.data) = MaxData

FragInv ==
    /\ frags \in Seq(Piece)
    /\ \A i \in DOMAIN frags : Cut(frags[i])
    /\ NothingHeldBack

\* A fragment gen_ip FRAG= sends is a piece of the datagram, cut where it says.
LEMMA FragmentIsCut ==
    ASSUME MaxData \in Nat, NEW off \in 0 .. MaxData - 1, NEW len \in 1 .. MaxData,
           off + len <= MaxData, len < MaxData
    PROVE  /\ Fragment(off, len) \in Piece
           /\ Cut(Fragment(off, len))
           /\ Fragment(off, len).off = off /\ Len(Fragment(off, len).data) = len
<1> DEFINE d == SubSeq(Datagram, off + 1, off + len)
<1>1. Datagram \in Seq(Int) /\ Len(Datagram) = MaxData
  BY DEF Datagram
<1>2. d \in Seq(Int) /\ Len(d) = len
  BY <1>1
<1> HIDE DEF d
<1> DEFINE more == off + len < MaxData
           f == [off |-> off, data |-> d, more |-> more]
<1>3. Fragment(off, len) = f
  BY DEF Fragment, d
<1>4. more \in BOOLEAN /\ (~more => off + len = MaxData)
  OBVIOUS
<1> HIDE DEF more
<1>5. f.off = off /\ f.data = d /\ f.more = more
  OBVIOUS
<1>6. f \in Piece
  BY <1>2, <1>4 DEF Piece
<1> HIDE DEF f
<1>7. ~f.more => f.off + Len(f.data) = MaxData
  BY <1>2, <1>4, <1>5, Zenon
<1>8. Cut(f)
  BY <1>2, <1>5, <1>7 DEF Cut
<1> QED
  BY <1>2, <1>3, <1>5, <1>6, <1>8, Zenon

\* A complete list of cuts covers the whole datagram.
LEMMA CompleteIsWhole ==
    ASSUME MaxData \in Nat, NEW fs \in Seq(Piece), \A i \in DOMAIN fs : Cut(fs[i]),
           \E f \in Range(fs) : ~f.more
    PROVE  Top(fs) = MaxData
<1> DEFINE S == { f.off + Len(f.data) : f \in Range(fs) }
<1>1. \A f \in Range(fs) : f \in Piece /\ Cut(f)
  BY DEF Range
<1>2. PICK f \in Range(fs) : ~f.more
  OBVIOUS
<1>3. f.off + Len(f.data) = MaxData
  BY <1>1, <1>2, Zenon DEF Cut
<1>4. MaxData \in S
  BY <1>3
<1>5. \A x \in S : x \in Int /\ MaxData >= x
  BY <1>1 DEF Cut, Piece
<1> HIDE DEF S
<1>6. \A x \in S : (\A y \in S : x >= y) => x = MaxData
  BY <1>4, <1>5
<1>7. Max(S) = MaxData
  BY <1>4, <1>5, <1>6 DEF Max
<1> QED
  BY <1>7 DEF Top, S

\* One cut is not all.
LEMMA OneIsNotComplete ==
    ASSUME MaxData \in Nat, NEW f \in Piece, Cut(f)
    PROVE  ~Complete(<<f>>)
<1> DEFINE fs == <<f>>
<1>1. fs \in Seq(Piece) /\ DOMAIN fs = {1} /\ fs[1] = f
  OBVIOUS
<1>2. Range(fs) = {f}
  BY <1>1 DEF Range
<1> HIDE DEF fs
<1> SUFFICES ASSUME Complete(fs) PROVE FALSE
  BY DEF fs
<1>3. ~f.more /\ Covered(fs) = 1 .. Top(fs)
  BY <1>2 DEF Complete
<1>4. Top(fs) = MaxData
  BY <1>1, <1>2, <1>3, CompleteIsWhole
<1>5. Covered(fs) = f.off + 1 .. f.off + Len(f.data)
  BY <1>2 DEF Covered
<1>6. 1 \in 1 .. MaxData /\ 1 \notin f.off + 1 .. f.off + Len(f.data)
  BY <1>3 DEF Cut, Piece
<1> QED
  BY <1>3, <1>4, <1>5, <1>6

\* What gather_frag puts together is as long as what was sent.
LEMMA GatheredProperties ==
    ASSUME MaxData \in Nat, NEW fs \in Seq(Piece), \A i \in DOMAIN fs : Cut(fs[i])
    PROVE  /\ Gathered(fs) = NoDatagram <=> ~Complete(fs)
           /\ Gathered(fs) # NoDatagram => Gathered(fs).len = MaxData
<1>1. CASE ~Complete(fs)
  BY <1>1 DEF Gathered
<1>2. CASE Complete(fs)
  <2> DEFINE p == SubSeq(fs[1].data \o Data(fs), 1, Top(fs))
  <2>1. Gathered(fs) = [len |-> Top(fs), payload |-> p]
    BY <1>2 DEF Gathered
  <2> HIDE DEF p
  <2>2. Top(fs) = MaxData
    BY <1>2, CompleteIsWhole DEF Complete
  <2>3. Gathered(fs).len = MaxData
    BY <2>1, <2>2
  <2> QED
    BY <1>2, <2>3 DEF NoDatagram
<1> QED
  BY <1>1, <1>2

\* ip_defrag keeps the fragments it holds cuts of the one datagram, whether the packet it
\* gets joins the list, completes it or finds it full.
LEMMA DefragKeeps ==
    ASSUME WireAssumption, FragInv,
           NEW off \in 0 .. MaxData - 1, NEW len \in 1 .. MaxData,
           off + len <= MaxData, len < MaxData, ip_defrag(off, len)
    PROVE  FragInv'
<1> DEFINE f == Fragment(off, len)
           fs == Append(frags, f)
<1>1. f \in Piece /\ Cut(f)
  BY FragmentIsCut DEF WireAssumption
<1>2. frags \in Seq(Piece) /\ \A i \in DOMAIN frags : Cut(frags[i])
  BY DEF FragInv
<1> HIDE DEF f
<1>3. fs \in Seq(Piece) /\ Len(fs) = Len(frags) + 1
  BY <1>1, <1>2
<1>4. \A i \in DOMAIN fs : Cut(fs[i])
  BY <1>1, <1>2
<1>5. Len(fs) = 1 => fs = <<f>>
  <2>1. Len(fs) = 1 => frags = << >>
    BY <1>2, <1>3
  <2> QED
    BY <2>1
<1> HIDE DEF fs
<1>6. CASE Len(fs) > NumFrags
  <2>1. frags' = frags /\ whole' = whole
    BY <1>6 DEF ip_defrag, fs, f
  <2> QED
    BY <2>1 DEF FragInv, NothingHeldBack
<1>7. CASE ~(Len(fs) > NumFrags)
  <2>1. /\ whole' = IF Len(fs) = 1 THEN NoDatagram ELSE Gathered(fs)
        /\ frags' = IF whole' = NoDatagram THEN fs ELSE << >>
    BY <1>7 DEF ip_defrag, fs, f
  <2>2. MaxData \in Nat
    BY DEF WireAssumption
  <2>3. CASE whole' = NoDatagram
    <3>1. ~Complete(fs)
      BY <1>1, <1>3, <1>4, <1>5, <2>1, <2>2, <2>3, OneIsNotComplete, GatheredProperties
    <3> QED
      BY <1>3, <1>4, <2>1, <2>3, <3>1 DEF FragInv, NothingHeldBack
  <2>4. CASE whole' # NoDatagram
    <3>1. whole'.len = MaxData
      BY <1>3, <1>4, <2>1, <2>2, <2>4, GatheredProperties
    <3> QED
      BY <2>1, <2>4, <3>1 DEF FragInv, NothingHeldBack
  <2> QED
    BY <2>3, <2>4
<1> QED
  BY <1>6, <1>7

\* All other commands leave the fragments alone.
LEMMA OthersKeepFragments ==
    ASSUME WireNext,
           ~\E off \in 0 .. MaxData - 1, len \in 1 .. MaxData :
               off + len <= MaxData /\ len < MaxData /\ ip_defrag(off, len)
    PROVE  UNCHANGED <<frags, whole>>
BY DEF WireNext, gen_ip, open_session, send_data, close_session,
       reset_session, lenchange, abandon, tcp_send, tcp_send_fails, tcp_send_fails_late, GivesUp

\* The invariant of the fragments holds in every behaviour.
LEMMA FragmentsAlwaysCut == WireSpec => []FragInv
<1> USE WireAssumption
<1>1. WireInit => FragInv
  BY DEF WireInit, FragInv, NothingHeldBack
<1>2. FragInv /\ [WireNext]_wireVars => FragInv'
  <2> SUFFICES ASSUME FragInv, [WireNext]_wireVars PROVE FragInv'
    OBVIOUS
  <2>1. CASE UNCHANGED <<frags, whole>>
    BY <2>1 DEF FragInv, NothingHeldBack
  <2>2. CASE UNCHANGED wireVars
    BY <2>1, <2>2 DEF wireVars
  <2> QED
    BY <2>1, <2>2, DefragKeeps, OthersKeepFragments
<1> QED
  BY <1>1, <1>2, PTL DEF WireSpec

\* Fragments wait only as long as one is missing, in whatever order and however often they
\* come and overlap, and the datagram that gather_frag puts together is as long as the one
\* that was sent: for datagrams and lists of fragments of any length.
THEOREM NothingEverHeldBack == WireSpec => []NothingHeldBack
<1>1. FragInv => NothingHeldBack
  BY DEF FragInv
<1> QED
  BY <1>1, FragmentsAlwaysCut, PTL

-----------------------------------------------------------------------------
(* Sessions. *)

\* The sends of a command: there is a first one, and each has an end for a sender.
LEMMA StepProperties ==
    ASSUME NEW cmd \in {"open", "data", "close", "reset"}, NEW in \in End, NEW len \in Nat
    PROVE  LET sends == Step(cmd, in, len)
           IN  /\ Len(sends) \in Nat /\ 1 <= Len(sends) /\ Len(sends) <= 3
               /\ cmd = "data" => Len(sends) = 2
               /\ \A k \in 1 .. Len(sends) : sends[k].from \in End /\ sends[k].count \in Nat
<1> USE DEF Step, End, Peer
<1>1. CASE cmd = "open"
  BY <1>1
<1>2. CASE cmd = "data"
  BY <1>2
<1>3. CASE cmd = "close"
  BY <1>3
<1>4. CASE cmd = "reset"
  BY <1>4
<1> QED
  BY <1>1, <1>2, <1>3, <1>4

\* Before the first command there is no session to be out of step.
LEMMA SessionBegins ==
    ASSUME ChecksumAssumption, WireAssumption, WireInit
    PROVE  SessionInv
<1>1. /\ wire = [kind |-> "none"] /\ curr = NoSession /\ todo = Nothing
      /\ frags = << >> /\ shift = [e \in End |-> 0] /\ announced = 0 /\ misled = FALSE
      /\ crashed = FALSE /\ uses = 0 /\ script \in DOMAIN MaxUses
  BY DEF WireInit, NoPacket, End
<1>2. NumFrags \in Nat /\ MaxUses[script] \in Nat
  BY <1>1 DEF WireAssumption
<1>3. WireTypeOK
  <2>1. uses \in 0 .. MaxUses[script] /\ Len(frags) <= NumFrags
    BY <1>1, <1>2
  <2>2. wire.kind = "none" /\ shift \in [End -> Int]
    BY <1>1 DEF End
  <2> QED
    BY <1>1, <2>1, <2>2, Zenon DEF WireTypeOK
<1>4. SessionTyped
  BY <1>1, <1>3 DEF SessionTyped
<1>5. SessionInStep
  BY <1>1, <1>3 DEF SessionInStep, NoPacket
<1> QED
  BY <1>1, <1>4, <1>5 DEF SessionInv, InTune

\* Commands that have nothing to do with sessions.
LEMMA OthersKeepSession ==
    ASSUME ChecksumAssumption, WireAssumption, SessionInv, FragInv,
           \/ \E kind \in {"icmp", "udp"}, ttl \in 0 .. 2, data \in Extremes(MaxData) :
                gen_ip(kind, ttl, data)
           \/ \E off \in 0 .. MaxData - 1, len \in 1 .. MaxData : ip_defrag(off, len)
    PROVE  SessionInv'
<1>1. /\ script # "tcpsession" /\ todo = Nothing /\ uses < MaxUses[script]
      /\ uses' = uses + 1 /\ UNCHANGED <<script, sessionVars>>
      /\ wire' = wire \/ wire'.kind \in {"none", "icmp", "udp"}
      /\ Len(frags') <= NumFrags /\ crashed' \in BOOLEAN
  <2>1. ASSUME NEW kind \in {"icmp", "udp"}, NEW ttl, NEW data, gen_ip(kind, ttl, data)
        PROVE  <1>1!:
    <3>1. wire'.kind \in {"none", kind}
      BY <2>1, ForwardedKind DEF gen_ip, Travels, NoPacket
    <3> QED
      BY <2>1, <3>1 DEF gen_ip, Uses, SessionInv, SessionTyped, WireTypeOK
  <2>2. ASSUME NEW off, NEW len, ip_defrag(off, len)
        PROVE  <1>1!:
    <3> DEFINE fs == Append(frags, Fragment(off, len))
    <3>1. Len(frags') <= NumFrags /\ crashed' \in BOOLEAN
      <4>1. Len(<< >>) <= NumFrags /\ NumFrags \in Nat
        BY DEF WireAssumption
      <4>2. Len(frags) <= NumFrags /\ crashed \in BOOLEAN
        BY DEF SessionInv, SessionTyped, WireTypeOK
      <4>3. Len(fs) \in Nat
        BY DEF FragInv
      <4> HIDE DEF fs
      <4>4. \/ crashed' = TRUE /\ frags' = frags
            \/ ~(Len(fs) > NumFrags) /\ crashed' = crashed /\ frags' \in {fs, << >>}
        BY <2>2 DEF ip_defrag, fs
      <4>5. crashed' \in BOOLEAN
        BY <4>2, <4>4, Zenon
      <4>6. Len(frags') <= NumFrags
        BY <4>1, <4>2, <4>3, <4>4
      <4> QED
        BY <4>5, <4>6
    <3> QED
      BY <2>2, <3>1 DEF ip_defrag, Uses
  <2> QED
    BY <2>1, <2>2
<1>2. /\ SessionTyped /\ InTune /\ WireTypeOK /\ curr = NoSession
  BY <1>1 DEF SessionInv, SessionTyped
<1>3. /\ curr' = curr /\ todo' = todo /\ shift' = shift /\ announced' = announced
      /\ misled' = misled /\ script' = script
  BY <1>1 DEF sessionVars
<1>4. uses' \in 0 .. MaxUses[script]
  BY <1>1, <1>2 DEF WireTypeOK, WireAssumption
<1>5. WireTypeOK'
  BY <1>1, <1>2, <1>3, <1>4 DEF WireTypeOK
<1>6. SessionTyped'
  BY <1>2, <1>3, <1>5 DEF SessionTyped
<1> QED
  BY <1>1, <1>2, <1>3, <1>5, <1>6 DEF SessionInv, InTune, SessionInStep

\* A session is opened.
LEMMA OpenKeepsSession ==
    ASSUME ChecksumAssumption, WireAssumption, SessionInv, open_session
    PROVE  SessionInv'
<1> DEFINE c == [open |-> TRUE, seq |-> Isn, ack |-> [e \in End |-> Isn[Peer(e)]],
                 lenchange |-> 0]
           t == [cmd |-> "open", in |-> "original", len |-> 0, step |-> 1]
<1>1. /\ script = "tcpsession" /\ script' = script /\ crashed = FALSE /\ crashed' = crashed
      /\ uses' = uses + 1 /\ uses < MaxUses[script]
      /\ curr' = c /\ todo' = t /\ shift' = [e \in End |-> 0] /\ announced' = 0
      /\ misled' = FALSE /\ wire' = NoPacket /\ frags' = frags
  <2>1. crashed \in BOOLEAN
    BY DEF SessionInv, SessionTyped, WireTypeOK
  <2> QED
    BY <2>1 DEF open_session, Uses, End
<1>2. WireTypeOK /\ Short \in Nat \ {0} /\ Isn \in [End -> Number]
  BY ShortType DEF SessionInv, SessionTyped, WireAssumption, Short, Number, End
<1>3. \A e \in End : Peer(e) \in End /\ Peer(Peer(e)) = e
  BY DEF End, Peer
<1>4. c.seq = Isn /\ c.ack = [e \in End |-> Isn[Peer(e)]] /\ c.lenchange = 0
  OBVIOUS
<1>5. c \in Session
  BY <1>2, <1>3 DEF Session
<1>6. c # NoSession
  BY DEF NoSession
<1> HIDE DEF c
<1>7. t.cmd = "open" /\ t.in \in End /\ t # Nothing
  BY DEF End, Nothing
<1>8. t \in Doing /\ t.step <= Len(Sends(t))
  <2>1. MaxData \in Nat
    BY DEF WireAssumption
  <2>2. 1 <= Len(Step("open", "original", 0))
    BY StepProperties DEF End
  <2>3. t.cmd = "open" /\ t.in = "original" /\ t.len = 0 /\ t.step = 1
    OBVIOUS
  <2>4. t \in Doing
    BY <1>7, <2>1 DEF Doing
  <2>5. Sends(t) = Step("open", "original", 0)
    BY <2>3, Zenon DEF Sends
  <2> QED
    BY <2>2, <2>3, <2>4, <2>5, Zenon
<1> HIDE DEF t
<1>9. uses' \in 0 .. MaxUses[script]
  BY <1>1, <1>2 DEF WireTypeOK, WireAssumption
<1>10. WireTypeOK'
  <2>1. wire'.kind = "none"
    BY <1>1 DEF NoPacket
  <2>2. c.seq \in [End -> 0 .. Short - 1] /\ c.ack \in [End -> 0 .. Short - 1]
    BY <1>5 DEF Session, Number, Short, End
  <2>3. shift' \in [End -> Int]
    BY <1>1 DEF End
  <2> QED
    BY <1>1, <1>2, <1>4, <1>7, <1>9, <2>1, <2>2, <2>3 DEF WireTypeOK, End
<1>11. SessionTyped'
  <2>1. announced' \in Int /\ curr' \in Session /\ todo' \in Doing
        /\ todo'.step <= Len(Sends(todo'))
    BY <1>1, <1>5, <1>8
  <2> QED
    BY <1>10, <2>1, Zenon DEF SessionTyped
<1>12. InTune'
  <2>1. ASSUME NEW e \in End
        PROVE  c.ack[Peer(e)] = (c.seq[e] + shift'[e]) % Short
    <3>1. c.ack[Peer(e)] = Isn[e] /\ c.seq[e] = Isn[e] /\ shift'[e] = 0
      BY <1>1, <1>3, <1>4
    <3>2. Isn[e] \in Int /\ Isn[e] + 0 = Isn[e] /\ Isn[e] \in 0 .. Short - 1
      BY <1>2 DEF Number
    <3> QED
      BY <1>2, <3>1, <3>2, Remainder
  <2> QED
    BY <1>1, <1>4, <2>1 DEF InTune
<1>13. SessionInStep'
  BY <1>1, <1>10 DEF SessionInStep
<1> QED
  BY <1>1, <1>6, <1>11, <1>12, <1>13 DEF SessionInv

\* A command of an open session begins.
LEMMA CommandKeepsSession ==
    ASSUME ChecksumAssumption, WireAssumption, SessionInv,
           NEW cmd \in {"data", "close", "reset"}, NEW in \in End, NEW len \in 0 .. MaxData,
           Uses("tcpsession"), curr # NoSession, Starts(cmd, in, len),
           UNCHANGED <<script, wire, frags, whole, curr, shift, announced, crashed>>
    PROVE  SessionInv'
<1> DEFINE t == [cmd |-> cmd, in |-> in, len |-> len, step |-> 1]
<1>1. /\ script = "tcpsession" /\ script' = script /\ ~crashed /\ crashed' = crashed
      /\ uses' = uses + 1 /\ uses < MaxUses[script]
      /\ todo' = t /\ curr' = curr /\ shift' = shift /\ announced' = announced
      /\ misled' = (misled \/ (announced # 0 /\ cmd # "data"))
      /\ wire' = wire /\ frags' = frags
  BY DEF Uses, Starts
<1>2. WireTypeOK /\ SessionTyped /\ InTune /\ SessionInStep
  BY DEF SessionInv, SessionTyped
<1>3. t.cmd = cmd /\ t.in = in /\ t.len = len /\ t.step = 1 /\ t # Nothing
  BY DEF Nothing
<1>4. t \in Doing
  BY DEF Doing
<1> HIDE DEF t
<1>5. t.step <= Len(Sends(t))
  <2>1. Sends(t) = Step(cmd, in, len)
    BY <1>3, Zenon DEF Sends
  <2>2. MaxData \in Nat
    BY DEF WireAssumption
  <2>3. 1 <= Len(Step(cmd, in, len))
    <3>1. len \in Nat /\ cmd \in {"open", "data", "close", "reset"}
      BY <2>2
    <3> QED
      BY <3>1, StepProperties
  <2> QED
    BY <1>3, <2>1, <2>3, Zenon
<1>6. uses' \in 0 .. MaxUses[script]
  BY <1>1, <1>2 DEF WireTypeOK, WireAssumption
<1>7. misled' \in BOOLEAN /\ (misled => misled') /\ (misled' \/ announced = 0 \/ cmd = "data")
  BY <1>1, <1>2, Zenon DEF WireTypeOK
<1>8. WireTypeOK'
  BY <1>1, <1>2, <1>3, <1>6, <1>7 DEF WireTypeOK, End
<1>9. SessionTyped'
  <2>1. todo' \in Doing /\ todo'.step <= Len(Sends(todo'))
    BY <1>1, <1>4, <1>5, Zenon
  <2> QED
    BY <1>1, <1>2, <1>8, <2>1, Zenon DEF SessionTyped
<1>10. InTune'
  BY <1>1, <1>2, <1>7 DEF InTune
<1>0. ~crashed'
  BY <1>1
<1>11. SessionInStep'
  <2>1. wire # NoPacket /\ ~misled' => wire.expected = wire.boxed
    BY <1>1, <1>2, <1>7, Zenon DEF SessionInStep
  <2> QED
    BY <1>0, <1>1, <1>8, <2>1, Zenon DEF SessionInStep
<1>12. misled' \/ SendsData' \/ announced' = 0
  BY <1>1, <1>3, <1>7, Zenon DEF SendsData
<1> QED
  BY <1>0, <1>1, <1>9, <1>10, <1>11, <1>12, Zenon DEF SessionInv

\* LENCHANGE and ABANDON.
LEMMA LenchangeKeepsSession ==
    ASSUME ChecksumAssumption, WireAssumption, SessionInv,
           NEW change \in Changes, lenchange(change)
    PROVE  SessionInv'
<1>1. /\ script = "tcpsession" /\ script' = script /\ todo = Nothing /\ todo' = todo
      /\ uses' = uses + 1 /\ uses < MaxUses[script]
      /\ shift' = shift /\ misled' = misled /\ wire' = wire /\ frags' = frags
  BY DEF lenchange, Uses
<1>2. WireTypeOK /\ SessionTyped /\ InTune /\ SessionInStep
  BY DEF SessionInv, SessionTyped
<1>3. uses' \in 0 .. MaxUses[script]
  BY <1>1, <1>2 DEF WireTypeOK, WireAssumption
<1>4. CASE curr = NoSession
  <2>1. crashed' = TRUE /\ curr' = curr /\ announced' = announced
    BY <1>4 DEF lenchange
  <2>2. WireTypeOK'
    BY <1>1, <1>2, <1>3, <1>4, <2>1, Zenon DEF WireTypeOK
  <2>3. SessionTyped' /\ InTune' /\ SessionInStep'
    BY <1>1, <1>2, <1>4, <2>1, <2>2, Zenon DEF SessionTyped, InTune, SessionInStep
  <2> QED
    BY <1>1, <1>4, <2>1, <2>3, Zenon DEF SessionInv
<1>5. CASE curr # NoSession
  <2>1. crashed' = crashed /\ announced' = change /\ curr' = [curr EXCEPT !.lenchange = change]
    BY <1>5 DEF lenchange
  <2>2. curr \in Session /\ change \in Int
    BY <1>2, <1>5 DEF SessionTyped, WireAssumption
  <2>3. /\ curr' \in Session /\ curr'.seq = curr.seq /\ curr'.ack = curr.ack
        /\ curr'.lenchange = change
    BY <2>1, <2>2 DEF Session
  <2>4. curr' # NoSession
    BY <2>3 DEF Session, NoSession
  <2>5. WireTypeOK'
    <3>1. curr.seq \in [End -> 0 .. Short - 1]
          /\ curr.ack \in [End -> 0 .. Short - 1]
      BY <1>2, <1>5, Zenon DEF WireTypeOK
    <3> QED
      BY <1>1, <1>2, <1>3, <2>1, <2>2, <2>3, <3>1, Zenon DEF WireTypeOK
  <2>6. SessionTyped'
    BY <1>1, <2>1, <2>2, <2>3, <2>5, Zenon DEF SessionTyped
  <2>7. InTune'
    BY <1>1, <1>2, <1>5, <2>1, <2>3, Zenon DEF InTune
  <2>8. SessionInStep'
    <3>1. ~crashed
      BY DEF lenchange, Uses
    <3> QED
      BY <1>1, <1>2, <2>1, <2>5, <3>1, Zenon DEF SessionInStep
  <2> QED
    BY <1>1, <2>6, <2>7, <2>8, Zenon DEF SessionInv
<1> QED
  BY <1>4, <1>5

\* A session that is given up takes its numbers along: none are left to be out of tune.
LEMMA AbandonKeepsSession ==
    ASSUME WireAssumption, SessionInv, abandon
    PROVE  SessionInv'
<1>1. /\ script' = script /\ todo = Nothing /\ todo' = todo /\ curr' = NoSession
      /\ uses' = uses + 1 /\ uses < MaxUses[script] /\ announced' = announced
      /\ shift' = shift /\ misled' = misled /\ wire' = wire /\ frags' = frags
      /\ crashed' = crashed
  BY DEF abandon, Uses
<1>2. WireTypeOK /\ SessionTyped /\ InTune /\ SessionInStep
  BY DEF SessionInv, SessionTyped
<1>3. uses' \in 0 .. MaxUses[script]
  BY <1>1, <1>2 DEF WireTypeOK, WireAssumption
<1>4. WireTypeOK'
  BY <1>1, <1>2, <1>3, Zenon DEF WireTypeOK
<1>5. SessionTyped' /\ InTune' /\ SessionInStep'
  BY <1>1, <1>2, <1>4, Zenon DEF SessionTyped, InTune, SessionInStep
<1> QED
  BY <1>1, <1>5, Zenon DEF SessionInv

\* A send that fails ends its command.
LEMMA FailedSendKeepsSession ==
    ASSUME SessionInv, tcp_send_fails
    PROVE  SessionInv'
<1>1. /\ script' = script /\ todo # Nothing /\ todo' = Nothing
      /\ curr' = curr \/ curr' = NoSession
      /\ uses' = uses /\ announced' = announced
      /\ shift' = shift /\ misled' = misled /\ wire' = wire /\ frags' = frags
      /\ crashed' = crashed
  BY DEF tcp_send_fails, GivesUp
<1>2. WireTypeOK /\ SessionTyped /\ InTune /\ SessionInStep
  BY DEF SessionInv, SessionTyped
<1>3. WireTypeOK'
  BY <1>1, <1>2, Zenon DEF WireTypeOK
<1>4. SessionTyped' /\ InTune' /\ SessionInStep'
  BY <1>1, <1>2, <1>3, Zenon DEF SessionTyped, InTune, SessionInStep
<1> QED
  BY <1>1, <1>4, Zenon DEF SessionInv

\* The numbers of one direction, when its sender sends n bytes that come out g longer.
LEMMA NumbersStayInTune ==
    ASSUME Short \in Nat \ {0}, NEW seq \in Number, NEW sh \in Int, NEW n \in Int, NEW d \in Int
    PROVE  /\ (((seq + sh) % Short) + (n + d)) % Short = (((seq + n) % Short) + (sh + d)) % Short
           /\ seq = (((seq + sh) % Short) - sh) % Short
<1>1. seq \in Int /\ seq \in 0 .. Short - 1
  BY DEF Number
<1> DEFINE a == seq + sh
           b == seq + n
<1>2. a \in Int /\ b \in Int
  BY <1>1
<1>3. ((a % Short) + (n + d)) % Short = (a + (n + d)) % Short
  BY <1>2, Remainder
<1>4. ((b % Short) + (sh + d)) % Short = (b + (sh + d)) % Short
  BY <1>2, Remainder
<1>5. ((a % Short) + (0 - sh)) % Short = (a + (0 - sh)) % Short
  <2>1. 0 - sh \in Int
    OBVIOUS
  <2> QED
    BY <1>2, <2>1, Remainder, ZenonT(60)
<1>6. a % Short \in Int /\ b % Short \in Int
  BY <1>2, Remainder
<1>7. a + (0 - sh) = seq /\ a + (n + d) = b + (sh + d)
  BY <1>1
<1>8. seq % Short = seq
  BY <1>1, Remainder
<1> HIDE DEF a, b
<1>9. (a % Short) - sh = (a % Short) + (0 - sh)
  BY <1>6
<1>10. ((a % Short) + (n + d)) % Short = ((b % Short) + (sh + d)) % Short
  BY <1>3, <1>4, <1>7, Zenon
<1>11. seq = ((a % Short) - sh) % Short
  BY <1>5, <1>7, <1>8, <1>9, Zenon
<1> QED
  BY <1>10, <1>11 DEF a, b

\* The session after a send.
LEMMA CountedProperties ==
    ASSUME Short \in Nat \ {0}, curr \in Session,
           NEW s, s.from \in End, s.count \in Nat, NEW c, c = Counted(s),
           NEW d \in Int, d = IF SendsData THEN curr.lenchange ELSE 0
    PROVE  /\ c \in Session /\ c # NoSession
           /\ c.seq[s.from] = (curr.seq[s.from] + s.count) % Short
           /\ c.ack[Peer(s.from)] = (curr.ack[Peer(s.from)] + (s.count + d)) % Short
           /\ c.seq[Peer(s.from)] = curr.seq[Peer(s.from)]
           /\ c.ack[s.from] = curr.ack[s.from]
           /\ c.lenchange = curr.lenchange - d
<1> DEFINE out == Peer(s.from)
           q == [curr.seq EXCEPT ![s.from] = (@ + s.count) % Short]
           a == [curr.ack EXCEPT ![out] = (@ + (s.count + d)) % Short]
           l == curr.lenchange - d
<1>1. out \in End
  BY DEF End, Peer
<1>2. curr.seq \in [End -> Number] /\ curr.ack \in [End -> Number] /\ curr.lenchange \in Int
  BY DEF Session
<1>3. q \in [End -> Number]
  <2>1. curr.seq[s.from] + s.count \in Int
    BY <1>2 DEF Number
  <2>2. (curr.seq[s.from] + s.count) % Short \in Number
    BY <2>1, Remainder DEF Number
  <2> QED
    BY <1>2, <2>2
<1>4. a \in [End -> Number]
  <2>1. curr.ack[out] + (s.count + d) \in Int
    BY <1>1, <1>2 DEF Number
  <2>2. (curr.ack[out] + (s.count + d)) % Short \in Number
    BY <2>1, Remainder DEF Number
  <2> QED
    BY <1>2, <2>2
<1>5. l \in Int
  BY <1>2
<1>6. c = [[[curr EXCEPT !.seq = q] EXCEPT !.ack = a] EXCEPT !.lenchange = l]
  <2>1. c = [curr EXCEPT !.seq[s.from] = (@ + s.count) % Short,
                         !.ack[out] = (@ + s.count + d) % Short, !.lenchange = @ - d]
    BY DEF Counted, SendsData, Short
  <2>2. curr.ack[out] + s.count + d = curr.ack[out] + (s.count + d)
    BY <1>1, <1>2 DEF Number
  <2> QED
    BY <2>1, <2>2 DEF Session
<1> HIDE DEF q, a, l
<1>7. c \in Session /\ c.seq = q /\ c.ack = a /\ c.lenchange = l
  BY <1>3, <1>4, <1>5, <1>6 DEF Session
<1>8. c # NoSession
  BY <1>7 DEF Session, NoSession
<1>9. out # s.from
  BY DEF End, Peer
<1>10. /\ q[s.from] = (curr.seq[s.from] + s.count) % Short /\ q[out] = curr.seq[out]
       /\ a[out] = (curr.ack[out] + (s.count + d)) % Short /\ a[s.from] = curr.ack[s.from]
  BY <1>1, <1>2, <1>9 DEF q, a
<1> QED
  BY <1>7, <1>8, <1>10 DEF l

\* The send under way.
SendNow == Sends(todo)[todo.step]

LEMMA SendUnderWay ==
    ASSUME WireAssumption, SessionInv, todo # Nothing
    PROVE  SendNow.from \in End /\ SendNow.count \in Nat /\ curr # NoSession /\ curr \in Session
<1> DEFINE sends == Sends(todo)
<1>1. /\ todo \in Doing /\ todo.step <= Len(sends) /\ curr # NoSession /\ curr \in Session
  BY DEF SessionInv, SessionTyped
<1>2. todo.cmd \in {"open", "data", "close", "reset"} /\ todo.in \in End /\ todo.len \in Nat
  BY <1>1 DEF Doing, WireAssumption
<1>3. /\ Len(sends) \in Nat
      /\ \A k \in 1 .. Len(sends) : sends[k].from \in End /\ sends[k].count \in Nat
  BY <1>2, StepProperties, Zenon DEF Sends
<1>4. todo.step \in Nat /\ 1 <= todo.step
  BY <1>1 DEF Doing
<1> HIDE DEF sends
<1>5. todo.step \in 1 .. Len(sends)
  BY <1>1, <1>3, <1>4
<1> QED
  BY <1>1, <1>3, <1>5, Zenon DEF SendNow, sends

\* Its packet is expected to come out as the box sends it.
LEMMA SentAsExpected ==
    ASSUME ChecksumAssumption, WireAssumption, SessionInv, todo # Nothing, NEW w,
           w = Sent(SendNow, IF SendsData THEN todo.len ELSE 0, IF SendsData THEN announced ELSE 0)
    PROVE  w.kind = "tcp" /\ (~misled => w.expected = w.boxed)
<1> DEFINE s == SendNow
           out == Peer(s.from)
           datalen == IF SendsData THEN todo.len ELSE 0
           change == IF SendsData THEN announced ELSE 0
<1>1. /\ s.from \in End /\ curr # NoSession /\ curr \in Session
  BY SendUnderWay
<1>2. /\ InTune /\ WireTypeOK /\ (misled \/ SendsData \/ announced = 0)
  BY DEF SessionInv, SessionTyped
<1>3. Short \in Nat \ {0}
  BY ShortType
<1> HIDE DEF s
<1>4. out \in End /\ Peer(out) = s.from
  BY <1>1 DEF End, Peer
<1>5. \A e \in End : curr.seq[e] \in Number /\ curr.ack[e] \in Number /\ shift[e] \in Int
  BY <1>1, <1>2 DEF Session, WireTypeOK, End
<1>6. /\ w.kind = "tcp"
      /\ w.expected = <<curr.ack[out], curr.seq[out], datalen + curr.lenchange>>
      /\ w.boxed = << (curr.seq[s.from] + shift[s.from]) % Short,
                      (curr.ack[s.from] - shift[out]) % Short, datalen + change >>
  <2>1. w = Sent(s, datalen, change)
    BY DEF s
  <2> HIDE DEF datalen, change
  <2> QED
    BY <2>1, SentFields
<1>7. ASSUME ~misled PROVE w.expected = w.boxed
  <2>1. /\ \A e \in End : curr.ack[Peer(e)] = (curr.seq[e] + shift[e]) % Short
        /\ curr.lenchange = announced
    BY <1>1, <1>2, <1>7 DEF InTune
  <2>2. curr.ack[out] = (curr.seq[s.from] + shift[s.from]) % Short
    BY <1>1, <2>1
  <2>3. curr.seq[out] = (curr.ack[s.from] - shift[out]) % Short
    <3>1. curr.ack[s.from] = (curr.seq[out] + shift[out]) % Short
      BY <1>4, <2>1
    <3>2. curr.seq[out] \in Number /\ shift[out] \in Int /\ 0 \in Int
      BY <1>4, <1>5
    <3>3. curr.seq[out] = (((curr.seq[out] + shift[out]) % Short) - shift[out]) % Short
      BY <1>3, <3>2, NumbersStayInTune, Zenon
    <3> QED
      BY <3>1, <3>3, Zenon
  <2>4. datalen + curr.lenchange = datalen + change
    BY <1>2, <1>7, <2>1
  <2> QED
    BY <1>6, <2>2, <2>3, <2>4, Zenon
<1> QED
  BY <1>6, <1>7

\* A send that fails when its packet has gone out: what the box did with an announced
\* change is not counted, and the history knows of it.
LEMMA LateFailureKeepsSession ==
    ASSUME ChecksumAssumption, WireAssumption, SessionInv, tcp_send_fails_late
    PROVE  SessionInv'
<1> DEFINE s == SendNow
           w == Sent(s, IF SendsData THEN todo.len ELSE 0, IF SendsData THEN announced ELSE 0)
<1>1. /\ todo # Nothing /\ todo' = Nothing /\ wire' = w
      /\ curr' = curr \/ curr' = NoSession
      /\ shift' = IF SendsData THEN [shift EXCEPT ![s.from] = @ + announced] ELSE shift
      /\ announced' = IF SendsData THEN 0 ELSE announced
      /\ misled' = (misled \/ (SendsData /\ announced # 0))
      /\ script' = script /\ uses' = uses /\ frags' = frags /\ crashed' = crashed
  BY DEF tcp_send_fails_late, GivesUp, GoesOut, SendNow, Sends
<1>2. WireTypeOK /\ SessionTyped /\ InTune /\ SessionInStep /\ announced \in Int
  BY DEF SessionInv, SessionTyped
<1>3. s.from \in End /\ ~crashed /\ script = "tcpsession"
  BY <1>1, SendUnderWay DEF SessionInv
<1>4. w.kind = "tcp" /\ (~misled => w.expected = w.boxed)
  BY <1>1, SentAsExpected
<1> HIDE DEF s, w
<1>5. misled' \in BOOLEAN /\ (misled => misled')
  BY <1>1, <1>2, Zenon DEF WireTypeOK
<1>6. /\ shift' \in [End -> Int] /\ announced' \in Int
      /\ ~misled' => shift' = shift /\ announced' = announced
  <2>1. shift \in [End -> Int] /\ misled \in BOOLEAN
    BY <1>2 DEF WireTypeOK
  <2>2. CASE SendsData
    <3>1. shift' = [shift EXCEPT ![s.from] = @ + announced] /\ announced' = 0
      BY <1>1, <2>2
    <3>2. announced = 0 => shift' = shift
      BY <1>3, <2>1, <3>1
    <3>3. shift' \in [End -> Int]
      BY <1>2, <1>3, <2>1, <3>1
    <3>4. ~misled' => announced = 0
      BY <1>1, <2>2, Zenon
    <3> QED
      BY <3>1, <3>2, <3>3, <3>4
  <2>3. CASE ~SendsData
    BY <1>1, <1>2, <2>1, <2>3
  <2> QED
    BY <2>2, <2>3
<1>7. WireTypeOK'
  BY <1>1, <1>2, <1>4, <1>5, <1>6, Zenon DEF WireTypeOK
<1>8. SessionTyped' /\ InTune'
  BY <1>1, <1>2, <1>5, <1>6, <1>7, Zenon DEF SessionTyped, InTune
<1>9. ~crashed'
  BY <1>1, <1>3
<1>10. SessionInStep'
  BY <1>1, <1>4, <1>5, <1>7, <1>9, Zenon DEF SessionInStep
<1> QED
  BY <1>1, <1>3, <1>8, <1>9, <1>10, Zenon DEF SessionInv

\* A send: what is expected of it is what the box sends, and the numbers stay in tune.
LEMMA SendKeepsSession ==
    ASSUME ChecksumAssumption, WireAssumption, SessionInv, tcp_send
    PROVE  SessionInv'
<1> DEFINE sends == Sends(todo)
           s == sends[todo.step]
           last == todo.step = Len(sends)
           datalen == IF SendsData THEN todo.len ELSE 0
           change == IF SendsData THEN announced ELSE 0
           w == Sent(s, datalen, change)
           ended == last /\ todo.cmd \in {"close", "reset"}
<1>1. /\ todo # Nothing
      /\ wire' = w
      /\ curr' = IF ended THEN NoSession ELSE Counted(s)
      /\ shift' = IF SendsData THEN [shift EXCEPT ![s.from] = @ + announced] ELSE shift
      /\ announced' = IF SendsData THEN 0 ELSE announced
      /\ todo' = IF last THEN Nothing ELSE [todo EXCEPT !.step = @ + 1]
      /\ script' = script /\ uses' = uses /\ frags' = frags /\ misled' = misled
      /\ crashed' = crashed
  BY DEF tcp_send, GoesOut, SendsData, Sends
<1>2. WireTypeOK /\ SessionTyped /\ InTune /\ SessionInStep
  BY DEF SessionInv, SessionTyped
<1>3. /\ todo \in Doing /\ todo.step <= Len(sends) /\ curr # NoSession
      /\ curr \in Session /\ (misled \/ SendsData \/ announced = 0) /\ announced \in Int
      /\ ~crashed /\ script = "tcpsession"
  BY <1>1 DEF SessionInv, SessionTyped
<1>4. Short \in Nat \ {0} /\ MaxData \in Nat
  BY ShortType DEF WireAssumption
<1>5. /\ Len(sends) \in Nat /\ Len(sends) <= 3 /\ (todo.cmd = "data" => Len(sends) = 2)
      /\ \A k \in 1 .. Len(sends) : sends[k].from \in End /\ sends[k].count \in Nat
  <2>1. todo.cmd \in {"open", "data", "close", "reset"} /\ todo.in \in End /\ todo.len \in Nat
    BY <1>3, <1>4 DEF Doing
  <2> QED
    BY <2>1, StepProperties, Zenon DEF Sends
<1>6. todo.step \in Nat /\ 1 <= todo.step /\ todo.step <= 3 /\ todo.len \in 0 .. MaxData
  BY <1>3 DEF Doing
<1>7. s.from \in End /\ s.count \in Nat
  <2>1. todo.step \in 1 .. Len(sends)
    BY <1>3, <1>5, <1>6
  <2> QED
    BY <1>5, <2>1, Zenon
<1>0. s = SendNow
  BY DEF SendNow
<1> HIDE DEF sends, s
<1> DEFINE out == Peer(s.from)
           g == IF SendsData THEN curr.lenchange ELSE 0
<1>8. out \in End /\ out # s.from /\ (\A e \in End : e = s.from \/ e = out)
      /\ Peer(out) = s.from
  BY <1>7 DEF End, Peer
<1>9. /\ \A e \in End : curr.seq[e] \in Number /\ curr.ack[e] \in Number /\ shift[e] \in Int
      /\ curr.lenchange \in Int /\ shift \in [End -> Int]
  BY <1>2, <1>3 DEF Session, WireTypeOK, End
<1>10. /\ g \in Int
       /\ ~misled =>
            /\ \A e \in End : curr.ack[Peer(e)] = (curr.seq[e] + shift[e]) % Short
            /\ curr.lenchange = announced /\ g = change
  BY <1>2, <1>3, <1>9 DEF InTune
<1>11. w.kind = "tcp" /\ (~misled => w.expected = w.boxed)
  <2>1. todo # Nothing
    BY <1>1
  <2>2. w = Sent(SendNow, IF SendsData THEN todo.len ELSE 0, IF SendsData THEN announced ELSE 0)
    BY <1>0, Zenon
  <2> HIDE DEF w
  <2> QED
    BY <2>1, <2>2, SentAsExpected
<1> HIDE DEF w
<1>13. /\ shift' \in [End -> Int] /\ announced' \in Int
       /\ ~misled => shift' = [shift EXCEPT ![s.from] = @ + g]
  <2>0. shift \in [End -> Int] /\ s.from \in End /\ announced \in Int /\ g \in Int
    BY <1>3, <1>7, <1>9, <1>10
  <2>1. CASE SendsData
    <3>1. shift' = [shift EXCEPT ![s.from] = @ + announced] /\ announced' = 0
      BY <1>1, <2>1
    <3>2. ~misled => g = announced
      BY <1>10, <2>1
    <3>3. shift' \in [End -> Int]
      BY <2>0, <3>1
    <3> HIDE DEF g
    <3>4. ~misled => shift' = [shift EXCEPT ![s.from] = @ + g]
      BY <3>1, <3>2, Zenon
    <3>5. announced' \in Int
      BY <3>1
    <3> QED
      BY <3>3, <3>4, <3>5, Zenon
  <2>2. CASE ~SendsData
    <3>1. shift' = shift /\ announced' = announced /\ g = 0
      BY <1>1, <2>2
    <3> HIDE DEF g
    <3> QED
      BY <2>0, <3>1
  <2> QED
    BY <2>1, <2>2
<1>14. CASE ended
  <2>1. curr' = NoSession /\ todo' = Nothing
    BY <1>1, <1>14
  <2>2. WireTypeOK'
    BY <1>1, <1>2, <1>11, <1>13, <2>1, Zenon DEF WireTypeOK, End
  <2>3. SessionTyped'
    BY <1>13, <2>1, <2>2, Zenon DEF SessionTyped
  <2>4. SessionInStep'
    BY <1>1, <1>3, <1>11, <2>1, <2>2, Zenon DEF SessionInStep
  <2> QED
    BY <2>1, <2>3, <2>4, Zenon DEF SessionInv, InTune
<1>15. CASE ~ended
  <2> DEFINE c == Counted(s)
  <2>1. curr' = c
    BY <1>1, <1>15
  <2>2. /\ c \in Session /\ c # NoSession
        /\ c.seq[s.from] = (curr.seq[s.from] + s.count) % Short
        /\ c.ack[out] = (curr.ack[out] + (s.count + g)) % Short
        /\ c.seq[out] = curr.seq[out] /\ c.ack[s.from] = curr.ack[s.from]
        /\ c.lenchange = curr.lenchange - g
    <3>1. g = IF SendsData THEN curr.lenchange ELSE 0
      OBVIOUS
    <3>2. g \in Int /\ s.count \in Nat
      BY <1>7, <1>10
    <3>3. c = Counted(s)
      OBVIOUS
    <3>4. Short \in Nat \ {0} /\ curr \in Session /\ s.from \in End
      BY <1>3, <1>4, <1>7
    <3> HIDE DEF c, g
    <3>5. c \in Session /\ c # NoSession
      BY <3>1, <3>2, <3>3, <3>4, CountedProperties, Zenon
    <3>6. /\ c.seq[s.from] = (curr.seq[s.from] + s.count) % Short
          /\ c.seq[out] = curr.seq[out] /\ c.ack[s.from] = curr.ack[s.from]
      BY <3>1, <3>2, <3>3, <3>4, CountedProperties, Zenon
    <3>7. c.ack[out] = (curr.ack[out] + (s.count + g)) % Short
      BY <3>1, <3>2, <3>3, <3>4, CountedProperties
    <3>8. c.lenchange = curr.lenchange - g
      BY <3>1, <3>2, <3>3, <3>4, CountedProperties, Zenon
    <3> QED
      BY <3>5, <3>6, <3>7, <3>8
  <2>g. g \in Int
    BY <1>10
  <2> HIDE DEF c, g
  <2>3. InTune'
    <3>0. SUFFICES ASSUME ~misled
                   PROVE  InTune'
      BY <1>1 DEF InTune
    <3>3. c.ack[out] = (c.seq[s.from] + shift'[s.from]) % Short
      <4>1. /\ c.seq[s.from] = (curr.seq[s.from] + s.count) % Short
            /\ c.ack[out] = (curr.ack[out] + (s.count + g)) % Short
            /\ shift'[s.from] = shift[s.from] + g
        BY <1>7, <1>9, <1>13, <2>2, <3>0
      <4>2. curr.ack[out] = (curr.seq[s.from] + shift[s.from]) % Short
        BY <1>7, <1>10, <3>0
      <4>3. curr.seq[s.from] \in Number /\ shift[s.from] \in Int /\ s.count \in Int
        BY <1>7, <1>9
      <4>4. (((curr.seq[s.from] + shift[s.from]) % Short) + (s.count + g)) % Short
              = (((curr.seq[s.from] + s.count) % Short) + (shift[s.from] + g)) % Short
        <5> DEFINE q == curr.seq[s.from]
                   sh == shift[s.from]
                   n == s.count
        <5>1. q \in Number /\ sh \in Int /\ n \in Int /\ g \in Int /\ Short \in Nat \ {0}
          BY <1>4, <2>g, <4>3
        <5> HIDE DEF q, sh, n
        <5>2. (((q + sh) % Short) + (n + g)) % Short = (((q + n) % Short) + (sh + g)) % Short
          BY <5>1, NumbersStayInTune
        <5> QED
          BY <5>2, Zenon DEF q, sh, n
      <4> QED
        BY <4>1, <4>2, <4>4, Zenon
    <3>4. c.ack[s.from] = (c.seq[out] + shift'[out]) % Short
      <4>1. c.seq[out] = curr.seq[out] /\ c.ack[s.from] = curr.ack[s.from] /\ shift'[out] = shift[out]
        BY <1>7, <1>8, <1>9, <1>13, <2>2, <3>0
      <4> QED
        BY <1>8, <1>10, <3>0, <4>1
    <3>5. c.lenchange = announced'
      BY <1>1, <1>3, <1>10, <2>2, <3>0 DEF g
    <3>6. \A e \in End : c.ack[Peer(e)] = (c.seq[e] + shift'[e]) % Short
      BY <1>8, <3>3, <3>4
    <3> QED
      BY <1>1, <2>1, <3>5, <3>6 DEF InTune
  <2>8. \/ todo' = Nothing
        \/ /\ todo' # Nothing /\ todo' \in Doing /\ todo'.step <= Len(Sends(todo'))
           /\ misled \/ announced' = 0
    <3>1. CASE last
      BY <1>1, <3>1
    <3>2. CASE ~last
      <4>1. todo' = [todo EXCEPT !.step = @ + 1]
        BY <1>1, <3>2
      <4>2. todo.step + 1 <= Len(sends) /\ todo.step + 1 \in 1 .. 3
        BY <1>3, <1>5, <1>6, <3>2
      <4>3. todo' \in Doing /\ todo'.step = todo.step + 1 /\ todo'.cmd = todo.cmd
            /\ todo'.in = todo.in /\ todo'.len = todo.len
        BY <1>3, <4>1, <4>2 DEF Doing
      <4>4. Sends(todo') = sends
        BY <4>3, Zenon DEF Sends, sends
      <4>5. todo' # Nothing
        BY <4>3 DEF Doing, Nothing
      <4>6. misled \/ announced' = 0
        BY <1>1, <1>3
      <4> QED
        BY <4>2, <4>3, <4>4, <4>5, <4>6, Zenon
    <3> QED
      BY <3>1, <3>2
  <2>9. WireTypeOK'
    <3>1. todo' # Nothing => todo'.cmd \in {"open", "data", "close", "reset"}
            /\ todo'.in \in End
      BY <2>8 DEF Doing
    <3>2. /\ c.seq \in [End -> 0 .. Short - 1]
          /\ c.ack \in [End -> 0 .. Short - 1]
          /\ c.lenchange \in Int
      BY <2>2 DEF Session, End, Number, Short
    <3> QED
      BY <1>1, <1>2, <1>11, <1>13, <2>1, <3>1, <3>2, Zenon DEF WireTypeOK, End
  <2>10. SessionTyped'
    BY <1>13, <2>1, <2>2, <2>8, <2>9, Zenon DEF SessionTyped
  <2>11. ~crashed'
    BY <1>1, <1>3
  <2>12. SessionInStep'
    BY <1>1, <1>11, <2>9, <2>11, Zenon DEF SessionInStep
  <2>13. todo' # Nothing => misled' \/ announced' = 0
    BY <1>1, <2>8
  <2> QED
    BY <1>1, <1>3, <2>1, <2>2, <2>3, <2>10, <2>11, <2>12, <2>13, Zenon DEF SessionInv
<1> QED
  BY <1>14, <1>15

\* No command of the scripts, and no packet of one under way, brings the two ends of the
\* connection out of tune: one case per action.
LEMMA StepKeepsSession ==
    ASSUME ChecksumAssumption, WireAssumption, SessionInv, FragInv,
           [WireNext]_wireVars
    PROVE  SessionInv'
<1>1. ASSUME NEW in \in End,
             (\E len \in 0 .. MaxData : send_data(in, len)) \/ close_session(in)
                \/ reset_session(in)
      PROVE  SessionInv'
  <2>1. ASSUME NEW len \in 0 .. MaxData, send_data(in, len) PROVE SessionInv'
    BY <2>1, CommandKeepsSession DEF send_data, End
  <2>2. 0 \in 0 .. MaxData
    BY DEF WireAssumption
  <2>3. CASE close_session(in)
    BY <2>2, <2>3, CommandKeepsSession DEF close_session, End
  <2>4. CASE reset_session(in)
    BY <2>2, <2>4, CommandKeepsSession DEF reset_session, End
  <2> QED
    BY <1>1, <2>1, <2>3, <2>4
<1>2. CASE UNCHANGED wireVars
  <2>1. /\ script' = script /\ todo' = todo /\ curr' = curr /\ uses' = uses
        /\ announced' = announced /\ shift' = shift /\ misled' = misled /\ wire' = wire
        /\ frags' = frags /\ crashed' = crashed
    BY <1>2 DEF wireVars, sessionVars
  <2> QED
    BY <2>1 DEF SessionInv, SessionTyped, InTune, WireTypeOK, SessionInStep, SendsData
<1>3. CASE WireNext
  BY <1>1, <1>3, OthersKeepSession, OpenKeepsSession, LenchangeKeepsSession,
     AbandonKeepsSession, SendKeepsSession, FailedSendKeepsSession,
     LateFailureKeepsSession DEF WireNext
<1> QED
  BY <1>2, <1>3

\* tcpsession expects of every packet what a box sends that does as LENCHANGE announced,
\* for every number of commands, first sequence number and change of length, however often
\* numbers wrap and sessions are begun again, and through sends that fail before or after
\* their packet has gone out, unless an announced change was wasted on something else than
\* data or on data whose send then failed (tcp_send, send_data, lenchange).
THEOREM SessionAlwaysInStep == WireSpec => []SessionInStep
<1> USE ChecksumAssumption, WireAssumption
<1>1. WireInit => SessionInv
  BY SessionBegins
<1>2. SessionInv /\ FragInv /\ [WireNext]_wireVars => SessionInv'
  BY StepKeepsSession
<1>3. SessionInv => SessionInStep
  BY DEF SessionInv
<1> QED
  BY <1>1, <1>2, <1>3, FragmentsAlwaysCut, PTL DEF WireSpec

-----------------------------------------------------------------------------
(* Files made of records.                                                  *)

\* A piece of a sequence.
LEMMA PieceProperties ==
    ASSUME NEW S, NEW s \in Seq(S), NEW a \in Nat, NEW b \in Nat, b <= Len(s)
    PROVE  /\ SubSeq(s, a + 1, b) \in Seq(S)
           /\ Len(SubSeq(s, a + 1, b)) = IF a <= b THEN b - a ELSE 0
           /\ \A i \in 1 .. b - a : SubSeq(s, a + 1, b)[i] = s[a + i]
<1>1. \A i \in a + 1 .. b : s[i] \in S
  <2> SUFFICES ASSUME NEW i \in a + 1 .. b PROVE s[i] \in S
    OBVIOUS
  <2>1. i \in 1 .. Len(s)
    OBVIOUS
  <2> QED
    BY <2>1
<1>2. a + 1 \in Int /\ b \in Int
  OBVIOUS
<1>3. /\ SubSeq(s, a + 1, b) \in Seq(S)
      /\ Len(SubSeq(s, a + 1, b)) = IF a + 1 <= b THEN b - (a + 1) + 1 ELSE 0
      /\ \A i \in 1 .. b - (a + 1) + 1 : SubSeq(s, a + 1, b)[i] = s[a + 1 + i - 1]
  BY <1>1, <1>2, SubSeqProperties
<1>4. b - (a + 1) + 1 = b - a /\ \A i \in Int : a + 1 + i - 1 = a + i
  OBVIOUS
<1>5. \A i \in 1 .. b - a : SubSeq(s, a + 1, b)[i] = s[a + i]
  BY <1>3, <1>4
<1>6. Len(SubSeq(s, a + 1, b)) = IF a <= b THEN b - a ELSE 0
  BY <1>3, <1>4
<1> QED
  BY <1>3, <1>5, <1>6

\* Two pieces that follow each other.
LEMMA PiecesJoin ==
    ASSUME NEW S, NEW s \in Seq(S), NEW a \in Nat, NEW b \in Nat, NEW c \in Nat,
           a <= b, b <= c, c <= Len(s)
    PROVE  SubSeq(s, a + 1, b) \o SubSeq(s, b + 1, c) = SubSeq(s, a + 1, c)
<1> DEFINE x == SubSeq(s, a + 1, b)
           y == SubSeq(s, b + 1, c)
           z == SubSeq(s, a + 1, c)
<1>1. x \in Seq(S) /\ Len(x) = b - a /\ \A i \in 1 .. b - a : x[i] = s[a + i]
  BY PieceProperties
<1>2. y \in Seq(S) /\ Len(y) = c - b /\ \A i \in 1 .. c - b : y[i] = s[b + i]
  BY PieceProperties
<1>3. z \in Seq(S) /\ Len(z) = c - a /\ \A i \in 1 .. c - a : z[i] = s[a + i]
  BY PieceProperties
<1> HIDE DEF x, y, z
<1>4. /\ x \o y \in Seq(S) /\ Len(x \o y) = Len(x) + Len(y)
      /\ \A i \in 1 .. Len(x) + Len(y) : (x \o y)[i] = IF i <= Len(x) THEN x[i] ELSE y[i - Len(x)]
  BY <1>1, <1>2, ConcatProperties
<1>5. Len(x \o y) = Len(z) /\ Len(x) + Len(y) = c - a
  BY <1>1, <1>2, <1>3, <1>4
<1>6. ASSUME NEW i \in 1 .. c - a PROVE (x \o y)[i] = z[i]
  <2>1. CASE i <= b - a
    <3>1. i \in 1 .. b - a /\ i \in 1 .. Len(x) + Len(y) /\ i <= Len(x)
      BY <1>1, <1>5, <2>1
    <3>2. (x \o y)[i] = x[i]
      BY <1>4, <3>1
    <3> QED
      BY <1>1, <1>3, <3>1, <3>2
  <2>2. CASE ~(i <= b - a)
    <3>1. i - (b - a) \in 1 .. c - b /\ b + (i - (b - a)) = a + i
      BY <2>2
    <3>2. (x \o y)[i] = y[i - (b - a)]
      BY <1>1, <1>4, <1>5, <2>2
    <3> QED
      BY <1>2, <1>3, <3>1, <3>2
  <2> QED
    BY <2>1, <2>2
<1> QED
  BY <1>1, <1>3, <1>4, <1>5, <1>6, SeqEqual DEF x, y, z

\* s is the beginning of t.
Begins(s, t) == Len(s) <= Len(t) /\ \A i \in 1 .. Len(s) : s[i] = t[i]

\* A piece of the beginning is a piece of the whole.
LEMMA PieceOfBeginning ==
    ASSUME NEW S, NEW s \in Seq(S), NEW t \in Seq(S), Begins(s, t),
           NEW a \in Nat, NEW b \in Nat, b <= Len(s)
    PROVE  SubSeq(s, a + 1, b) = SubSeq(t, a + 1, b)
<1> DEFINE x == SubSeq(s, a + 1, b)
           y == SubSeq(t, a + 1, b)
<1>1. Len(s) \in Nat /\ Len(t) \in Nat /\ b <= Len(t)
  BY DEF Begins
<1>2. /\ x \in Seq(S) /\ Len(x) = IF a <= b THEN b - a ELSE 0
      /\ \A i \in 1 .. b - a : x[i] = s[a + i]
  BY PieceProperties
<1>3. /\ y \in Seq(S) /\ Len(y) = IF a <= b THEN b - a ELSE 0
      /\ \A i \in 1 .. b - a : y[i] = t[a + i]
  BY <1>1, PieceProperties
<1> HIDE DEF x, y
<1>4. ASSUME NEW i \in 1 .. Len(x) PROVE x[i] = y[i]
  <2>1. i \in 1 .. b - a /\ a + i \in 1 .. Len(s)
    BY <1>1, <1>2
  <2> QED
    BY <1>2, <1>3, <2>1 DEF Begins
<1> QED
  BY <1>2, <1>3, <1>4, SeqEqual DEF x, y

\* A piece of a piece.
LEMMA PieceOfPiece ==
    ASSUME NEW S, NEW s \in Seq(S), NEW a \in Nat, NEW c \in Nat, a <= c, c <= Len(s),
           NEW i \in Nat, NEW k \in Nat, k <= c - a
    PROVE  SubSeq(SubSeq(s, a + 1, c), i + 1, k) = SubSeq(s, a + i + 1, a + k)
<1> DEFINE t == SubSeq(s, a + 1, c)
           x == SubSeq(t, i + 1, k)
           y == SubSeq(s, (a + i) + 1, a + k)
<1>1. t \in Seq(S) /\ Len(t) = c - a /\ \A j \in 1 .. c - a : t[j] = s[a + j]
  BY PieceProperties
<1> HIDE DEF t
<1>2. /\ x \in Seq(S) /\ Len(x) = IF i <= k THEN k - i ELSE 0
      /\ \A j \in 1 .. k - i : x[j] = t[i + j]
  BY <1>1, PieceProperties
<1>3. /\ a + i \in Nat /\ a + k \in Nat /\ a + k <= Len(s)
      /\ (a + i <= a + k <=> i <= k) /\ (a + k) - (a + i) = k - i
  OBVIOUS
<1>4. /\ y \in Seq(S) /\ Len(y) = IF i <= k THEN k - i ELSE 0
      /\ \A j \in 1 .. k - i : y[j] = s[(a + i) + j]
  <2> DEFINE e == a + i
             g == a + k
  <2>1. e \in Nat /\ g \in Nat /\ g <= Len(s) /\ (e <= g <=> i <= k) /\ g - e = k - i
    BY <1>3
  <2> HIDE DEF e, g
  <2>2. /\ SubSeq(s, e + 1, g) \in Seq(S)
        /\ Len(SubSeq(s, e + 1, g)) = IF e <= g THEN g - e ELSE 0
        /\ \A j \in 1 .. g - e : SubSeq(s, e + 1, g)[j] = s[e + j]
    BY <2>1, PieceProperties
  <2>3. y = SubSeq(s, e + 1, g)
    BY DEF e, g
  <2> HIDE DEF y
  <2>4. /\ y \in Seq(S) /\ Len(y) = IF i <= k THEN k - i ELSE 0
        /\ \A j \in 1 .. k - i : y[j] = s[e + j]
    BY <2>1, <2>2, <2>3
  <2> QED
    BY <2>4 DEF e
<1> HIDE DEF x, y
<1>5. ASSUME NEW j \in 1 .. Len(x) PROVE x[j] = y[j]
  <2>1. j \in 1 .. k - i /\ i + j \in 1 .. c - a /\ a + (i + j) = (a + i) + j
    BY <1>2
  <2> QED
    BY <1>1, <1>2, <1>4, <2>1
<1> QED
  BY <1>2, <1>4, <1>5, SeqEqual DEF x, y, t

-----------------------------------------------------------------------------
\* A byte of text.
Char == Record \X Nat

\* The text of one record, byte by byte.
LEMMA BytesOfRecord ==
    ASSUME NEW r \in Record
    PROVE  /\ Bytes(r) \in Seq(Char) /\ Len(Bytes(r)) = Length[r] /\ Length[r] \in Nat
           /\ \A b \in 1 .. Length[r] : Bytes(r)[b] = <<r, b>>
<1>1. Length[r] \in Nat
  BY SeqAssumption
<1>2. \A b \in 1 .. Length[r] : <<r, b>> \in Char
  BY <1>1 DEF Char
<1> QED
  BY <1>1, <1>2 DEF Bytes

\* What makes a function the texts of the beginnings of t, up to n records.
Texts(g, t, n) ==
    /\ g = [k \in 0 .. n |-> g[k]]
    /\ g[0] = << >>
    /\ \A k \in 1 .. n : g[k] = g[k - 1] \o Bytes(t[k])

\* There is such a function: one record more needs only its text behind the others'.
LEMMA TextsExist ==
    ASSUME NEW t \in Seq(Record), NEW n \in 0 .. Len(t)
    PROVE  \E g : Texts(g, t, n)
<1> DEFINE T == { k \in 0 .. Len(t) : ~\E g : Texts(g, t, k) }
<1> SUFFICES ASSUME T # {} PROVE FALSE
  OBVIOUS
<1>0. Len(t) \in Nat
  OBVIOUS
<1>1. T \subseteq Nat
  BY <1>0
<1>2. PICK k \in T : \A j \in T : k <= j
  BY <1>1, Least
<1>3. k # 0
  <2>1. Texts([j \in 0 .. 0 |-> << >>], t, 0)
    BY DEF Texts
  <2> QED
    BY <2>1
<1>4. k - 1 \in 0 .. Len(t) /\ k \in 1 .. Len(t) /\ ~(k <= k - 1)
  BY <1>0, <1>3
<1>5. PICK g : Texts(g, t, k - 1)
  BY <1>2, <1>4
<1> DEFINE h == [j \in 0 .. k |-> IF j = k THEN g[k - 1] \o Bytes(t[k]) ELSE g[j]]
<1>6. Texts(h, t, k)
  <2>1. h = [j \in 0 .. k |-> h[j]] /\ h[0] = << >>
    BY <1>4, <1>5 DEF Texts
  <2>2. ASSUME NEW j \in 1 .. k PROVE h[j] = h[j - 1] \o Bytes(t[j])
    <3>1. j - 1 \in 0 .. k /\ j - 1 # k /\ j \in 0 .. k
      BY <1>4
    <3>2. h[j - 1] = g[j - 1]
      BY <3>1
    <3>3. CASE j = k
      BY <3>1, <3>2, <3>3
    <3>4. CASE j # k
      <4>1. j \in 1 .. k - 1
        BY <1>4, <3>4
      <4> QED
        BY <1>5, <3>1, <3>2, <3>4, <4>1 DEF Texts
    <3> QED
      BY <3>3, <3>4
  <2> QED
    BY <2>1, <2>2 DEF Texts
<1> QED
  BY <1>6

\* Upto is one, although nothing but its recursion is known of it.
LEMMA UptoTexts ==
    ASSUME NEW t \in Seq(Record)
    PROVE  Texts(Upto(t), t, Len(t))
<1> DEFINE F(g) == [n \in 0 .. Len(t) |-> IF n = 0 THEN << >> ELSE g[n - 1] \o Bytes(t[n])]
<1>0. Len(t) \in Nat
  OBVIOUS
<1>1. PICK g : Texts(g, t, Len(t))
  BY <1>0, TextsExist
<1>2. g = F(g)
  <2>2. ASSUME NEW n \in 0 .. Len(t) PROVE g[n] = F(g)[n]
    BY <1>0, <1>1 DEF Texts
  <2>3. g = [n \in 0 .. Len(t) |-> g[n]]
    BY <1>1 DEF Texts
  <2> QED
    BY <2>2, <2>3
<1>3. Upto(t) = CHOOSE h : h = F(h)
  BY DEF Upto
<1>4. Upto(t) = F(Upto(t))
  <2> HIDE DEF F
  <2> QED
    BY <1>2, <1>3, Zenon
<1> DEFINE U == Upto(t)
<1> HIDE DEF U
<1>5. U = F(U)
  BY <1>4 DEF U
<1>6. U = [k \in 0 .. Len(t) |-> U[k]] /\ U[0] = << >>
  BY <1>0, <1>5
<1>7. ASSUME NEW k \in 1 .. Len(t) PROVE U[k] = U[k - 1] \o Bytes(t[k])
  <2>1. k \in 0 .. Len(t) /\ k # 0
    BY <1>0
  <2> QED
    BY <1>5, <2>1
<1> QED
  BY <1>6, <1>7 DEF Texts, U

-----------------------------------------------------------------------------
\* The bytes of s follow each other as those of whole records do.
Untorn(s) ==
    \A i \in 2 .. Len(s) :
        IF s[i][2] > 1 THEN s[i - 1] = <<s[i][1], s[i][2] - 1>>
        ELSE s[i - 1][2] = Length[s[i - 1][1]]

\* s ends with the last byte of a record.
EndsWhole(s) == s # << >> => s[Len(s)][2] = Length[s[Len(s)][1]]

\* s starts with the first byte of a record.
StartsWhole(s) == s # << >> => s[1][2] = 1

\* The first byte of t may follow the last one of s.
Continues(s, t) ==
    s # << >> /\ t # << >> =>
        IF t[1][2] > 1 THEN s[Len(s)] = <<t[1][1], t[1][2] - 1>>
        ELSE s[Len(s)][2] = Length[s[Len(s)][1]]

\* A sequence is empty when its length is 0.
LEMMA NonEmpty ==
    ASSUME NEW S, NEW s \in Seq(S)
    PROVE  Len(s) \in Nat /\ (s = << >> <=> Len(s) = 0)
<1>1. s # << >> => Len(s) # 0
  BY EmptySeq
<1> QED
  BY <1>1

\* Two pieces without a torn record make one, if the second continues the first.
LEMMA UntornJoin ==
    ASSUME NEW s \in Seq(Char), NEW t \in Seq(Char), Untorn(s), Untorn(t), Continues(s, t)
    PROVE  Untorn(s \o t)
<1> DEFINE u == s \o t
           m == Len(s)
           n == Len(t)
<1>1. m \in Nat /\ n \in Nat /\ (s = << >> <=> m = 0) /\ (t = << >> <=> n = 0)
  BY NonEmpty
<1>2. /\ Len(u) = m + n
      /\ \A i \in 1 .. m + n : u[i] = IF i <= m THEN s[i] ELSE t[i - m]
  BY ConcatProperties
<1> HIDE DEF u, m, n
<1> SUFFICES ASSUME NEW i \in 2 .. m + n
             PROVE  IF u[i][2] > 1 THEN u[i - 1] = <<u[i][1], u[i][2] - 1>>
                    ELSE u[i - 1][2] = Length[u[i - 1][1]]
  BY <1>2 DEF Untorn, u
<1>3. i \in 1 .. m + n /\ i - 1 \in 1 .. m + n
  BY <1>1
<1>4. CASE i <= m
  <2>1. i \in 2 .. m /\ i - 1 <= m /\ u[i] = s[i] /\ u[i - 1] = s[i - 1]
    BY <1>1, <1>2, <1>3, <1>4
  <2> QED
    BY <2>1 DEF Untorn, m
<1>5. CASE i = m + 1
  <2>1. /\ s # << >> /\ t # << >> /\ ~(i <= m) /\ i - m = 1 /\ i - 1 = m /\ m <= m
    BY <1>1, <1>5
  <2>2. u[i] = t[1] /\ u[i - 1] = s[m]
    BY <1>2, <1>3, <2>1
  <2> QED
    BY <2>1, <2>2 DEF Continues, m
<1>6. CASE i > m + 1
  <2>1. i - m \in 2 .. n /\ ~(i <= m) /\ ~(i - 1 <= m) /\ (i - 1) - m = (i - m) - 1
    BY <1>1, <1>6
  <2>2. u[i] = t[i - m] /\ u[i - 1] = t[(i - m) - 1]
    BY <1>2, <1>3, <2>1
  <2> QED
    BY <2>1, <2>2 DEF Untorn, n
<1> QED
  BY <1>1, <1>4, <1>5, <1>6

\* A cut leaves two pieces of which the second continues the first.
LEMMA UntornCut ==
    ASSUME NEW s \in Seq(Char), Untorn(s), NEW n \in 0 .. Len(s)
    PROVE  /\ Untorn(SubSeq(s, 1, n)) /\ Untorn(SubSeq(s, n + 1, Len(s)))
           /\ Continues(SubSeq(s, 1, n), SubSeq(s, n + 1, Len(s)))
<1> DEFINE x == SubSeq(s, 0 + 1, n)
           y == SubSeq(s, n + 1, Len(s))
           l == Len(s)
<1>1. l \in Nat /\ n \in Nat /\ n <= l /\ 0 \in Nat /\ 0 + 1 = 1
  OBVIOUS
<1>2. x \in Seq(Char) /\ Len(x) = n /\ \A i \in 1 .. n : x[i] = s[i]
  <2>1. /\ x \in Seq(Char) /\ Len(x) = IF 0 <= n THEN n - 0 ELSE 0
        /\ \A i \in 1 .. n - 0 : x[i] = s[0 + i]
    BY <1>1, PieceProperties
  <2> QED
    BY <1>1, <2>1
<1>3. y \in Seq(Char) /\ Len(y) = l - n /\ \A i \in 1 .. l - n : y[i] = s[n + i]
  BY <1>1, PieceProperties
<1>4. \A i \in 2 .. l : IF s[i][2] > 1 THEN s[i - 1] = <<s[i][1], s[i][2] - 1>>
                        ELSE s[i - 1][2] = Length[s[i - 1][1]]
  BY DEF Untorn
<1> HIDE DEF x, y, l
<1>5. Untorn(x)
  <2> SUFFICES ASSUME NEW i \in 2 .. n
               PROVE  IF x[i][2] > 1 THEN x[i - 1] = <<x[i][1], x[i][2] - 1>>
                      ELSE x[i - 1][2] = Length[x[i - 1][1]]
    BY <1>2 DEF Untorn
  <2>1. i \in 2 .. l /\ i \in 1 .. n /\ i - 1 \in 1 .. n
    BY <1>1
  <2>2. x[i] = s[i] /\ x[i - 1] = s[i - 1]
    BY <1>2, <2>1
  <2> QED
    BY <1>4, <2>1, <2>2
<1>6. Untorn(y)
  <2> SUFFICES ASSUME NEW i \in 2 .. l - n
               PROVE  IF y[i][2] > 1 THEN y[i - 1] = <<y[i][1], y[i][2] - 1>>
                      ELSE y[i - 1][2] = Length[y[i - 1][1]]
    BY <1>3 DEF Untorn
  <2>1. n + i \in 2 .. l /\ i \in 1 .. l - n /\ i - 1 \in 1 .. l - n /\ n + (i - 1) = (n + i) - 1
    BY <1>1
  <2>2. y[i] = s[n + i] /\ y[i - 1] = s[(n + i) - 1]
    BY <1>3, <2>1
  <2> QED
    BY <1>4, <2>1, <2>2
<1>7. Continues(x, y)
  <2> SUFFICES ASSUME x # << >>, y # << >>
               PROVE  IF y[1][2] > 1 THEN x[n] = <<y[1][1], y[1][2] - 1>>
                      ELSE x[n][2] = Length[x[n][1]]
    BY <1>2 DEF Continues
  <2>1. n # 0 /\ l - n # 0
    BY <1>2, <1>3, NonEmpty
  <2>2. n \in 1 .. n /\ 1 \in 1 .. l - n /\ n + 1 \in 2 .. l /\ (n + 1) - 1 = n
    BY <1>1, <2>1
  <2>3. x[n] = s[n] /\ y[1] = s[n + 1]
    BY <1>2, <1>3, <2>2
  <2>4. IF s[n + 1][2] > 1 THEN s[(n + 1) - 1] = <<s[n + 1][1], s[n + 1][2] - 1>>
        ELSE s[(n + 1) - 1][2] = Length[s[(n + 1) - 1][1]]
    BY <1>4, <2>2
  <2> QED
    BY <2>2, <2>3, <2>4
<1> QED
  BY <1>1, <1>5, <1>6, <1>7 DEF x, y, l

\* Behind a cut the end is the same.
LEMMA EndsWholeCut ==
    ASSUME NEW s \in Seq(Char), EndsWhole(s), NEW n \in 0 .. Len(s)
    PROVE  EndsWhole(SubSeq(s, n + 1, Len(s)))
<1> DEFINE y == SubSeq(s, n + 1, Len(s))
           l == Len(s)
<1>1. l \in Nat /\ n \in Nat /\ n <= l
  OBVIOUS
<1>2. y \in Seq(Char) /\ Len(y) = l - n /\ \A i \in 1 .. l - n : y[i] = s[n + i]
  BY <1>1, PieceProperties
<1> HIDE DEF y, l
<1> SUFFICES ASSUME y # << >> PROVE y[l - n][2] = Length[y[l - n][1]]
  BY <1>2 DEF EndsWhole, y, l
<1>3. l - n # 0
  BY <1>2, NonEmpty
<1>4. l - n \in 1 .. l - n /\ n + (l - n) = l /\ l # 0
  BY <1>1, <1>3
<1>5. y[l - n] = s[l] /\ s # << >>
  BY <1>2, <1>4, NonEmpty DEF l
<1> QED
  BY <1>5 DEF EndsWhole, l

\* What ends a record joined with what begins one.
LEMMA WholeContinues ==
    ASSUME NEW s \in Seq(Char), NEW t \in Seq(Char), EndsWhole(s), StartsWhole(t)
    PROVE  Continues(s, t)
  BY DEF EndsWhole, StartsWhole, Continues

\* The end of two pieces is the end of the second.
LEMMA LastOfJoin ==
    ASSUME NEW s \in Seq(Char), NEW t \in Seq(Char)
    PROVE  /\ s \o t \in Seq(Char)
           /\ s \o t = << >> <=> s = << >> /\ t = << >>
           /\ t # << >> => (s \o t)[Len(s \o t)] = t[Len(t)]
           /\ t = << >> => s \o t = s
<1> DEFINE u == s \o t
           m == Len(s)
           n == Len(t)
<1>1. m \in Nat /\ n \in Nat /\ (s = << >> <=> m = 0) /\ (t = << >> <=> n = 0)
  BY NonEmpty
<1>2. /\ u \in Seq(Char) /\ Len(u) = m + n
      /\ \A i \in 1 .. m + n : u[i] = IF i <= m THEN s[i] ELSE t[i - m]
  BY ConcatProperties
<1>3. u = << >> <=> Len(u) = 0
  BY <1>2, NonEmpty
<1>4. t = << >> => u = s
  BY ConcatEmptySeq
<1> HIDE DEF u, m, n
<1>5. t # << >> => u[m + n] = t[n]
  <2> SUFFICES ASSUME t # << >> PROVE u[m + n] = t[n]
    OBVIOUS
  <2>1. m + n \in 1 .. m + n /\ ~(m + n <= m) /\ (m + n) - m = n
    BY <1>1
  <2> QED
    BY <1>2, <2>1
<1>6. u = << >> <=> s = << >> /\ t = << >>
  BY <1>1, <1>2, <1>3
<1> QED
  BY <1>2, <1>4, <1>5, <1>6 DEF u, n

\* Two pieces that end with a record do so together.
LEMMA EndsWholeJoin ==
    ASSUME NEW s \in Seq(Char), NEW t \in Seq(Char), EndsWhole(s), EndsWhole(t)
    PROVE  EndsWhole(s \o t)
<1>1. CASE t = << >>
  <2>1. s \o t = s
    BY <1>1, LastOfJoin
  <2> QED
    BY <2>1
<1>2. CASE t # << >>
  <2>1. (s \o t)[Len(s \o t)] = t[Len(t)]
    BY <1>2, LastOfJoin
  <2> QED
    BY <1>2, <2>1 DEF EndsWhole
<1> QED
  BY <1>1, <1>2

\* What continues the second part continues the whole, unless that part is empty.
LEMMA ContinuesJoin ==
    ASSUME NEW s \in Seq(Char), NEW t \in Seq(Char), NEW u \in Seq(Char), t # << >>,
           Continues(t, u)
    PROVE  Continues(s \o t, u)
<1>1. (s \o t)[Len(s \o t)] = t[Len(t)]
  BY LastOfJoin
<1> QED
  BY <1>1 DEF Continues

\* What follows is continued at its first byte.
LEMMA ContinuesFirst ==
    ASSUME NEW s \in Seq(Char), NEW t \in Seq(Char), NEW u \in Seq(Char), t # << >>,
           Continues(s, t)
    PROVE  Continues(s, t \o u)
<1>1. Len(t) \in Nat /\ Len(t) # 0 /\ Len(u) \in Nat
  BY NonEmpty
<1>2. \A i \in 1 .. Len(t) + Len(u) : (t \o u)[i] = IF i <= Len(t) THEN t[i] ELSE u[i - Len(t)]
  BY ConcatProperties
<1>3. 1 \in 1 .. Len(t) + Len(u) /\ 1 <= Len(t)
  BY <1>1
<1>4. (t \o u)[1] = t[1]
  BY <1>2, <1>3
<1> QED
  BY <1>4 DEF Continues

-----------------------------------------------------------------------------
\* The text of n records: whole records, one after the other.
WholeRecords(t, n) ==
    LET u == Upto(t)[n]
    IN  u \in Seq(Char) /\ Untorn(u) /\ EndsWhole(u)

\* One record is whole.
LEMMA RecordUntorn ==
    ASSUME NEW r \in Record
    PROVE  Untorn(Bytes(r)) /\ EndsWhole(Bytes(r)) /\ StartsWhole(Bytes(r))
<1> DEFINE s == Bytes(r)
           n == Length[r]
<1>1. s \in Seq(Char) /\ Len(s) = n /\ n \in Nat /\ \A b \in 1 .. n : s[b] = <<r, b>>
  BY BytesOfRecord
<1>2. s = << >> <=> n = 0
  BY <1>1, NonEmpty
<1> HIDE DEF s, n
<1>3. ASSUME NEW i \in 2 .. n PROVE s[i][2] > 1 /\ s[i - 1] = <<s[i][1], s[i][2] - 1>>
  <2>1. i \in 1 .. n /\ i - 1 \in 1 .. n /\ i > 1
    BY <1>1
  <2>2. s[i] = <<r, i>> /\ s[i - 1] = <<r, i - 1>>
    BY <1>1, <2>1
  <2> QED
    BY <2>1, <2>2
<1>4. Untorn(s)
  BY <1>1, <1>3 DEF Untorn
<1>5. EndsWhole(s)
  <2> SUFFICES ASSUME s # << >> PROVE s[n][2] = Length[s[n][1]]
    BY <1>1 DEF EndsWhole
  <2>1. n \in 1 .. n
    BY <1>1, <1>2
  <2>2. s[n] = <<r, n>>
    BY <1>1, <2>1
  <2> QED
    BY <2>2 DEF n
<1>6. StartsWhole(s)
  <2> SUFFICES ASSUME s # << >> PROVE s[1][2] = 1
    BY DEF StartsWhole
  <2>1. 1 \in 1 .. n
    BY <1>1, <1>2
  <2>2. s[1] = <<r, 1>>
    BY <1>1, <2>1
  <2> QED
    BY <2>2
<1> QED
  BY <1>4, <1>5, <1>6 DEF s

\* The text of the first n records is made of whole records.
LEMMA UptoWhole ==
    ASSUME NEW t \in Seq(Record), NEW n \in 0 .. Len(t)
    PROVE  Upto(t)[n] \in Seq(Char) /\ Untorn(Upto(t)[n]) /\ EndsWhole(Upto(t)[n])
<1> DEFINE T == { k \in 0 .. Len(t) : ~WholeRecords(t, k) }
<1>a. Texts(Upto(t), t, Len(t)) /\ Len(t) \in Nat
  BY UptoTexts
<1>b. Upto(t)[0] = << >> /\ \A k \in 1 .. Len(t) : Upto(t)[k] = Upto(t)[k - 1] \o Bytes(t[k])
  BY <1>a DEF Texts
<1>1. T = {}
  <2> SUFFICES ASSUME T # {} PROVE FALSE
    OBVIOUS
  <2>1. T \subseteq Nat
    BY <1>a
  <2>2. PICK k \in T : \A j \in T : k <= j
    BY <2>1, Least
  <2>3. k # 0
    <3> SUFFICES WholeRecords(t, 0)
      OBVIOUS
    <3>1. << >> \in Seq(Char) /\ Len(<< >>) = 0
      OBVIOUS
    <3>2. Untorn(<< >>) /\ EndsWhole(<< >>)
      BY <3>1 DEF Untorn, EndsWhole
    <3> QED
      BY <1>b, <3>1, <3>2 DEF WholeRecords
  <2>4. k - 1 \in 0 .. Len(t) /\ k \in 1 .. Len(t) /\ ~(k <= k - 1)
    BY <1>a, <2>3
  <2>5. WholeRecords(t, k - 1)
    BY <2>2, <2>4
  <2> DEFINE u == Upto(t)[k - 1]
             r == t[k]
  <2>6. u \in Seq(Char) /\ Untorn(u) /\ EndsWhole(u)
    BY <2>5 DEF WholeRecords
  <2>7. r \in Record
    BY <2>4
  <2>8. Upto(t)[k] = u \o Bytes(r)
    BY <1>b, <2>4
  <2> HIDE DEF u, r
  <2>9. /\ Bytes(r) \in Seq(Char) /\ Untorn(Bytes(r)) /\ EndsWhole(Bytes(r))
        /\ StartsWhole(Bytes(r))
    BY <2>7, BytesOfRecord, RecordUntorn
  <2>10. Continues(u, Bytes(r))
    BY <2>6, <2>9, WholeContinues
  <2>11. Untorn(u \o Bytes(r))
    BY <2>6, <2>9, <2>10, UntornJoin
  <2>12. EndsWhole(u \o Bytes(r))
    BY <2>6, <2>9, EndsWholeJoin
  <2>13. u \o Bytes(r) \in Seq(Char)
    BY <2>6, <2>9, LastOfJoin
  <2>14. WholeRecords(t, k)
    BY <2>8, <2>11, <2>12, <2>13 DEF WholeRecords
  <2> QED
    BY <2>2, <2>14
<1>2. WholeRecords(t, n)
  BY <1>1
<1> QED
  BY <1>2 DEF WholeRecords

\* One record more.
LEMMA UptoStep ==
    ASSUME NEW t \in Seq(Record), NEW n \in 1 .. Len(t)
    PROVE  /\ n - 1 \in 0 .. Len(t) /\ n \in 0 .. Len(t) /\ t[n] \in Record
           /\ Len(Upto(t)[n - 1]) \in Nat /\ Length[t[n]] \in Nat
           /\ Len(Upto(t)[n]) = Len(Upto(t)[n - 1]) + Length[t[n]]
           /\ Begins(Upto(t)[n - 1], Upto(t)[n])
           /\ \A b \in 1 .. Length[t[n]] : Upto(t)[n][Len(Upto(t)[n - 1]) + b] = <<t[n], b>>
<1> DEFINE u == Upto(t)[n - 1]
           v == Upto(t)[n]
           r == t[n]
           s == Bytes(r)
<1>1. n - 1 \in 0 .. Len(t) /\ n \in 0 .. Len(t) /\ r \in Record
  OBVIOUS
<1>2. v = u \o s
  BY UptoTexts DEF Texts
<1>3. u \in Seq(Char)
  BY <1>1, UptoWhole
<1>4. s \in Seq(Char) /\ Len(s) = Length[r] /\ Length[r] \in Nat
      /\ \A b \in 1 .. Length[r] : s[b] = <<r, b>>
  BY <1>1, BytesOfRecord
<1> HIDE DEF u, v, r, s
<1>5. /\ Len(u) \in Nat /\ Len(v) = Len(u) + Length[r]
      /\ \A i \in 1 .. Len(u) + Length[r] : v[i] = IF i <= Len(u) THEN u[i] ELSE s[i - Len(u)]
  BY <1>2, <1>3, <1>4, ConcatProperties
<1>6. Begins(u, v)
  <2>1. ASSUME NEW i \in 1 .. Len(u) PROVE u[i] = v[i]
    <3>1. i \in 1 .. Len(u) + Length[r] /\ i <= Len(u)
      BY <1>4, <1>5
    <3> QED
      BY <1>5, <3>1
  <2>2. Len(u) <= Len(v)
    BY <1>4, <1>5
  <2> QED
    BY <2>1, <2>2 DEF Begins
<1>7. ASSUME NEW b \in 1 .. Length[r] PROVE v[Len(u) + b] = <<r, b>>
  <2>1. /\ Len(u) + b \in 1 .. Len(u) + Length[r] /\ ~(Len(u) + b <= Len(u))
        /\ (Len(u) + b) - Len(u) = b
    BY <1>4, <1>5
  <2>2. v[Len(u) + b] = s[b]
    BY <1>5, <2>1
  <2> QED
    BY <1>4, <2>2
<1> QED
  BY <1>1, <1>4, <1>5, <1>6, <1>7 DEF u, v, r

\* Fewer records are the beginning of more.
LEMMA UptoBegins ==
    ASSUME NEW t \in Seq(Record), NEW j \in 0 .. Len(t), NEW i \in 0 .. j
    PROVE  /\ Begins(Upto(t)[i], Upto(t)[j]) /\ i \in 0 .. Len(t)
           /\ Len(Upto(t)[i]) \in Nat /\ Len(Upto(t)[j]) \in Nat
           /\ Len(Upto(t)[i]) <= Len(Upto(t)[j])
<1> DEFINE U == Upto(t)
           T == { k \in i .. Len(t) : ~Begins(U[i], U[k]) }
<1>1. Len(t) \in Nat /\ i \in 0 .. Len(t) /\ j \in i .. Len(t)
  OBVIOUS
<1>2. \A k \in 0 .. Len(t) : U[k] \in Seq(Char) /\ Len(U[k]) \in Nat
  BY UptoWhole
<1>3. T = {}
  <2> SUFFICES ASSUME T # {} PROVE FALSE
    OBVIOUS
  <2>1. T \subseteq Nat
    BY <1>1
  <2>2. PICK k \in T : \A l \in T : k <= l
    BY <2>1, Least
  <2>3. k # i
    <3>1. Begins(U[i], U[i])
      BY <1>1, <1>2 DEF Begins
    <3> QED
      BY <3>1
  <2>4. k - 1 \in i .. Len(t) /\ k \in 1 .. Len(t) /\ ~(k <= k - 1) /\ k \in 0 .. Len(t)
        /\ k - 1 \in 0 .. Len(t)
    BY <1>1, <2>3
  <2>5. Begins(U[i], U[k - 1])
    BY <2>2, <2>4
  <2>6. Begins(U[k - 1], U[k])
    BY <2>4, UptoStep
  <2>7. Len(U[i]) \in Nat /\ Len(U[k - 1]) \in Nat /\ Len(U[k]) \in Nat
    BY <1>1, <1>2, <2>4
  <2> HIDE DEF U
  <2>8. Begins(U[i], U[k])
    BY <2>5, <2>6, <2>7 DEF Begins
  <2> QED
    BY <2>2, <2>8
<1>4. Begins(U[i], U[j])
  BY <1>1, <1>3
<1>5. Len(U[i]) \in Nat /\ Len(U[j]) \in Nat
  BY <1>1, <1>2
<1> QED
  BY <1>1, <1>4, <1>5 DEF Begins

\* Where the text goes on behind record i, a record begins.
LEMMA NextByteStarts ==
    ASSUME NEW t \in Seq(Record), NEW j \in 0 .. Len(t), NEW i \in 0 .. j,
           Len(Upto(t)[i]) < Len(Upto(t)[j])
    PROVE  Upto(t)[j][Len(Upto(t)[i]) + 1][2] = 1
<1> DEFINE U == Upto(t)
           n == Len(U[i])
           T == { k \in i .. j : Len(U[k]) > n }
<1>1. Len(t) \in Nat /\ i \in 0 .. Len(t) /\ j \in Nat /\ i \in Nat /\ j <= Len(t) /\ i <= j
  OBVIOUS
<1>2. \A k \in 0 .. Len(t) : U[k] \in Seq(Char) /\ Len(U[k]) \in Nat
  BY UptoWhole
<1>3. j \in T /\ T \subseteq Nat
  BY <1>1, <1>2
<1>4. PICK k \in T : \A l \in T : k <= l
  BY <1>3, Least
<1>5. k # i /\ k \in i .. j /\ Len(U[k]) > n
  BY <1>1, <1>2
<1>6. k \in 1 .. Len(t) /\ k - 1 \in i .. j /\ ~(k <= k - 1) /\ k - 1 \in 0 .. Len(t)
      /\ i \in 0 .. k - 1 /\ k \in 0 .. j
  BY <1>1, <1>5
<1>7. Len(U[k - 1]) = n
  <2>1. ~(Len(U[k - 1]) > n)
    BY <1>4, <1>6
  <2>2. n <= Len(U[k - 1])
    BY <1>6, UptoBegins
  <2> QED
    BY <1>1, <1>2, <1>6, <2>1, <2>2
<1>8. /\ Len(U[k]) = n + Length[t[k]] /\ Length[t[k]] \in Nat
      /\ \A b \in 1 .. Length[t[k]] : U[k][n + b] = <<t[k], b>>
  BY <1>6, <1>7, UptoStep
<1>9. n \in Nat
  BY <1>1, <1>2
<1>10. Begins(U[k], U[j])
  BY <1>6, UptoBegins
<1> HIDE DEF U, n
<1>11. 1 \in 1 .. Length[t[k]] /\ n + 1 \in 1 .. Len(U[k])
  BY <1>5, <1>8, <1>9
<1>12. U[k][n + 1] = <<t[k], 1>> /\ U[k][n + 1] = U[j][n + 1]
  BY <1>8, <1>10, <1>11 DEF Begins
<1>13. U[j][n + 1][2] = 1
  BY <1>12
<1> QED
  BY <1>13 DEF U, n

\* The text of the records i to j of the table: whole records again.
LEMMA TextWhole ==
    ASSUME table \in Seq(Record), NEW j \in 0 .. Len(table), NEW i \in 1 .. j + 1
    PROVE  /\ Text(i, j) \in Seq(Char) /\ Untorn(Text(i, j))
           /\ EndsWhole(Text(i, j)) /\ StartsWhole(Text(i, j))
           /\ Len(Text(i, j)) = Len(Upto(table)[j]) - Len(Upto(table)[i - 1])
           /\ Len(Text(i, j)) \in Nat
<1> DEFINE u == Upto(table)[j]
           n == Len(Upto(table)[i - 1])
           s == SubSeq(u, n + 1, Len(u))
<1>1. i - 1 \in 0 .. j
  OBVIOUS
<1>2. u \in Seq(Char) /\ Untorn(u) /\ EndsWhole(u)
  BY UptoWhole
<1>3. n \in Nat /\ Len(u) \in Nat /\ n <= Len(u)
  BY <1>1, UptoBegins
<1>4. n < Len(u) => u[n + 1][2] = 1
  BY <1>1, NextByteStarts
<1> HIDE DEF u, n
<1>5. n \in 0 .. Len(u)
  BY <1>3
<1>6. Untorn(s) /\ EndsWhole(s)
  BY <1>2, <1>5, UntornCut, EndsWholeCut
<1>7. s \in Seq(Char) /\ Len(s) = Len(u) - n /\ \A k \in 1 .. Len(u) - n : s[k] = u[n + k]
  BY <1>2, <1>3, PieceProperties
<1>8. StartsWhole(s)
  <2> SUFFICES ASSUME s # << >> PROVE s[1][2] = 1
    BY DEF StartsWhole
  <2> HIDE DEF s
  <2>1. Len(u) - n # 0
    BY <1>7, NonEmpty
  <2>2. 1 \in 1 .. Len(u) - n /\ n < Len(u)
    BY <1>3, <2>1
  <2> QED
    BY <1>4, <1>7, <2>2
<1>9. Text(i, j) = s
  BY DEF Text, u, n
<1>10. Len(s) \in Nat
  BY <1>3, <1>7
<1> HIDE DEF s
<1> QED
  BY <1>6, <1>7, <1>8, <1>9, <1>10 DEF u, n

-----------------------------------------------------------------------------
\* The smallest of some numbers.
LEMMA MinOf ==
    ASSUME NEW T, T \subseteq Nat, T # {}
    PROVE  Min(T) \in T /\ \A x \in T : Min(T) <= x
<1>1. \E y \in T : \A x \in T : y <= x
  BY Least
<1> QED
  BY <1>1, Zenon DEF Min

\* The largest of some numbers that do not go on for ever.
LEMMA MaxOf ==
    ASSUME NEW T, T \subseteq Nat, T # {}, NEW n \in Nat, \A x \in T : x <= n
    PROVE  Max(T) \in T /\ \A x \in T : Max(T) >= x
<1> DEFINE B == { k \in Nat : \A x \in T : x <= k }
<1>1. B \subseteq Nat /\ n \in B
  OBVIOUS
<1>2. PICK b \in B : \A k \in B : b <= k
  BY <1>1, Least
<1>3. b \in T
  <2> SUFFICES ASSUME b \notin T PROVE FALSE
    OBVIOUS
  <2>1. \A x \in T : x \in Nat /\ x <= b /\ x # b
    OBVIOUS
  <2>2. PICK y \in T : y \in Nat
    OBVIOUS
  <2>3. b - 1 \in Nat /\ \A x \in T : x <= b - 1
    BY <2>1, <2>2
  <2>4. b - 1 \in B
    BY <2>3
  <2>5. b <= b - 1
    BY <1>2, <2>4
  <2> QED
    BY <2>3, <2>5
<1>4. \A x \in T : b >= x
  OBVIOUS
<1>5. \E y \in T : \A x \in T : y >= x
  BY <1>3, <1>4
<1> QED
  BY <1>5, Zenon DEF Max

\* As far as a number goes in a sequence.
Within(n, s) == IF n < Len(s) THEN n ELSE Len(s)

\* What a read takes from a text and what it leaves.
LEMMA TakeAndDrop ==
    ASSUME NEW S, NEW s \in Seq(S), NEW n \in Nat
    PROVE  /\ Take(s, n) = SubSeq(s, 1, Within(n, s))
           /\ Drop(s, n) = SubSeq(s, Within(n, s) + 1, Len(s))
           /\ Within(n, s) \in 0 .. Len(s) /\ Len(s) \in Nat
           /\ Take(s, n) \in Seq(S) /\ Len(Take(s, n)) = Within(n, s)
           /\ Drop(s, n) \in Seq(S) /\ Len(Drop(s, n)) = Len(s) - Within(n, s)
<1> DEFINE T == {n, Len(s)}
           k == Within(n, s)
<1>1. Len(s) \in Nat /\ T \subseteq Nat /\ T # {}
  OBVIOUS
<1>2. Min(T) \in T /\ \A x \in T : Min(T) <= x
  BY <1>1, MinOf
<1>3. Min(T) = k /\ k \in 0 .. Len(s)
  <2> DEFINE min == Min(T)
  <2>1. (min = n \/ min = Len(s)) /\ min <= n /\ min <= Len(s)
    BY <1>2
  <2> HIDE DEF min
  <2>2. min = k /\ k \in 0 .. Len(s)
    BY <1>1, <2>1 DEF Within
  <2> QED
    BY <2>2 DEF min
<1>4. Take(s, n) = SubSeq(s, 1, k) /\ Drop(s, n) = SubSeq(s, k + 1, Len(s))
  BY <1>3 DEF Take, Drop
<1> HIDE DEF k
<1>5. 0 \in Nat /\ k \in Nat /\ k <= Len(s) /\ Len(s) <= Len(s) /\ 0 + 1 = 1 /\ 0 <= k /\ k - 0 = k
  BY <1>1, <1>3
<1>6. SubSeq(s, 0 + 1, k) \in Seq(S) /\ Len(SubSeq(s, 0 + 1, k)) = k
  BY <1>5, PieceProperties
<1>7. SubSeq(s, k + 1, Len(s)) \in Seq(S) /\ Len(SubSeq(s, k + 1, Len(s))) = Len(s) - k
  BY <1>1, <1>5, PieceProperties
<1> QED
  BY <1>1, <1>3, <1>4, <1>5, <1>6, <1>7 DEF k

\* The sizes a buffer can have.
BufferSizes == { PageSize * d : d \in Doublings }

\* Doubling twice is doubling, as far as the bound goes.
LEMMA DoubledTwice ==
    ASSUME NEW d \in Doublings, NEW e \in Doublings
    PROVE  /\ d * e \in Doublings \/ d * e >= 512
           /\ \E f \in Doublings : d * f = 256
           /\ d \in Nat /\ d >= 1 /\ e \in Nat /\ e >= 1 /\ d * e \in Nat /\ d <= d * e
  BY DEF Doublings

\* A buffer that exists has room.
LEMMA SizesAreNumbers ==
    ASSUME NEW size \in BufferSizes
    PROVE  size \in Nat /\ size > 0
<1>1. PICK d \in Doublings : size = PageSize * d
  BY DEF BufferSizes
<1>2. PageSize \in Nat /\ PageSize > 0
  BY SeqAssumption
<1>3. d \in {1, 2, 4, 8, 16, 32, 64, 128, 256}
  BY DEF Doublings
<1> QED
  BY <1>1, <1>2, <1>3

\* A buffer that grew holds what it had to grow for.
LEMMA GrownFits ==
    ASSUME NEW size \in BufferSizes, NEW length \in Nat, length < PageSize * 256
    PROVE  /\ Grown(size, length) \in BufferSizes
           /\ Grown(size, length) \in Nat /\ Grown(size, length) > length
           /\ Grown(size, length) >= size
<1> DEFINE G == { s \in { size * d : d \in Doublings } : s > length }
<1>1. PICK d \in Doublings : size = PageSize * d
  BY DEF BufferSizes
<1>2. PageSize \in Nat /\ PageSize > 0
  BY SeqAssumption
<1>3. PICK f \in Doublings : d * f = 256
  BY DoubledTwice
<1>4. d \in Nat /\ f \in Nat /\ d >= 1
  BY DoubledTwice
<1>5. \A e \in Doublings : e \in Nat /\ e >= 1 /\ size * e = PageSize * (d * e) /\ size * e \in Nat
  <2> SUFFICES ASSUME NEW e \in Doublings
               PROVE  e \in Nat /\ e >= 1 /\ size * e = PageSize * (d * e) /\ size * e \in Nat
    OBVIOUS
  <2>1. e \in Nat /\ e >= 1
    BY DEF Doublings
  <2> QED
    BY <1>1, <1>2, <1>4, <2>1
<1>6. size * f = PageSize * 256
  BY <1>3, <1>5
<1>7. size * f \in G /\ G \subseteq Nat
  BY <1>5, <1>6
<1>8. Min(G) \in G /\ \A x \in G : Min(G) <= x
  BY <1>7, MinOf
<1>9. PICK e \in Doublings : Min(G) = size * e
  BY <1>8
<1>10. Min(G) = PageSize * (d * e) /\ Min(G) <= PageSize * 256 /\ Min(G) > length /\ Min(G) \in Nat
  BY <1>5, <1>6, <1>7, <1>8, <1>9
<1>11. d * e \in Nat /\ (d * e \in Doublings \/ d * e >= 512) /\ d <= d * e
  BY DoubledTwice
<1> DEFINE p == d * e
           g == Min(G)
<1> HIDE DEF p, G, g
<1>12. ~(p >= 512)
  <2> SUFFICES ASSUME p >= 512 PROVE FALSE
    OBVIOUS
  <2>1. PageSize * p >= PageSize * 512
    BY <1>2, <1>11 DEF p
  <2>2. PageSize * p <= PageSize * 256
    BY <1>10 DEF p
  <2> QED
    BY <1>2, <1>11, <2>1, <2>2 DEF p
<1>13. g \in BufferSizes
  BY <1>10, <1>11, <1>12 DEF BufferSizes, p, g
<1>14. g >= size
  <2>1. PageSize * p >= PageSize * d
    BY <1>2, <1>4, <1>11 DEF p
  <2> QED
    BY <1>1, <1>10, <2>1 DEF p, g
<1> QED
  BY <1>10, <1>13, <1>14 DEF Grown, g, G

\* The first read of a file makes the buffer.
LEMMA FirstSize ==
    ASSUME NEW size \in {0} \cup BufferSizes
    PROVE  /\ BufferSize(size) \in BufferSizes /\ size \in Nat
           /\ BufferSize(size) \in Nat /\ BufferSize(size) >= size
<1>1. PageSize \in Nat /\ PageSize > 0 /\ 1 \in Doublings /\ PageSize * 1 = PageSize
  BY SeqAssumption DEF Doublings
<1>2. PageSize \in BufferSizes
  BY <1>1 DEF BufferSizes
<1>3. CASE size = 0
  BY <1>1, <1>2, <1>3 DEF BufferSize
<1>4. CASE size # 0
  <2>1. size \in BufferSizes
    BY <1>4
  <2>2. size \in Nat
    BY <2>1, SizesAreNumbers
  <2> QED
    BY <1>4, <2>1, <2>2 DEF BufferSize
<1> QED
  BY <1>3, <1>4

\* The records up to the first that fails.
LEMMA ShownProperties ==
    ASSUME table \in Seq(Record)
    PROVE  /\ Max(Shown) \in Shown /\ 0 \in Shown /\ Shown \subseteq 0 .. Len(table)
           /\ \A i \in Shown : i <= Max(Shown)
           /\ \A i \in Shown : \A k \in 0 .. i : k \in Shown
<1>1. Len(table) \in Nat /\ 0 \in Shown /\ Shown \subseteq 0 .. Len(table)
  BY DEF Shown
<1>2. Shown \subseteq Nat /\ \A x \in Shown : x <= Len(table)
  BY <1>1
<1>3. Max(Shown) \in Shown /\ \A x \in Shown : Max(Shown) >= x
  BY <1>1, <1>2, MaxOf
<1>4. ASSUME NEW i \in Shown, NEW k \in 0 .. i PROVE k \in Shown
  BY DEF Shown
<1> DEFINE m == Max(Shown)
<1> HIDE DEF m
<1>5. m \in Nat /\ \A i \in Shown : i <= m
  BY <1>2, <1>3 DEF m
<1> QED
  BY <1>1, <1>3, <1>4, <1>5 DEF m

\* How far a read collects.
LEMMA LastShownProperties ==
    ASSUME table \in Seq(Record), NEW i \in 1 .. Len(table), NEW size \in Nat, NEW space \in Nat,
           NEW j, j = LastShown(i, size, space)
    PROVE  /\ j \in i .. Len(table)
           /\ \A k \in i + 1 .. j : /\ table[k] \notin Bad
                                    /\ Len(Text(i, k - 1)) < size
                                    /\ Len(Text(i, k)) < space
           /\ j < Len(table) => \/ table[j + 1] \in Bad
                                \/ ~(Len(Text(i, j)) < size)
                                \/ ~(Len(Text(i, j + 1)) < space)
<1> DEFINE Fits(k) == table[k] \notin Bad /\ Len(Text(i, k - 1)) < size /\ Len(Text(i, k)) < space
           T == { l \in i .. Len(table) : \A k \in i + 1 .. l : Fits(k) }
<1>1. j = Max(T)
  BY DEF LastShown
<1>2. Len(table) \in Nat /\ i \in T /\ T \subseteq i .. Len(table)
  <2>1. i \in i .. Len(table) /\ i + 1 .. i = {} /\ Len(table) \in Nat
    OBVIOUS
  <2> QED
    BY <2>1
<1>3. T \subseteq Nat /\ \A x \in T : x <= Len(table)
  BY <1>2
<1>4. Max(T) \in T /\ \A x \in T : Max(T) >= x
  BY <1>2, <1>3, MaxOf
<1>5. j \in T /\ \A x \in T : j >= x
  BY <1>1, <1>4
<1>6. j \in i .. Len(table) /\ \A k \in i + 1 .. j : Fits(k)
  BY <1>5
<1>7. ASSUME j < Len(table) PROVE ~Fits(j + 1)
  <2> SUFFICES ASSUME Fits(j + 1) PROVE FALSE
    OBVIOUS
  <2> HIDE DEF Fits
  <2>1. j + 1 \in i .. Len(table) /\ j \in Nat
    BY <1>2, <1>6, <1>7
  <2>2. ASSUME NEW k \in i + 1 .. j + 1 PROVE Fits(k)
    <3>1. k = j + 1 \/ k \in i + 1 .. j
      BY <2>1
    <3> QED
      BY <1>6, <3>1
  <2>3. j + 1 \in T
    BY <2>1, <2>2
  <2>4. j >= j + 1
    BY <1>5, <2>3
  <2> QED
    BY <2>1, <2>4
<1>8. (j + 1) - 1 = j
  BY <1>2, <1>6
<1>9. j < Len(table) => \/ table[j + 1] \in Bad
                        \/ ~(Len(Text(i, j)) < size)
                        \/ ~(Len(Text(i, j + 1)) < space)
  BY <1>7, <1>8
<1> QED
  BY <1>6, <1>9

-----------------------------------------------------------------------------
(* What was handed out and what waits in the buffer. *)

\* g was handed out and x waits: together they are whole records.
Neat(g, x) ==
    /\ Untorn(g) /\ Untorn(x) /\ EndsWhole(x)
    /\ Continues(g, x)
    /\ x = << >> => EndsWhole(g)

\* Handing out some of what waits keeps the records whole.
LEMMA NeatHandsOut ==
    ASSUME NEW g \in Seq(Char), NEW x \in Seq(Char), Neat(g, x), NEW n \in 0 .. Len(x)
    PROVE  Neat(g \o SubSeq(x, 1, n), SubSeq(x, n + 1, Len(x)))
<1> DEFINE a == SubSeq(x, 1, n)
           b == SubSeq(x, n + 1, Len(x))
<1>1. Untorn(g) /\ Untorn(x) /\ EndsWhole(x) /\ Continues(g, x)
  BY DEF Neat
<1>2. Untorn(a) /\ Untorn(b) /\ Continues(a, b) /\ EndsWhole(b)
  BY <1>1, UntornCut, EndsWholeCut
<1>3. Len(x) \in Nat /\ n \in Nat /\ n <= Len(x) /\ 0 \in Nat /\ 0 + 1 = 1 /\ 0 <= n
  OBVIOUS
<1>4. a \in Seq(Char) /\ Len(a) = n /\ \A i \in 1 .. n : a[i] = x[i]
  <2>1. /\ SubSeq(x, 0 + 1, n) \in Seq(Char)
        /\ Len(SubSeq(x, 0 + 1, n)) = IF 0 <= n THEN n - 0 ELSE 0
        /\ \A i \in 1 .. n - 0 : SubSeq(x, 0 + 1, n)[i] = x[0 + i]
    BY <1>3, PieceProperties
  <2> QED
    BY <1>3, <2>1
<1>5. b \in Seq(Char) /\ Len(b) = Len(x) - n
  BY <1>3, PieceProperties
<1>6. CASE n = 0
  <2>1. a = << >>
    BY <1>4, <1>6, NonEmpty
  <2>2. g \o a = g
    BY <2>1, ConcatEmptySeq
  <2>3. b = x
    BY <1>6, SubSeqFull
  <2> QED
    BY <2>2, <2>3
<1>7. CASE n # 0
  <2> HIDE DEF a, b
  <2>1. a # << >> /\ x # << >>
    BY <1>3, <1>4, <1>7, NonEmpty
  <2>2. a[1] = x[1]
    BY <1>3, <1>4, <1>7
  <2>3. Continues(g, a)
    BY <1>1, <2>1, <2>2 DEF Continues
  <2>4. Untorn(g \o a)
    BY <1>1, <1>2, <1>4, <2>3, UntornJoin
  <2>5. Continues(g \o a, b)
    BY <1>2, <1>4, <1>5, <2>1, ContinuesJoin
  <2>6. ASSUME b = << >> PROVE EndsWhole(g \o a)
    <3>1. n = Len(x)
      BY <1>3, <1>5, <2>6, NonEmpty
    <3>2. (g \o a)[Len(g \o a)] = a[n]
      BY <1>4, <2>1, LastOfJoin
    <3>3. a[n] = x[n]
      BY <1>3, <1>4, <1>7
    <3> QED
      BY <1>1, <2>1, <3>1, <3>2, <3>3 DEF EndsWhole
  <2> QED
    BY <1>2, <2>4, <2>5, <2>6 DEF Neat, a, b
<1> QED
  BY <1>6, <1>7

\* When nothing waits, whole records may be collected.
LEMMA NeatCollects ==
    ASSUME NEW g \in Seq(Char), Neat(g, << >>), NEW x \in Seq(Char), Untorn(x),
           EndsWhole(x), StartsWhole(x)
    PROVE  Neat(g, x)
<1>1. Untorn(g) /\ EndsWhole(g)
  BY DEF Neat
<1>2. Continues(g, x)
  BY <1>1, WholeContinues
<1> QED
  BY <1>1, <1>2 DEF Neat

\* The text u was handed out as g from start to pos, and its rest x waits.
InText(u, start, pos, g, x) ==
    /\ pos = start + Len(g) /\ pos + Len(x) = Len(u)
    /\ g = SubSeq(u, start + 1, pos) /\ x = SubSeq(u, pos + 1, Len(u))

\* Handing out some of what waits moves the position by as much.
LEMMA InTextHandsOut ==
    ASSUME NEW u \in Seq(Char), NEW g \in Seq(Char), NEW x \in Seq(Char), NEW start \in Nat,
           NEW pos \in Nat, InText(u, start, pos, g, x), NEW n \in 0 .. Len(x)
    PROVE  InText(u, start, pos + n, g \o SubSeq(x, 1, n), SubSeq(x, n + 1, Len(x)))
<1> DEFINE a == SubSeq(x, 1, n)
           b == SubSeq(x, n + 1, Len(x))
           l == Len(u)
<1>1. /\ l \in Nat /\ Len(x) \in Nat /\ Len(g) \in Nat /\ n \in Nat /\ n <= Len(x)
      /\ 0 \in Nat /\ 0 + 1 = 1
  OBVIOUS
<1>2. pos = start + Len(g) /\ pos + Len(x) = l /\ g = SubSeq(u, start + 1, pos)
      /\ x = SubSeq(u, pos + 1, l)
  BY DEF InText
<1> DEFINE lg == Len(g)
           lx == Len(x)
<1>a. /\ l \in Nat /\ lx \in Nat /\ lg \in Nat /\ n \in Nat /\ n <= lx
      /\ pos = start + lg /\ pos + lx = l
  BY <1>1, <1>2
<1>3. /\ start <= pos /\ pos <= l /\ pos + n \in Nat /\ pos + n <= l /\ pos <= pos + n
      /\ n <= l - pos /\ Len(x) <= l - pos /\ l <= l /\ l = pos + Len(x) /\ pos + 0 = pos
  <2> HIDE DEF l, lg, lx
  <2>1. /\ start <= pos /\ pos <= l /\ pos + n \in Nat /\ pos + n <= l /\ pos <= pos + n
        /\ n <= l - pos /\ lx <= l - pos /\ l <= l /\ l = pos + lx /\ pos + 0 = pos
    BY <1>a
  <2> QED
    BY <2>1 DEF lx
<1> HIDE DEF l
<1>4. a = SubSeq(u, pos + 1, pos + n)
  <2>1. SubSeq(SubSeq(u, pos + 1, l), 0 + 1, n) = SubSeq(u, pos + 0 + 1, pos + n)
    BY <1>1, <1>3, PieceOfPiece DEF l
  <2> QED
    BY <1>1, <1>2, <1>3, <2>1
<1>5. b = SubSeq(u, pos + n + 1, l)
  <2>1. SubSeq(SubSeq(u, pos + 1, l), n + 1, Len(x)) = SubSeq(u, pos + n + 1, pos + Len(x))
    BY <1>1, <1>3, PieceOfPiece DEF l
  <2> QED
    BY <1>2, <1>3, <2>1
<1>6. g \o a = SubSeq(u, start + 1, pos + n)
  <2>1. SubSeq(u, start + 1, pos) \o SubSeq(u, pos + 1, pos + n) = SubSeq(u, start + 1, pos + n)
    BY <1>3, PiecesJoin DEF l
  <2> QED
    BY <1>2, <1>4, <2>1
<1>7. Len(g \o a) = Len(g) + n /\ Len(b) = Len(x) - n
  <2>1. Len(a) = n /\ a \in Seq(Char)
    <3>1. /\ SubSeq(x, 0 + 1, n) \in Seq(Char)
          /\ Len(SubSeq(x, 0 + 1, n)) = IF 0 <= n THEN n - 0 ELSE 0
      BY <1>1, PieceProperties
    <3> QED
      BY <1>1, <3>1
  <2>2. Len(b) = Len(x) - n
    BY <1>1, PieceProperties
  <2>3. Len(g \o a) = Len(g) + Len(a)
    BY <2>1, ConcatProperties
  <2> QED
    BY <2>1, <2>2, <2>3
<1>8. pos + n = start + (Len(g) + n) /\ (pos + n) + (Len(x) - n) = l
  <2> HIDE DEF l, lg, lx
  <2>1. pos + n = start + (lg + n) /\ (pos + n) + (lx - n) = l
    BY <1>a
  <2> QED
    BY <2>1 DEF lx, lg
<1> HIDE DEF a, b
<1> QED
  BY <1>5, <1>6, <1>7, <1>8 DEF InText, l, a, b

\* What is collected is the text that follows.
LEMMA InTextCollects ==
    ASSUME NEW u \in Seq(Char), NEW v \in Seq(Char), Begins(u, v), NEW g \in Seq(Char),
           NEW start \in Nat, NEW pos \in Nat, InText(u, start, pos, g, << >>)
    PROVE  InText(v, start, pos, g, SubSeq(v, Len(u) + 1, Len(v)))
<1>1. Len(u) \in Nat /\ Len(v) \in Nat /\ Len(u) <= Len(v) /\ Len(<< >>) = 0 /\ Len(g) \in Nat
  BY DEF Begins
<1>2. pos = start + Len(g) /\ pos = Len(u) /\ g = SubSeq(u, start + 1, pos)
  BY <1>1 DEF InText
<1>3. SubSeq(u, start + 1, pos) = SubSeq(v, start + 1, pos)
  BY <1>1, <1>2, PieceOfBeginning
<1>4. Len(SubSeq(v, Len(u) + 1, Len(v))) = Len(v) - Len(u)
  BY <1>1, PieceProperties
<1>5. pos + (Len(v) - Len(u)) = Len(v)
  BY <1>1, <1>2
<1> QED
  BY <1>2, <1>3, <1>4, <1>5 DEF InText

\* Behind the end of the text nothing was handed out and nothing waits.
Past(u, start, pos, g, x) == g = << >> /\ x = << >> /\ pos = start /\ pos > Len(u)

\* The record whose end was reached, by what was handed out and what waits.
Reached(f) == IF f.text = << >> THEN f.index ELSE f.index + 1

\* As long as the table stays as it is: the text up to the record reached was handed out,
\* but for what waits.
InPlace(t, f, start, pos, g) ==
    \/ InText(Upto(t)[Reached(f)], start, pos, g, f.text)
    \/ Past(Upto(t)[Reached(f)], start, pos, g, f.text) /\ Reached(f) = Len(t)

\* The states of an open file.
SeqFiles == [ size : {0} \cup BufferSizes, index : Nat, from : Nat, text : Seq(Char) ]

\* The text that waits is in the buffer.
FileSound(f) == f \in SeqFiles /\ f.from + Len(f.text) <= f.size

\* The invariant: what was handed out and what waits are whole records; as long as the
\* table stays as it is they are its text from the base on, up to the record reached; and
\* the end is reported as EofIsTheEnd says (the last call's answer is part of the state).
SeqInv ==
    /\ table \in Seq(Record) /\ f_pos \in Nat /\ base \in Nat /\ got \in Seq(Char)
    /\ returned \in {"none", "data", "eof", "error"}
    /\ seq_file = NotOpen => Untorn(got)
    /\ seq_file # NotOpen =>
        /\ FileSound(seq_file)
        /\ Neat(got, seq_file.text)
        /\ still => Reached(seq_file) \in Shown /\ InPlace(table, seq_file, base, f_pos, got)
    /\ EofIsTheEnd

\* Nothing is torn in the empty text.
LEMMA EmptyText ==
    << >> \in Seq(Char) /\ Untorn(<< >>) /\ EndsWhole(<< >>) /\ Neat(<< >>, << >>)
<1>1. << >> \in Seq(Char) /\ Len(<< >>) = 0
  OBVIOUS
<1>2. Untorn(<< >>) /\ EndsWhole(<< >>)
  BY <1>1 DEF Untorn, EndsWhole
<1>3. Continues(<< >>, << >>)
  BY DEF Continues
<1> QED
  BY <1>1, <1>2, <1>3 DEF Neat

\* A file that was just opened, or whose position was moved to the end of a record.
LEMMA AtRecord ==
    ASSUME NEW t \in Seq(Record), NEW n \in 0 .. Len(t)
    PROVE  InText(Upto(t)[n], Len(Upto(t)[n]), Len(Upto(t)[n]), << >>, << >>)
<1> DEFINE u == Upto(t)[n]
           l == Len(u)
<1>1. u \in Seq(Char) /\ l \in Nat
  BY UptoWhole
<1> HIDE DEF u
<1>2. l \in Int /\ l + 1 \in Int /\ l < l + 1 /\ l + 0 = l /\ Len(<< >>) = 0
  BY <1>1
<1> HIDE DEF l
<1>3. SubSeq(u, l + 1, l) = << >>
  BY <1>2, SubSeqEmpty
<1> QED
  BY <1>2, <1>3 DEF InText, l, u

\* The text of no records is empty.
LEMMA NoRecords ==
    ASSUME NEW t \in Seq(Record)
    PROVE  Upto(t)[0] = << >> /\ 0 \in 0 .. Len(t) /\ Len(Upto(t)[0]) = 0
<1>1. Texts(Upto(t), t, Len(t))
  BY UptoTexts
<1>2. Upto(t)[0] = << >>
  BY <1>1, Zenon DEF Texts
<1>3. 0 \in 0 .. Len(t) /\ Len(<< >>) = 0
  OBVIOUS
<1> QED
  BY <1>2, <1>3

\* The text of a table is that of its records up to the first that fails.
LEMMA WholeText ==
    ASSUME table \in Seq(Record)
    PROVE  /\ Whole = Upto(table)[Max(Shown)]
           /\ \A n \in 0 .. Len(table) : Text(1, n) = Upto(table)[n]
           /\ Len(Whole) \in Nat
<1>1. ASSUME NEW n \in 0 .. Len(table) PROVE Text(1, n) = Upto(table)[n]
  <2> DEFINE u == Upto(table)[n]
  <2>1. u \in Seq(Char)
    BY UptoWhole
  <2>2. Len(Upto(table)[1 - 1]) + 1 = 1
    BY NoRecords
  <2>3. SubSeq(u, 1, Len(u)) = u
    BY <2>1, SubSeqFull
  <2> HIDE DEF u
  <2>4. Text(1, n) = SubSeq(u, 1, Len(u))
    BY <2>2 DEF Text, u
  <2> QED
    BY <2>3, <2>4 DEF u
<1>2. Max(Shown) \in 0 .. Len(table)
  BY ShownProperties
<1>3. Upto(table)[Max(Shown)] \in Seq(Char)
  BY <1>2, UptoWhole
<1> QED
  BY <1>1, <1>2, <1>3 DEF Whole

\* A struct seq_file is an open file.
LEMMA FileIsOpen ==
    ASSUME NEW f \in SeqFiles
    PROVE  f # NotOpen
<1>1. f.size \in {0} \cup BufferSizes
  BY DEF SeqFiles
<1>2. f.size \in Nat
  BY <1>1, FirstSize
<1> QED
  BY <1>2 DEF NotOpen

\* What a call on an open file has to establish.
LEMMA SeqEstablished ==
    ASSUME SeqInv, table' = table, f_pos' \in Nat, base' \in Nat, got' \in Seq(Char),
           returned' \in {"none", "data", "eof", "error"},
           FileSound(seq_file'), Neat(got', seq_file'.text),
           still' => /\ Reached(seq_file') \in Shown
                     /\ InPlace(table, seq_file', base', f_pos', got'),
           EofIsTheEnd'
    PROVE  SeqInv'
<1>1. Shown' = Shown
  BY DEF Shown
<1>2. seq_file' # NotOpen
  BY FileIsOpen DEF FileSound
<1> QED
  BY <1>1, <1>2 DEF SeqInv

\* The invariant holds at the start.
LEMMA SeqInitInv == SeqInit => SeqInv
<1> SUFFICES ASSUME SeqInit PROVE SeqInv
  OBVIOUS
<1>1. table \in Seq(Record)
  <2>1. PICK n \in 0 .. MaxRecords : table \in [1 .. n -> Record]
    BY DEF SeqInit
  <2>2. n \in Nat
    BY SeqAssumption
  <2> QED
    BY <2>1, <2>2
<1>2. got \in Seq(Char) /\ Untorn(got)
  BY EmptyText DEF SeqInit
<1>3. EofIsTheEnd
  BY DEF EofIsTheEnd, SeqInit
<1> QED
  BY <1>1, <1>2, <1>3 DEF SeqInv, SeqInit

\* seq_open keeps the invariant.
LEMMA OpenKeeps ==
    ASSUME SeqInv, seq_open
    PROVE  SeqInv'
<1> DEFINE f == [size |-> 0, index |-> 0, from |-> 0, text |-> << >>]
<1>1. seq_file' = f /\ table' = table /\ f_pos' = 0 /\ base' = 0 /\ got' = << >> /\ still' = TRUE
      /\ returned' = "none"
  BY DEF seq_open
<1>2. table \in Seq(Record)
  BY DEF SeqInv
<1>3. FileSound(f)
  BY EmptyText DEF FileSound, SeqFiles
<1>4. Reached(f) = 0 /\ f.text = << >>
  BY DEF Reached
<1>5. InText(Upto(table)[0], 0, 0, << >>, << >>)
  BY <1>2, AtRecord, NoRecords
<1> HIDE DEF f
<1>6. Reached(f) \in Shown /\ InPlace(table, f, 0, 0, << >>)
  BY <1>2, <1>4, <1>5, ShownProperties DEF InPlace
<1>7. EofIsTheEnd'
  BY <1>1 DEF EofIsTheEnd
<1> QED
  BY <1>1, <1>3, <1>4, <1>6, <1>7, EmptyText, SeqEstablished

\* seq_release keeps the invariant.
LEMMA ReleaseKeeps ==
    ASSUME SeqInv, seq_release
    PROVE  SeqInv'
<1>1. EofIsTheEnd'
  BY DEF EofIsTheEnd, seq_release
<1>2. got' \in Seq(Char) /\ Untorn(got')
  BY EmptyText DEF seq_release
<1> QED
  BY <1>1, <1>2 DEF SeqInv, seq_release

\* A change of the table keeps the invariant: only torn records are excluded then.
LEMMA ChangeKeeps ==
    ASSUME SeqInv, TableChanges
    PROVE  SeqInv'
<1>0. table \in Seq(Record) /\ Len(table) \in Nat
  BY DEF SeqInv
<1>1. ASSUME NEW i \in DOMAIN table, table' = RemoveAt(table, i) PROVE table' \in Seq(Record)
  <2>1. i \in 1 .. Len(table)
    BY <1>0
  <2>2. 0 \in Nat /\ i - 1 \in Nat /\ i - 1 <= Len(table) /\ 0 + 1 = 1 /\ i \in Nat
    BY <1>0, <2>1
  <2>3. SubSeq(table, 0 + 1, i - 1) \in Seq(Record)
    BY <1>0, <2>2, PieceProperties
  <2>4. SubSeq(table, i + 1, Len(table)) \in Seq(Record)
    BY <1>0, <2>2, PieceProperties
  <2>5. RemoveAt(table, i) = SubSeq(table, 0 + 1, i - 1) \o SubSeq(table, i + 1, Len(table))
    BY <2>2 DEF RemoveAt
  <2> QED
    BY <1>1, <2>3, <2>4, <2>5, ConcatProperties
<1>2. ASSUME NEW r \in Record, NEW i \in 1 .. Len(table) + 1, table' = InsertAt(table, i, r)
      PROVE  table' \in Seq(Record)
  <2>2. 0 \in Nat /\ i - 1 \in Nat /\ i - 1 <= Len(table) /\ 0 + 1 = 1 /\ (i - 1) + 1 = i
    BY <1>0
  <2>3. SubSeq(table, 0 + 1, i - 1) \in Seq(Record)
    BY <1>0, <2>2, PieceProperties
  <2>4. SubSeq(table, (i - 1) + 1, Len(table)) \in Seq(Record)
    BY <1>0, <2>2, PieceProperties
  <2>5. <<r>> \in Seq(Record)
    OBVIOUS
  <2>6. InsertAt(table, i, r)
        = SubSeq(table, 0 + 1, i - 1) \o <<r>> \o SubSeq(table, (i - 1) + 1, Len(table))
    BY <2>2 DEF InsertAt
  <2>7. SubSeq(table, 0 + 1, i - 1) \o <<r>> \in Seq(Record)
    BY <2>3, <2>5, ConcatProperties
  <2> QED
    BY <1>2, <2>4, <2>6, <2>7, ConcatProperties
<1>3. table' \in Seq(Record)
  BY <1>1, <1>2 DEF TableChanges
<1>4. still' = FALSE /\ UNCHANGED <<seq_file, f_pos, got, base, returned>>
  BY DEF TableChanges
<1>5. EofIsTheEnd'
  BY <1>4 DEF EofIsTheEnd
<1> QED
  BY <1>3, <1>4, <1>5 DEF SeqInv

\* The read is served by what waits.
LEMMA FlushKeeps ==
    ASSUME SeqInv, seq_file # NotOpen, NEW size \in Nat, size > 0, count > 0, size <= count,
           seq_file' = [seq_file EXCEPT !.size = BufferSize(@), !.text = Drop(@, size),
                                        !.from = @ + size,
                                        !.index = IF size = count THEN @ + 1 ELSE @],
           Returns(Take(seq_file.text, size), FALSE),
           UNCHANGED <<table, base, still>>
    PROVE  SeqInv'
<1> DEFINE f == seq_file
           x == f.text
           a == SubSeq(x, 1, size)
           b == SubSeq(x, size + 1, Len(x))
<1>1. /\ table \in Seq(Record) /\ f_pos \in Nat /\ base \in Nat /\ got \in Seq(Char)
      /\ FileSound(f) /\ Neat(got, x)
      /\ still => Reached(f) \in Shown /\ InPlace(table, f, base, f_pos, got)
  BY DEF SeqInv
<1>2. /\ f \in SeqFiles /\ f.from + Len(x) <= f.size /\ x \in Seq(Char) /\ f.index \in Nat
      /\ f.from \in Nat /\ f.size \in {0} \cup BufferSizes
  BY <1>1 DEF FileSound, SeqFiles
<1>3. count = Len(x) /\ Len(x) \in Nat /\ size \in 0 .. Len(x)
  BY <1>2 DEF count
<1>4. /\ Take(x, size) = a /\ Drop(x, size) = b /\ a \in Seq(Char) /\ b \in Seq(Char)
      /\ Len(a) = size /\ Len(b) = Len(x) - size
  <2>1. Within(size, x) = size
    BY <1>3 DEF Within
  <2> HIDE DEF x
  <2>2. /\ Take(x, size) = SubSeq(x, 1, Within(size, x))
        /\ Drop(x, size) = SubSeq(x, Within(size, x) + 1, Len(x))
        /\ Take(x, size) \in Seq(Char) /\ Len(Take(x, size)) = Within(size, x)
        /\ Drop(x, size) \in Seq(Char) /\ Len(Drop(x, size)) = Len(x) - Within(size, x)
    BY <1>2, TakeAndDrop
  <2> QED
    BY <2>1, <2>2
<1>5. a # << >> /\ x # << >> /\ (b = << >> <=> size = count)
  <2> HIDE DEF a, b, x
  <2>1. (a = << >> <=> Len(a) = 0) /\ (b = << >> <=> Len(b) = 0) /\ (x = << >> <=> Len(x) = 0)
    BY <1>2, <1>4, NonEmpty
  <2> QED
    BY <1>3, <1>4, <2>1
<1>6. Neat(got \o a, b)
  BY <1>1, <1>2, <1>3, NeatHandsOut
<1>7. /\ f_pos' = f_pos + size /\ got' = got \o a /\ returned' = "data"
      /\ table' = table /\ base' = base /\ (still' <=> still)
  BY <1>4, <1>5 DEF Returns
<1> DEFINE h == [f EXCEPT !.size = BufferSize(f.size), !.text = b, !.from = f.from + size,
                          !.index = IF size = count THEN f.index + 1 ELSE f.index]
<1>8. seq_file' = h
  BY <1>4
<1>9. /\ h.size = BufferSize(f.size) /\ h.text = b /\ h.from = f.from + size
      /\ h.index = IF size = count THEN f.index + 1 ELSE f.index
      /\ DOMAIN h = DOMAIN f
  BY <1>2 DEF SeqFiles
<1>10. BufferSize(f.size) \in BufferSizes /\ BufferSize(f.size) \in Nat /\ f.size \in Nat
       /\ BufferSize(f.size) >= f.size
  BY <1>2, FirstSize
<1>11. h \in SeqFiles
  <2>1. f.from + size \in Nat /\ (IF size = count THEN f.index + 1 ELSE f.index) \in Nat
    BY <1>2
  <2> QED
    BY <1>2, <1>4, <1>10, <2>1 DEF SeqFiles
<1>12. Reached(h) = Reached(f)
  BY <1>5, <1>9 DEF Reached
<1> HIDE DEF h, a, b
<1>13. FileSound(h)
  <2> DEFINE lx == Len(x)
             lb == Len(b)
             new == BufferSize(f.size)
  <2>1. /\ f.from + lx <= f.size /\ lb = lx - size /\ lx \in Nat /\ new >= f.size /\ new \in Nat
        /\ f.size \in Nat /\ f.from \in Nat
    BY <1>2, <1>3, <1>4, <1>10
  <2> HIDE DEF lx, lb, new, f
  <2>2. (f.from + size) + lb <= new
    BY <2>1
  <2> QED
    BY <1>9, <1>11, <2>2 DEF FileSound, lb, new
<1>14. ASSUME still PROVE InPlace(table, h, base, f_pos + size, got \o a)
  <2> DEFINE u == Upto(table)[Reached(f)]
  <2>1. Reached(f) \in 0 .. Len(table)
    BY <1>1, <1>14, ShownProperties
  <2>2. u \in Seq(Char)
    BY <1>1, <2>1, UptoWhole
  <2>3. InText(u, base, f_pos, got, x)
    BY <1>1, <1>5, <1>14 DEF InPlace, Past
  <2> HIDE DEF u
  <2>4. InText(u, base, f_pos + size, got \o a, b)
    BY <1>1, <1>2, <1>3, <2>2, <2>3, InTextHandsOut DEF a, b
  <2> QED
    BY <1>9, <1>12, <2>4 DEF InPlace, u
<1>15. EofIsTheEnd'
  BY <1>7 DEF EofIsTheEnd
<1>16. got' \in Seq(Char) /\ f_pos' \in Nat
  BY <1>1, <1>4, <1>7, ConcatProperties
<1>17. Neat(got', seq_file'.text)
  BY <1>6, <1>7, <1>8, <1>9 DEF a, b
<1>18. still' => Reached(seq_file') \in Shown /\ InPlace(table, seq_file', base', f_pos', got')
  BY <1>1, <1>7, <1>8, <1>12, <1>14
<1>19. FileSound(seq_file')
  BY <1>8, <1>13
<1>20. base' \in Nat /\ returned' \in {"none", "data", "eof", "error"} /\ table' = table
  BY <1>1, <1>7
<1> QED
  BY <1>15, <1>16, <1>17, <1>18, <1>19, <1>20, SeqEstablished

\* All that waits has been handed out.
LEMMA AllHandedOut ==
    ASSUME SeqInv, seq_file # NotOpen
    PROVE  LET f == seq_file
               x == seq_file.text
           IN  /\ table \in Seq(Record) /\ f_pos \in Nat /\ base \in Nat /\ got \in Seq(Char)
               /\ f \in SeqFiles /\ f.from + Len(x) <= f.size /\ x \in Seq(Char) /\ f.index \in Nat
               /\ f.from \in Nat /\ f.size \in {0} \cup BufferSizes
               /\ count = Len(x) /\ Len(x) \in Nat /\ (x = << >> <=> Len(x) = 0)
               /\ Reached(f) \in Nat
               /\ Reached(f) = IF count > 0 THEN f.index + 1 ELSE f.index
               /\ got \o x \in Seq(Char) /\ Neat(got \o x, << >>)
               /\ still =>
                    /\ Reached(f) \in Shown
                    /\ \/ InText(Upto(table)[Reached(f)], base, f_pos + Len(x), got \o x, << >>)
                       \/ /\ Past(Upto(table)[Reached(f)], base, f_pos, got, x)
                          /\ Reached(f) = Len(table)
<1> DEFINE f == seq_file
           x == f.text
           n == Len(x)
<1>1. /\ table \in Seq(Record) /\ f_pos \in Nat /\ base \in Nat /\ got \in Seq(Char)
      /\ FileSound(f) /\ Neat(got, x)
      /\ still => Reached(f) \in Shown /\ InPlace(table, f, base, f_pos, got)
  BY DEF SeqInv
<1>2. /\ f \in SeqFiles /\ f.from + Len(x) <= f.size /\ x \in Seq(Char) /\ f.index \in Nat
      /\ f.from \in Nat /\ f.size \in {0} \cup BufferSizes
  BY <1>1 DEF FileSound, SeqFiles
<1>3. count = n /\ n \in Nat /\ (x = << >> <=> n = 0) /\ n \in 0 .. n
  BY <1>2, NonEmpty DEF count
<1>4. Reached(f) = (IF count > 0 THEN f.index + 1 ELSE f.index) /\ Reached(f) \in Nat
  BY <1>2, <1>3 DEF Reached
<1>5. SubSeq(x, 1, n) = x /\ SubSeq(x, n + 1, n) = << >>
  <2>1. n \in Int /\ n + 1 \in Int /\ n < n + 1
    BY <1>3
  <2> QED
    BY <1>2, <2>1, SubSeqFull, SubSeqEmpty
<1>6. got \o x \in Seq(Char)
  BY <1>1, <1>2, ConcatProperties
<1>7. Neat(got \o x, << >>)
  <2>1. Neat(got \o SubSeq(x, 1, n), SubSeq(x, n + 1, n))
    BY <1>1, <1>2, <1>3, NeatHandsOut
  <2> QED
    BY <1>5, <2>1
<1>8. ASSUME still
      PROVE  \/ InText(Upto(table)[Reached(f)], base, f_pos + n, got \o x, << >>)
             \/ Past(Upto(table)[Reached(f)], base, f_pos, got, x) /\ Reached(f) = Len(table)
  <2> DEFINE u == Upto(table)[Reached(f)]
  <2>1. CASE InText(u, base, f_pos, got, x)
    <3>1. Reached(f) \in 0 .. Len(table)
      BY <1>1, <1>8, ShownProperties
    <3>2. u \in Seq(Char)
      BY <1>1, <3>1, UptoWhole
    <3> HIDE DEF u
    <3>3. InText(u, base, f_pos + n, got \o SubSeq(x, 1, n), SubSeq(x, n + 1, n))
      BY <1>1, <1>2, <1>3, <2>1, <3>2, InTextHandsOut
    <3>4. InText(u, base, f_pos + n, got \o x, << >>)
      BY <1>5, <3>3
    <3> QED
      BY <3>4 DEF u
  <2> QED
    BY <1>1, <1>8, <2>1 DEF InPlace
<1> QED
  BY <1>1, <1>2, <1>3, <1>4, <1>6, <1>7, <1>8

\* There is no record to collect, or it fails.
LEMMA CollectNothingKeeps ==
    ASSUME SeqInv, seq_file # NotOpen, NEW there, there = Reached(seq_file),
           there + 1 > Len(table) \/ table[there + 1] \in Bad,
           seq_file' = [seq_file EXCEPT !.size = BufferSize(seq_file.size), !.index = there,
                                        !.from = @ + count, !.text = << >>],
           Returns(seq_file.text, there + 1 <= Len(table)),
           UNCHANGED <<table, base, still>>
    PROVE  SeqInv'
<1> DEFINE f == seq_file
           x == f.text
           n == Len(x)
           u == Upto(table)[there]
<1>1. /\ table \in Seq(Record) /\ f_pos \in Nat /\ base \in Nat /\ got \in Seq(Char)
      /\ f \in SeqFiles /\ f.from + n <= f.size /\ x \in Seq(Char) /\ f.index \in Nat
      /\ f.from \in Nat /\ f.size \in {0} \cup BufferSizes
      /\ count = n /\ n \in Nat /\ (x = << >> <=> n = 0) /\ there \in Nat
      /\ got \o x \in Seq(Char) /\ Neat(got \o x, << >>)
      /\ still => /\ there \in Shown
                  /\ \/ InText(u, base, f_pos + n, got \o x, << >>)
                     \/ Past(u, base, f_pos, got, x) /\ there = Len(table)
  BY AllHandedOut
<1> HIDE DEF u
<1> DEFINE h == [f EXCEPT !.size = BufferSize(f.size), !.index = there, !.from = f.from + n,
                          !.text = << >>]
<1>2. /\ seq_file' = h /\ f_pos' = f_pos + n /\ got' = got \o x
      /\ returned' = (IF x # << >> THEN "data"
                      ELSE IF there + 1 <= Len(table) THEN "error" ELSE "eof")
      /\ table' = table /\ base' = base /\ (still' <=> still)
  BY <1>1 DEF Returns
<1>3. /\ h.size = BufferSize(f.size) /\ h.text = << >> /\ h.from = f.from + n /\ h.index = there
  BY <1>1 DEF SeqFiles
<1>4. BufferSize(f.size) \in BufferSizes /\ BufferSize(f.size) \in Nat /\ f.size \in Nat
       /\ BufferSize(f.size) >= f.size
  BY <1>1, FirstSize
<1>5. h \in SeqFiles
  <2>1. f.from + n \in Nat
    BY <1>1
  <2> QED
    BY <1>1, <1>4, <2>1, EmptyText DEF SeqFiles
<1>6. Reached(h) = there
  BY <1>3 DEF Reached
<1> HIDE DEF h
<1>7. FileSound(h)
  <2> DEFINE new == BufferSize(f.size)
  <2>1. f.from + n <= f.size /\ new >= f.size /\ new \in Nat /\ f.size \in Nat /\ f.from + n \in Nat
    BY <1>1, <1>4
  <2> HIDE DEF new, f, n
  <2>2. f.from + n + 0 <= new
    BY <2>1
  <2>3. Len(<< >>) = 0
    OBVIOUS
  <2> QED
    BY <1>3, <1>5, <2>2, <2>3 DEF FileSound, new
<1>8. ASSUME still PROVE InPlace(table, h, base, f_pos + n, got \o x)
  <2>1. CASE InText(u, base, f_pos + n, got \o x, << >>)
    BY <1>3, <1>6, <2>1 DEF InPlace, u
  <2>2. CASE Past(u, base, f_pos, got, x) /\ there = Len(table)
    <3>1. x = << >> /\ got = << >> /\ n = 0
      BY <1>1, <2>2 DEF Past
    <3>2. f_pos + n = f_pos /\ got \o x = << >>
      BY <1>1, <3>1, LastOfJoin
    <3>3. Past(u, base, f_pos + n, got \o x, << >>)
      BY <2>2, <3>1, <3>2 DEF Past
    <3> QED
      BY <1>3, <1>6, <2>2, <3>3 DEF InPlace, u
  <2> QED
    BY <1>1, <1>8, <2>1, <2>2
<1>9. EofIsTheEnd'
  <2> SUFFICES ASSUME seq_file' # NotOpen, still', returned' = "eof"
               PROVE  f_pos' >= Len(Whole')
    BY DEF EofIsTheEnd
  <2>1. still /\ x = << >> /\ n = 0 /\ ~(there + 1 <= Len(table))
    BY <1>1, <1>2
  <2>2. Len(table) \in Nat /\ there \in 0 .. Len(table)
    BY <1>1, <2>1, ShownProperties
  <2>3. there = Len(table)
    BY <1>1, <2>1, <2>2
  <2>4. Max(Shown) = Len(table)
    <3>1. Max(Shown) \in 0 .. Len(table) /\ Len(table) <= Max(Shown)
      BY <1>1, <2>1, <2>3, ShownProperties
    <3> QED
      BY <2>2, <3>1
  <2>5. Whole = u /\ Len(Whole) \in Nat
    BY <1>1, <2>3, <2>4, WholeText DEF u
  <2>6. Whole' = Whole
    BY <1>2 DEF Whole, Text, Shown
  <2>7. f_pos' = f_pos
    BY <1>1, <1>2, <2>1
  <2>8. CASE InText(u, base, f_pos + n, got \o x, << >>)
    <3>1. Len(<< >>) = 0
      OBVIOUS
    <3>2. f_pos + n + 0 = Len(u)
      BY <2>8, <3>1 DEF InText
    <3> QED
      BY <1>1, <2>1, <2>5, <2>6, <2>7, <3>2
  <2>9. CASE Past(u, base, f_pos, got, x)
    BY <1>1, <2>5, <2>6, <2>7, <2>9 DEF Past
  <2> QED
    BY <1>1, <2>1, <2>8, <2>9
<1>10. got' \in Seq(Char) /\ f_pos' \in Nat /\ returned' \in {"none", "data", "eof", "error"}
  BY <1>1, <1>2
<1>11. Neat(got', seq_file'.text)
  BY <1>1, <1>2, <1>3
<1>12. still' => Reached(seq_file') \in Shown /\ InPlace(table, seq_file', base', f_pos', got')
  BY <1>1, <1>2, <1>6, <1>8
<1>13. FileSound(seq_file')
  BY <1>2, <1>7
<1>14. base' \in Nat /\ table' = table
  BY <1>1, <1>2
<1> QED
  BY <1>9, <1>10, <1>11, <1>12, <1>13, <1>14, SeqEstablished

\* Two texts joined.
LEMMA TwoJoined ==
    ASSUME NEW s \in Seq(Char), NEW t \in Seq(Char)
    PROVE  s \o t \in Seq(Char) /\ Len(s \o t) = Len(s) + Len(t)
  BY ConcatProperties

\* Joining is associative.
LEMMA ThreeJoined ==
    ASSUME NEW r \in Seq(Char), NEW s \in Seq(Char), NEW t \in Seq(Char)
    PROVE  (r \o s) \o t = r \o (s \o t)
  BY ConcatAssociative

\* A number up to n that is not less than n.
LEMMA AtTheEnd ==
    ASSUME NEW n \in Nat, NEW k \in 0 .. n, n <= k
    PROVE  k = n
  OBVIOUS

\* Records i to j are collected.
LEMMA CollectRecordsKeeps ==
    ASSUME SeqInv, seq_file # NotOpen, NEW there, there = Reached(seq_file),
           there + 1 <= Len(table), table[there + 1] \notin Bad, NEW want \in Nat, want > 0,
           NEW wide, wide = Grown(BufferSize(seq_file.size), Length[table[there + 1]]),
           NEW j, j = LastShown(there + 1, want, wide),
           seq_file' = [seq_file EXCEPT !.size = wide,
                            !.text = Drop(Text(there + 1, j), want),
                            !.from = IF Len(Text(there + 1, j)) > want THEN want ELSE @ + count,
                            !.index = IF Len(Text(there + 1, j)) > want THEN j - 1 ELSE j],
           Returns(seq_file.text \o Take(Text(there + 1, j), want),
                   j < Len(table) /\ Len(Text(there + 1, j)) < want /\ table[j + 1] \in Bad),
           UNCHANGED <<table, base, still>>
    PROVE  SeqInv'
<1> DEFINE f == seq_file
           x == f.text
           n == Len(x)
           u == Upto(table)[there]
           v == Upto(table)[j]
           i == there + 1
           T == Text(i, j)
           a == SubSeq(T, 1, Within(want, T))
           b == SubSeq(T, Within(want, T) + 1, Len(T))
           k == Within(want, T)
<1>1. /\ table \in Seq(Record) /\ f_pos \in Nat /\ base \in Nat /\ got \in Seq(Char)
      /\ f \in SeqFiles /\ f.from + n <= f.size /\ x \in Seq(Char) /\ f.index \in Nat
      /\ f.from \in Nat /\ f.size \in {0} \cup BufferSizes
      /\ count = n /\ n \in Nat /\ (x = << >> <=> n = 0) /\ there \in Nat
      /\ got \o x \in Seq(Char) /\ Neat(got \o x, << >>)
      /\ still => /\ there \in Shown
                  /\ \/ InText(u, base, f_pos + n, got \o x, << >>)
                     \/ Past(u, base, f_pos, got, x) /\ there = Len(table)
  BY AllHandedOut
<1>a. /\ table \in Seq(Record) /\ Len(table) \in Nat /\ there \in Nat /\ n \in Nat /\ f_pos \in Nat
      /\ x \in Seq(Char) /\ got \in Seq(Char) /\ got \o x \in Seq(Char)
  BY <1>1
<1> HIDE DEF n
<1>2. /\ Len(table) \in Nat /\ i \in 1 .. Len(table) /\ i - 1 = there /\ table[i] \in Record
      /\ there \in 0 .. Len(table) /\ there # Len(table)
  BY <1>a
<1>3. Length[table[i]] \in Nat /\ Length[table[i]] < PageSize * 256
  BY <1>2, SeqAssumption
<1>4. BufferSize(f.size) \in BufferSizes /\ BufferSize(f.size) \in Nat /\ f.size \in Nat
       /\ BufferSize(f.size) >= f.size
  BY <1>1, FirstSize
<1>5. wide \in BufferSizes /\ wide \in Nat /\ wide > Length[table[i]] /\ wide >= f.size
  <2>1. wide \in BufferSizes /\ wide \in Nat /\ wide > Length[table[i]]
        /\ wide >= BufferSize(f.size)
    BY <1>3, <1>4, GrownFits
  <2> QED
    BY <1>4, <2>1
<1>6. /\ j \in i .. Len(table)
      /\ \A l \in i + 1 .. j : /\ table[l] \notin Bad /\ Len(Text(i, l - 1)) < want
                               /\ Len(Text(i, l)) < wide
      /\ j < Len(table) => \/ table[j + 1] \in Bad
                           \/ ~(Len(Text(i, j)) < want) \/ ~(Len(Text(i, j + 1)) < wide)
  <2>1. j = LastShown(i, want, wide) /\ i \in 1 .. Len(table) /\ wide \in Nat
    BY <1>2, <1>5
  <2> HIDE DEF i, u, v, T, a, b, k, f, x
  <2>2. table \in Seq(Record) /\ want \in Nat
    BY <1>a
  <2>3. j \in i .. Len(table)
    BY <2>1, <2>2, LastShownProperties
  <2>4. ASSUME NEW l \in i + 1 .. j
        PROVE  table[l] \notin Bad /\ Len(Text(i, l - 1)) < want /\ Len(Text(i, l)) < wide
    BY <2>1, <2>2, LastShownProperties
  <2>5. j < Len(table) => \/ table[j + 1] \in Bad
                          \/ ~(Len(Text(i, j)) < want) \/ ~(Len(Text(i, j + 1)) < wide)
    BY <2>1, <2>2, LastShownProperties
  <2> QED
    BY <2>3, <2>4, <2>5
<1>7. j \in Nat /\ j \in 0 .. Len(table) /\ i \in 1 .. j + 1 /\ there \in 0 .. j /\ j # 0
  BY <1>2, <1>6
<1>8. /\ T \in Seq(Char) /\ Untorn(T) /\ EndsWhole(T) /\ StartsWhole(T)
      /\ Len(T) = Len(v) - Len(u) /\ Len(T) \in Nat
  <2>1. /\ Text(i, j) \in Seq(Char) /\ Untorn(Text(i, j))
        /\ EndsWhole(Text(i, j)) /\ StartsWhole(Text(i, j))
        /\ Len(Text(i, j)) = Len(Upto(table)[j]) - Len(Upto(table)[i - 1])
        /\ Len(Text(i, j)) \in Nat
    <3> HIDE DEF i
    <3> QED
      BY <1>a, <1>7, TextWhole
  <2> QED
    BY <1>2, <2>1
<1>9. /\ u \in Seq(Char) /\ v \in Seq(Char) /\ Begins(u, v)
      /\ Len(u) \in Nat /\ Len(v) \in Nat /\ Len(u) <= Len(v)
  BY <1>1, <1>2, <1>7, UptoWhole, UptoBegins
<1>10. T = SubSeq(v, Len(u) + 1, Len(v))
  BY <1>2 DEF Text
<1>11. Len(Text(i, i)) = Length[table[i]]
  <2>1. Len(Text(i, i)) = Len(Upto(table)[i]) - Len(Upto(table)[i - 1])
    <3>1. i \in 0 .. Len(table) /\ i \in 1 .. i + 1
      BY <1>2
    <3> QED
      BY <1>1, <3>1, TextWhole
  <2>2. /\ Len(Upto(table)[i - 1]) \in Nat
        /\ Len(Upto(table)[i]) = Len(Upto(table)[i - 1]) + Length[table[i]]
    BY <1>1, <1>2, UptoStep
  <2> QED
    BY <1>3, <2>1, <2>2
<1>12. Len(T) < wide
  <2>1. CASE j = i
    BY <1>3, <1>5, <1>11, <2>1
  <2>2. CASE j # i
    <3>1. j \in i + 1 .. j
      BY <1>2, <1>6, <2>2
    <3> QED
      BY <1>6, <3>1
  <2> QED
    BY <2>1, <2>2
<1> HIDE DEF T, u, v
<1>13. /\ Take(T, want) = a /\ Drop(T, want) = b /\ k \in 0 .. Len(T) /\ a \in Seq(Char)
       /\ b \in Seq(Char) /\ Len(a) = k /\ Len(b) = Len(T) - k
  <2>1. /\ Take(T, want) = SubSeq(T, 1, Within(want, T))
        /\ Drop(T, want) = SubSeq(T, Within(want, T) + 1, Len(T))
        /\ Within(want, T) \in 0 .. Len(T)
        /\ Take(T, want) \in Seq(Char) /\ Len(Take(T, want)) = Within(want, T)
        /\ Drop(T, want) \in Seq(Char) /\ Len(Drop(T, want)) = Len(T) - Within(want, T)
    BY <1>8, TakeAndDrop
  <2> QED
    BY <2>1
<1>14. k = IF want < Len(T) THEN want ELSE Len(T)
  BY DEF Within
<1> HIDE DEF a, b, k
<1>15. (a = << >> <=> k = 0) /\ (b = << >> <=> Len(T) - k = 0) /\ (T = << >> <=> Len(T) = 0)
  BY <1>8, <1>13, NonEmpty
<1>16. (b = << >> <=> ~(Len(T) > want)) /\ (a = << >> <=> T = << >>)
  BY <1>8, <1>14, <1>15
<1>17. Neat((got \o x) \o a, b)
  <2>1. Neat(got \o x, T)
    BY <1>1, <1>8, NeatCollects
  <2> QED
    BY <1>1, <1>8, <1>13, <2>1, NeatHandsOut DEF a, b, k
<1>18. (got \o x) \o a = got \o (x \o a)
  <2>1. x \in Seq(Char) /\ a \in Seq(Char)
    BY <1>a, <1>13
  <2> HIDE DEF x
  <2> QED
    BY <1>a, <2>1, ThreeJoined
<1>19. x \o a \in Seq(Char) /\ got \o (x \o a) \in Seq(Char) /\ Len(x \o a) = n + k
       /\ (x \o a = << >> <=> x = << >> /\ a = << >>)
  <2>1. x \o a \in Seq(Char) /\ Len(x \o a) = n + k
    <3>1. x \o a \in Seq(Char) /\ Len(x \o a) = Len(x) + Len(a)
      <4>1. x \in Seq(Char) /\ a \in Seq(Char)
        BY <1>a, <1>13
      <4> HIDE DEF x
      <4> QED
        BY <4>1, TwoJoined
    <3> QED
      BY <1>13, <3>1 DEF n
  <2>2. x \o a = << >> <=> x = << >> /\ a = << >>
    BY <1>1, <1>13, LastOfJoin
  <2> QED
    BY <1>1, <2>1, <2>2, ConcatProperties
<1> DEFINE failed == j < Len(table) /\ Len(T) < want /\ table[j + 1] \in Bad
           h == [f EXCEPT !.size = wide, !.text = b,
                          !.from = IF Len(T) > want THEN want ELSE f.from + n,
                          !.index = IF Len(T) > want THEN j - 1 ELSE j]
<1>20. /\ f_pos' = f_pos + (n + k) /\ got' = (got \o x) \o a
       /\ returned' = (IF x \o a # << >> THEN "data" ELSE IF failed THEN "error" ELSE "eof")
       /\ table' = table /\ base' = base /\ (still' <=> still)
  BY <1>13, <1>18, <1>19 DEF Returns, T
<1>21. seq_file' = h
  BY <1>1, <1>13 DEF T
<1>22. /\ h.size = wide /\ h.text = b /\ h.from = (IF Len(T) > want THEN want ELSE f.from + n)
       /\ h.index = (IF Len(T) > want THEN j - 1 ELSE j)
  BY <1>1 DEF SeqFiles
<1>23. h \in SeqFiles
  <2>1. (IF Len(T) > want THEN want ELSE f.from + n) \in Nat
    BY <1>1
  <2>2. (IF Len(T) > want THEN j - 1 ELSE j) \in Nat
    BY <1>7
  <2> QED
    BY <1>1, <1>5, <1>13, <2>1, <2>2 DEF SeqFiles
<1> HIDE DEF h
<1>24. Reached(h) = j
  <2>1. (j - 1) + 1 = j
    BY <1>7
  <2>2. CASE Len(T) > want
    <3>1. h.text # << >> /\ h.index = j - 1
      BY <1>16, <1>22, <2>2
    <3> QED
      BY <2>1, <3>1 DEF Reached
  <2>3. CASE ~(Len(T) > want)
    <3>1. h.text = << >> /\ h.index = j
      BY <1>16, <1>22, <2>3
    <3> QED
      BY <3>1 DEF Reached
  <2> QED
    BY <2>2, <2>3
<1>25. FileSound(h)
  <2> DEFINE lt == Len(T)
             from == IF lt > want THEN want ELSE f.from + n
             old == f.from + n
  <2>1. /\ lt \in Nat /\ k = (IF want < lt THEN want ELSE lt) /\ lt < wide /\ wide \in Nat
        /\ old <= f.size /\ old \in Nat /\ f.size \in Nat /\ f.size <= wide
    <3>1. /\ lt \in Nat /\ k = (IF want < lt THEN want ELSE lt) /\ lt < wide /\ wide \in Nat
      BY <1>5, <1>8, <1>12, <1>14
    <3>2. /\ f.from + n <= f.size /\ f.from \in Nat
      BY <1>1 DEF n
    <3>3. f.size \in Nat /\ f.size <= wide
      BY <1>4, <1>5
    <3>4. old <= f.size /\ old \in Nat
      BY <1>a, <3>2
    <3> QED
      BY <3>1, <3>3, <3>4
  <2> HIDE DEF lt, old, f
  <2>2. from + (lt - k) <= wide
    BY <2>1 DEF old
  <2> QED
    BY <1>13, <1>22, <1>23, <2>2 DEF FileSound, lt, f
<1>26. ASSUME still PROVE j \in Shown /\ InPlace(table, h, base, f_pos + (n + k), (got \o x) \o a)
  <2>1. InText(u, base, f_pos + n, got \o x, << >>) /\ there \in Shown
    BY <1>1, <1>2, <1>26
  <2>2. f_pos + n \in Nat /\ (f_pos + n) + k = f_pos + (n + k)
    <3>1. k \in Nat
      BY <1>8, <1>13
    <3> QED
      BY <1>a, <3>1
  <2>3. InText(v, base, f_pos + n, got \o x, T)
    BY <1>1, <1>9, <1>10, <2>1, <2>2, InTextCollects
  <2>4. InText(v, base, (f_pos + n) + k, (got \o x) \o a, b)
    BY <1>1, <1>8, <1>9, <1>13, <2>2, <2>3, InTextHandsOut DEF a, b, k
  <2>5. j \in Shown
    <3>1. ASSUME NEW l \in 1 .. j PROVE table[l] \notin Bad
      <4>1. CASE l <= there
        <5>1. l \in 1 .. there
          BY <1>1, <4>1
        <5> QED
          BY <2>1, <5>1 DEF Shown
      <4>2. CASE l = i
        BY <4>2
      <4>3. CASE l > i
        <5>1. l \in i + 1 .. j
          BY <1>2, <4>3
        <5> QED
          BY <1>6, <5>1
      <4> QED
        BY <1>1, <1>2, <4>1, <4>2, <4>3
    <3> QED
      BY <1>7, <3>1 DEF Shown
  <2> QED
    BY <1>22, <1>24, <2>2, <2>4, <2>5 DEF InPlace, v
<1>27. EofIsTheEnd'
  <2> SUFFICES ASSUME seq_file' # NotOpen, still', returned' = "eof"
               PROVE  \/ f_pos' >= Len(Whole')
                      \/ /\ h.index \in 1 .. Len(table) - 1
                         /\ Length[table[h.index]] = 0
                         /\ Length[table[h.index + 1]] >= h.size
    BY <1>20, <1>21 DEF EofIsTheEnd
  <2>1. still /\ x = << >> /\ a = << >> /\ ~failed
    BY <1>19, <1>20
  <2>2. n = 0 /\ Len(T) = 0 /\ k = 0
    BY <1>1, <1>13, <1>15, <1>16, <2>1
  <2>3. h.index = j /\ h.size = wide /\ Len(v) = Len(u)
    BY <1>8, <1>9, <1>22, <2>2
  <2>4. CASE j = Len(table)
    <3>1. j \in Shown
      BY <1>26, <2>1
    <3>2. Max(Shown) = j
      <4>1. Max(Shown) \in 0 .. Len(table) /\ j <= Max(Shown)
        BY <1>a, <3>1, ShownProperties
      <4> DEFINE max == Max(Shown)
      <4>2. max \in 0 .. Len(table) /\ j <= max
        BY <4>1
      <4> HIDE DEF max
      <4>3. max = j
        BY <1>a, <2>4, <4>2, AtTheEnd
      <4> QED
        BY <4>3 DEF max
    <3>3. Whole' = v
      <4>1. Whole' = Whole
        BY <1>20 DEF Whole, Text, Shown
      <4> QED
        BY <1>1, <3>2, <4>1, WholeText DEF v
    <3>4. InText(u, base, f_pos + n, got \o x, << >>)
      BY <1>1, <1>2, <2>1
    <3>5. Len(<< >>) = 0
      OBVIOUS
    <3>6. f_pos + n + 0 = Len(u)
      BY <3>4, <3>5 DEF InText
    <3> QED
      BY <1>1, <1>9, <1>20, <2>2, <2>3, <3>3, <3>6
  <2>5. CASE j # Len(table)
    <3>1. j < Len(table) /\ j \in 1 .. Len(table) - 1 /\ j + 1 \in 1 .. Len(table)
          /\ j \in 1 .. Len(table)
      BY <1>2, <1>6, <2>5
    <3>2. ~(Len(Text(i, j + 1)) < wide)
      BY <1>6, <2>1, <2>2, <3>1 DEF T
    <3>3. Len(Text(i, j + 1)) = Len(Upto(table)[j + 1]) - Len(u)
      <4>1. j + 1 \in 0 .. Len(table) /\ i \in 1 .. (j + 1) + 1
        BY <1>2, <1>6, <3>1
      <4> DEFINE j1 == j + 1
      <4>2. j1 \in 0 .. Len(table) /\ i \in 1 .. j1 + 1
        BY <4>1
      <4> HIDE DEF j1, i
      <4>3. Len(Text(i, j1)) = Len(Upto(table)[j1]) - Len(Upto(table)[i - 1])
        BY <1>a, <4>2, TextWhole
      <4> QED
        BY <1>2, <4>3 DEF u, j1
    <3>4. Len(Upto(table)[j + 1]) = Len(v) + Length[table[j + 1]] /\ Length[table[j + 1]] \in Nat
      <4>1. (j + 1) - 1 = j
        BY <1>7
      <4> DEFINE j1 == j + 1
      <4>2. j1 \in 1 .. Len(table)
        BY <3>1
      <4> HIDE DEF j1
      <4>3. Len(Upto(table)[j1]) = Len(Upto(table)[j1 - 1]) + Length[table[j1]]
            /\ Length[table[j1]] \in Nat
        BY <1>a, <4>2, UptoStep
      <4> QED
        BY <4>1, <4>3 DEF v, j1
    <3>5. Length[table[j + 1]] >= wide
      BY <1>5, <1>9, <2>3, <3>2, <3>3, <3>4
    <3>6. Length[table[j]] = 0
      <4>1. /\ Len(v) = Len(Upto(table)[j - 1]) + Length[table[j]] /\ Length[table[j]] \in Nat
            /\ Len(Upto(table)[j - 1]) \in Nat
        BY <1>1, <3>1, UptoStep DEF v
      <4>2. j - 1 \in 0 .. Len(table) /\ there \in 0 .. j - 1
        BY <1>2, <1>6
      <4>3. Len(u) <= Len(Upto(table)[j - 1])
        BY <1>1, <4>2, UptoBegins DEF u
      <4> DEFINE lv == Len(v)
                 lu == Len(u)
                 before == Len(Upto(table)[j - 1])
                 here == Length[table[j]]
      <4>4. lv = lu
        BY <2>3
      <4>5. /\ lv = before + here /\ here \in Nat /\ before \in Nat
            /\ lu <= before
        BY <4>1, <4>3
      <4> HIDE DEF lv, lu, before, here
      <4>6. here = 0
        BY <4>4, <4>5
      <4> QED
        BY <4>6 DEF here
    <3> QED
      BY <2>3, <3>1, <3>5, <3>6
  <2> QED
    BY <2>4, <2>5
<1>28. got' \in Seq(Char) /\ f_pos' \in Nat /\ returned' \in {"none", "data", "eof", "error"}
  <2>1. k \in Nat
    BY <1>8, <1>13
  <2>2. f_pos + (n + k) \in Nat
    BY <1>a, <2>1
  <2> QED
    BY <1>18, <1>19, <1>20, <2>2
<1>29. Neat(got', seq_file'.text)
  BY <1>17, <1>20, <1>21, <1>22
<1>30. still' => Reached(seq_file') \in Shown /\ InPlace(table, seq_file', base', f_pos', got')
  BY <1>20, <1>21, <1>24, <1>26
<1>31. FileSound(seq_file')
  BY <1>21, <1>25
<1>32. base' \in Nat /\ table' = table
  BY <1>1, <1>20
<1> QED
  BY <1>27, <1>28, <1>29, <1>30, <1>31, <1>32, SeqEstablished

\* seq_read keeps the invariant.
LEMMA ReadKeeps ==
    ASSUME SeqInv, NEW size \in 1 .. MaxSize, seq_read(size)
    PROVE  SeqInv'
<1>1. size \in Nat /\ size > 0
  BY SeqAssumption
<1>2. seq_file # NotOpen /\ UNCHANGED <<table, base, still>>
  BY DEF seq_read
<1>3. count \in Nat
  BY <1>2, AllHandedOut
<1>4. CASE count > 0 /\ size <= count
  <2>1. /\ seq_file' = [seq_file EXCEPT !.size = BufferSize(@), !.text = Drop(@, size),
                                        !.from = @ + size,
                                        !.index = IF size = count THEN @ + 1 ELSE @]
        /\ Returns(Take(seq_file.text, size), FALSE)
    BY <1>4 DEF seq_read
  <2> QED
    BY <1>1, <1>2, <1>4, <2>1, FlushKeeps
<1>5. CASE ~(count > 0 /\ size <= count)
  <2> DEFINE there == Reached(seq_file)
             want == size - count
  <2>1. there = IF count > 0 THEN seq_file.index + 1 ELSE seq_file.index
    BY <1>2, AllHandedOut
  <2>2. Collect(seq_file.text, want, there, BufferSize(seq_file.size))
    BY <1>5, <2>1 DEF seq_read
  <2>3. want \in Nat /\ want > 0
    BY <1>1, <1>3, <1>5
  <2>0. Len(table) \in Nat /\ there \in Nat
    BY <1>2, AllHandedOut
  <2> HIDE DEF there, want
  <2>4. CASE there + 1 > Len(table) \/ table[there + 1] \in Bad
    <3>1. /\ seq_file' = [seq_file EXCEPT !.size = BufferSize(seq_file.size), !.index = there,
                                          !.from = @ + count, !.text = << >>]
          /\ Returns(seq_file.text, there + 1 <= Len(table))
      BY <2>2, <2>4 DEF Collect
    <3> QED
      BY <1>2, <2>4, <3>1, CollectNothingKeeps DEF there
  <2>5. CASE ~(there + 1 > Len(table) \/ table[there + 1] \in Bad)
    <3> DEFINE wide == Grown(BufferSize(seq_file.size), Length[table[there + 1]])
               j == LastShown(there + 1, want, wide)
    <3>1. /\ seq_file' = [seq_file EXCEPT !.size = wide,
                              !.text = Drop(Text(there + 1, j), want),
                              !.from = IF Len(Text(there + 1, j)) > want THEN want ELSE @ + count,
                              !.index = IF Len(Text(there + 1, j)) > want THEN j - 1 ELSE j]
          /\ Returns(seq_file.text \o Take(Text(there + 1, j), want),
                     j < Len(table) /\ Len(Text(there + 1, j)) < want /\ table[j + 1] \in Bad)
      BY <2>2, <2>5 DEF Collect
    <3>2. there + 1 <= Len(table) /\ table[there + 1] \notin Bad
      BY <2>0, <2>5
    <3> HIDE DEF wide, j
    <3> QED
      BY <1>2, <2>3, <3>1, <3>2, CollectRecordsKeeps DEF there, wide, j
  <2> QED
    BY <2>4, <2>5
<1> QED
  BY <1>4, <1>5

\* Nothing was handed out since the position of the file was moved.
LEMMA MovedKeeps ==
    ASSUME SeqInv, NEW h \in SeqFiles, h.from + Len(h.text) <= h.size, seq_file' = h,
           NEW pos \in Nat, table' = table, got' = << >>, f_pos' = pos, base' = pos,
           returned' \in {"none", "error"}, Untorn(h.text), EndsWhole(h.text),
           Reached(h) \in Shown, InPlace(table, h, pos, pos, << >>)
    PROVE  SeqInv'
<1>1. EofIsTheEnd'
  BY DEF EofIsTheEnd
<1>2. Neat(<< >>, h.text)
  BY EmptyText DEF Neat, Continues
<1>3. returned' \in {"none", "data", "eof", "error"}
  OBVIOUS
<1>4. FileSound(seq_file')
  BY DEF FileSound
<1> QED
  BY <1>1, <1>2, <1>3, <1>4, EmptyText, SeqEstablished

\* The buffer that traverse leaves holds every record it has shown.
LEMMA SpaceFits ==
    ASSUME table \in Seq(Record), seq_file.size \in {0} \cup BufferSizes,
           NEW n \in 0 .. Len(table)
    PROVE  /\ Space(n) \in BufferSizes /\ Space(n) \in Nat
           /\ \A i \in 1 .. n : Space(n) > Length[table[i]]
<1> DEFINE seen == { Length[table[i]] : i \in 1 .. n } \cup {0}
           bound == PageSize * 256
           max == Max(seen)
<1>1. bound \in Nat /\ bound > 0
  BY SeqAssumption
<1>2. \A i \in 1 .. n : Length[table[i]] \in Nat /\ Length[table[i]] < bound
  <2> SUFFICES ASSUME NEW i \in 1 .. n
               PROVE  Length[table[i]] \in Nat /\ Length[table[i]] < bound
    OBVIOUS
  <2>1. i \in 1 .. Len(table)
    OBVIOUS
  <2>2. table[i] \in Record
    BY <2>1
  <2> QED
    BY <2>2, SeqAssumption
<1> HIDE DEF bound
<1>3. seen \subseteq Nat /\ seen # {} /\ \A s \in seen : s < bound /\ s <= bound
  BY <1>1, <1>2
<1>4. max \in seen /\ \A s \in seen : max >= s
  BY <1>1, <1>3, MaxOf
<1>5. max \in Nat /\ max < bound
  BY <1>3, <1>4
<1>6. \A i \in 1 .. n : Length[table[i]] \in seen
  OBVIOUS
<1>7. \A i \in 1 .. n : max >= Length[table[i]]
  BY <1>4, <1>6
<1> DEFINE size == BufferSize(seq_file.size)
<1>8. size \in BufferSizes
  BY FirstSize
<1>9. Space(n) = Grown(size, max)
  BY DEF Space
<1> HIDE DEF max, size
<1>10. Grown(size, max) \in BufferSizes /\ Grown(size, max) \in Nat /\ Grown(size, max) > max
  BY <1>5, <1>8, GrownFits DEF bound
<1> DEFINE grown == Grown(size, max)
<1> HIDE DEF grown
<1>11. \A i \in 1 .. n : grown > Length[table[i]]
  BY <1>2, <1>5, <1>7, <1>10 DEF grown
<1> QED
  BY <1>9, <1>10, <1>11 DEF grown

\* The position is the end of a record.
LEMMA MovedToRecord ==
    ASSUME SeqInv, seq_file # NotOpen, NEW n \in Shown, NEW size \in {0} \cup BufferSizes,
           seq_file' = [seq_file EXCEPT !.size = size, !.index = n, !.from = 0, !.text = << >>],
           NEW pos \in Nat, table' = table, got' = << >>, f_pos' = pos, base' = pos,
           returned' \in {"none", "error"},
           pos = Len(Upto(table)[n]) \/ (n = Len(table) /\ pos > Len(Upto(table)[n]))
    PROVE  SeqInv'
<1> DEFINE h == [seq_file EXCEPT !.size = size, !.index = n, !.from = 0, !.text = << >>]
<1>1. table \in Seq(Record) /\ seq_file \in SeqFiles
  BY AllHandedOut
<1>2. n \in 0 .. Len(table) /\ n \in Nat
  BY <1>1, ShownProperties
<1>3. h \in SeqFiles /\ h.text = << >> /\ h.from = 0 /\ h.size = size /\ h.index = n
  BY <1>1, <1>2, EmptyText DEF SeqFiles
<1>4. size \in Nat /\ 0 + Len(<< >>) <= size
  BY FirstSize
<1>5. Reached(h) = n
  BY <1>3 DEF Reached
<1> HIDE DEF h
<1>6. InPlace(table, h, pos, pos, << >>)
  <2>1. CASE pos = Len(Upto(table)[n])
    <3>1. InText(Upto(table)[n], pos, pos, << >>, << >>)
      BY <1>1, <1>2, <2>1, AtRecord
    <3> QED
      BY <1>3, <1>5, <3>1 DEF InPlace
  <2>2. CASE n = Len(table) /\ pos > Len(Upto(table)[n])
    BY <1>3, <1>5, <2>2 DEF InPlace, Past
  <2> QED
    BY <2>1, <2>2
<1>7. seq_file' = h
  BY DEF h
<1> QED
  BY <1>3, <1>4, <1>5, <1>6, <1>7, EmptyText, MovedKeeps

\* The record in which the offset is.
LEMMA ReachesProperties ==
    ASSUME table \in Seq(Record), NEW offset \in Nat, offset > 0, Reaches(offset) # {},
           NEW last, last = Min(Reaches(offset))
    PROVE  /\ last \in 1 .. Len(table) /\ last - 1 \in 0 .. last /\ last \in 0 .. Len(table)
           /\ Len(Upto(table)[last - 1]) < offset /\ offset <= Len(Upto(table)[last])
<1> DEFINE T == Reaches(offset)
<1>1. Len(table) \in Nat
  OBVIOUS
<1>2. T \subseteq 1 .. Len(table) /\ T \subseteq Nat
  BY <1>1 DEF Reaches
<1>3. last \in T /\ \A x \in T : last <= x
  BY <1>2, MinOf
<1>4. last \in 1 .. Len(table) /\ last - 1 \in 0 .. last /\ last \in 0 .. Len(table)
      /\ last - 1 \in 0 .. Len(table)
  BY <1>1, <1>2, <1>3
<1>5. \A n \in 0 .. Len(table) : Text(1, n) = Upto(table)[n]
  BY WholeText
<1>6. Len(Upto(table)[last]) >= offset
  BY <1>3, <1>4, <1>5 DEF Reaches
<1>7. Len(Upto(table)[last - 1]) \in Nat /\ Len(Upto(table)[last]) \in Nat
  BY <1>4, UptoWhole
<1>8. Len(Upto(table)[last - 1]) < offset
  <2>1. CASE last = 1
    <3>1. Len(Upto(table)[0]) = 0 /\ last - 1 = 0
      BY <2>1, NoRecords
    <3> QED
      BY <3>1
  <2>2. CASE last # 1
    <3>1. last - 1 \in 1 .. Len(table) /\ ~(last <= last - 1)
      BY <1>1, <1>4, <2>2
    <3>2. last - 1 \notin T
      BY <1>3, <3>1
    <3>3. ~(Len(Text(1, last - 1)) >= offset)
      BY <3>1, <3>2 DEF Reaches
    <3>4. ~(Len(Upto(table)[last - 1]) >= offset)
      BY <1>4, <1>5, <3>3
    <3> QED
      BY <1>7, <3>4
  <2> QED
    BY <2>1, <2>2
<1> QED
  BY <1>4, <1>6, <1>7, <1>8

\* The position is inside of a record, or at its end.
LEMMA TraverseKeeps ==
    ASSUME SeqInv, seq_file # NotOpen, NEW offset \in Nat, offset > 0, Reaches(offset) # {},
           NEW last, last = Min(Reaches(offset)), last \in Shown,
           seq_file' = traverse(offset, last, Space(last)),
           table' = table, got' = << >>, f_pos' = offset, base' = offset, returned' = "none"
    PROVE  SeqInv'
<1> DEFINE u == Upto(table)[last]
           p == Len(Upto(table)[last - 1])
           l == Len(u)
           T == Text(last, last)
           from == offset - p
           space == Space(last)
<1>1. table \in Seq(Record) /\ seq_file \in SeqFiles /\ seq_file.size \in {0} \cup BufferSizes
  BY AllHandedOut
<1>2. /\ last \in 1 .. Len(table) /\ last - 1 \in 0 .. last /\ last \in 0 .. Len(table)
      /\ p < offset /\ offset <= l
  BY <1>1, ReachesProperties
<1>3. u \in Seq(Char) /\ l \in Nat /\ p \in Nat /\ p <= l
  BY <1>1, <1>2, UptoWhole, UptoBegins
<1>4. /\ l = p + Length[table[last]] /\ Length[table[last]] \in Nat
  BY <1>1, <1>2, UptoStep
<1>5. /\ T \in Seq(Char) /\ Untorn(T) /\ EndsWhole(T) /\ Len(T) = l - p
  <2>1. last \in 1 .. last + 1
    BY <1>2
  <2> QED
    BY <1>1, <1>2, <2>1, TextWhole
<1>6. T = SubSeq(u, p + 1, l)
  BY DEF Text
<1>7. Text(1, last) = u
  BY <1>1, <1>2, WholeText
<1>8. /\ space \in BufferSizes /\ space \in Nat /\ space > Length[table[last]]
  <2>1. last \in 1 .. last
    BY <1>2
  <2> QED
    BY <1>1, <1>2, <2>1, SpaceFits
<1> HIDE DEF u, p, l, T, space
<1>9. from \in Nat /\ from > 0 /\ from <= l - p /\ l - p = Length[table[last]] /\ p + from = offset
  BY <1>2, <1>3, <1>4
<1>10. Length[table[last]] - (Len(Text(1, last)) - offset) = from
  BY <1>2, <1>3, <1>4, <1>7 DEF l
<1>11. seq_file' = IF from = Len(T)
            THEN [seq_file EXCEPT !.size = space, !.index = last, !.from = 0, !.text = << >>]
            ELSE [seq_file EXCEPT !.size = space, !.index = last - 1, !.from = from,
                                  !.text = Drop(T, from)]
  BY <1>10 DEF traverse, T, space
<1> HIDE DEF from
<1>12. CASE from = Len(T)
  <2>1. offset = l
    BY <1>2, <1>3, <1>5, <1>9, <1>12
  <2>2. seq_file' = [seq_file EXCEPT !.size = space, !.index = last, !.from = 0, !.text = << >>]
    BY <1>11, <1>12
  <2> QED
    BY <1>8, <2>1, <2>2, MovedToRecord DEF l, u
<1>13. CASE from # Len(T)
  <2> DEFINE x == SubSeq(T, from + 1, Len(T))
             h == [seq_file EXCEPT !.size = space, !.index = last - 1, !.from = from, !.text = x]
  <2>1. from \in 0 .. Len(T) /\ from < Len(T)
    BY <1>3, <1>5, <1>9, <1>13
  <2>2. Drop(T, from) = x /\ x \in Seq(Char) /\ Len(x) = Len(T) - from
    <3>1. Within(from, T) = from
      BY <2>1 DEF Within
    <3>2. /\ Drop(T, from) = SubSeq(T, Within(from, T) + 1, Len(T))
          /\ Drop(T, from) \in Seq(Char) /\ Len(Drop(T, from)) = Len(T) - Within(from, T)
      BY <1>5, <1>9, TakeAndDrop
    <3> QED
      BY <3>1, <3>2
  <2>3. seq_file' = h
    BY <1>11, <1>13, <2>2
  <2>4. Untorn(x) /\ EndsWhole(x)
    BY <1>5, <2>1, UntornCut, EndsWholeCut
  <2>5. x = SubSeq(u, offset + 1, l)
    <3>1. l - p \in Nat /\ l - p <= l - p /\ p + (l - p) = l /\ l <= Len(u)
      BY <1>3, <1>9 DEF l
    <3>2. SubSeq(SubSeq(u, p + 1, l), from + 1, l - p) = SubSeq(u, p + from + 1, p + (l - p))
      BY <1>3, <1>9, <3>1, PieceOfPiece
    <3> QED
      BY <1>5, <1>6, <1>9, <3>1, <3>2
  <2> HIDE DEF x
  <2>6. x # << >>
    <3>1. Len(x) # 0
      BY <1>5, <2>1, <2>2
    <3> QED
      BY <2>2, <3>1, NonEmpty
  <2>7. last - 1 \in Nat /\ (last - 1) + 1 = last
    BY <1>2
  <2>8. h \in SeqFiles /\ h.text = x /\ h.from = from /\ h.size = space /\ h.index = last - 1
    BY <1>1, <1>8, <1>9, <2>2, <2>7 DEF SeqFiles
  <2>9. Reached(h) = last
    BY <2>6, <2>7, <2>8 DEF Reached
  <2> HIDE DEF h
  <2>10. from + Len(x) <= space
    <3> DEFINE lx == Len(x)
               lt == Len(T)
               length == Length[table[last]]
    <3>1. /\ lx = lt - from /\ lt = length /\ length \in Nat /\ space > length /\ space \in Nat
          /\ from \in Nat
      BY <1>4, <1>5, <1>8, <1>9, <2>2
    <3> HIDE DEF lx, lt, length
    <3>2. from + lx <= space
      BY <3>1
    <3> QED
      BY <3>2 DEF lx
  <2>11. InText(u, offset, offset, << >>, x)
    <3>1. offset = offset + 0 /\ Len(<< >>) = 0 /\ offset \in Int /\ offset < offset + 1
          /\ offset + 1 \in Int
      OBVIOUS
    <3>2. offset + Len(x) = l
      BY <1>3, <1>5, <1>9, <2>2
    <3>3. SubSeq(u, offset + 1, offset) = << >>
      BY <3>1, SubSeqEmpty
    <3> QED
      BY <2>5, <3>1, <3>2, <3>3 DEF InText, l
  <2>12. InPlace(table, h, offset, offset, << >>)
    BY <2>8, <2>9, <2>11 DEF InPlace, u
  <2> QED
    BY <2>3, <2>4, <2>8, <2>9, <2>10, <2>12, MovedKeeps
<1> QED
  BY <1>12, <1>13

\* seq_lseek keeps the invariant.
LEMMA LseekKeeps ==
    ASSUME SeqInv, NEW offset \in 0 .. MaxSeek, seq_lseek(offset)
    PROVE  SeqInv'
<1> DEFINE last == IF Reaches(offset) = {} THEN Len(table) ELSE Min(Reaches(offset))
<1>1. seq_file # NotOpen /\ table' = table /\ got' = << >> /\ offset \in Nat
  BY SeqAssumption DEF seq_lseek
<1>2. /\ table \in Seq(Record) /\ seq_file \in SeqFiles
      /\ seq_file.size \in {0} \cup BufferSizes
  BY <1>1, AllHandedOut
<1>3. 0 \in Shown /\ Max(Shown) \in 0 .. Len(table) /\ Len(Upto(table)[0]) = 0 /\ 0 \in Nat
  BY <1>2, ShownProperties, NoRecords
<1>4. CASE offset > 0 /\ last \notin Shown
  <2>1. /\ seq_file' = [seq_file EXCEPT !.size = Space(Max(Shown)), !.index = 0, !.from = 0,
                                        !.text = << >>]
        /\ f_pos' = 0 /\ base' = 0 /\ returned' = "error"
    BY <1>4 DEF seq_lseek
  <2>2. Space(Max(Shown)) \in BufferSizes
    BY <1>2, <1>3, SpaceFits
  <2> QED
    BY <1>1, <1>3, <2>1, <2>2, MovedToRecord
<1>5. CASE ~(offset > 0 /\ last \notin Shown)
  <2>1. /\ seq_file' = IF offset = 0
              THEN [seq_file EXCEPT !.index = 0, !.from = 0, !.text = << >>]
              ELSE IF Reaches(offset) = {}
              THEN [seq_file EXCEPT !.size = Space(last), !.index = last, !.from = 0,
                                    !.text = << >>]
              ELSE traverse(offset, last, Space(last))
        /\ f_pos' = offset /\ base' = offset /\ returned' = "none"
    BY <1>5 DEF seq_lseek
  <2>2. CASE offset = 0
    <3>1. seq_file' = [seq_file EXCEPT !.index = 0, !.from = 0, !.text = << >>]
      BY <2>1, <2>2
    <3>2. seq_file' = [seq_file EXCEPT !.size = seq_file.size, !.index = 0, !.from = 0,
                                       !.text = << >>]
      BY <1>2, <3>1 DEF SeqFiles
    <3> QED
      BY <1>1, <1>2, <1>3, <2>1, <2>2, <3>2, MovedToRecord
  <2>3. CASE offset # 0 /\ Reaches(offset) = {}
    <3>1. last = Len(table) /\ Len(table) \in Nat /\ last \in 0 .. Len(table) /\ offset > 0
      BY <1>1, <1>2, <2>3
    <3>2. last \in Shown
      BY <1>5, <3>1
    <3>3. Space(last) \in BufferSizes
      BY <1>2, <3>1, SpaceFits
    <3>4. Len(Upto(table)[last]) < offset
      <4>1. CASE Len(table) = 0
        BY <1>3, <3>1, <4>1
      <4>2. CASE Len(table) # 0
        <5>1. last \in 1 .. Len(table)
          BY <3>1, <4>2
        <5>2. ~(Len(Text(1, last)) >= offset)
          BY <2>3, <5>1 DEF Reaches
        <5>3. Text(1, last) = Upto(table)[last]
          BY <1>2, <3>1, WholeText
        <5>4. Len(Upto(table)[last]) \in Nat
          BY <1>2, <3>1, UptoWhole
        <5> QED
          BY <1>1, <5>2, <5>3, <5>4
      <4> QED
        BY <4>1, <4>2
    <3>5. offset > Len(Upto(table)[last])
      <4>1. Len(Upto(table)[last]) \in Nat
        BY <1>2, <3>1, UptoWhole
      <4> QED
        BY <1>1, <3>4, <4>1
    <3>6. seq_file' = [seq_file EXCEPT !.size = Space(last), !.index = last, !.from = 0,
                                       !.text = << >>]
      BY <2>1, <2>3
    <3> HIDE DEF last
    <3> QED
      BY <1>1, <2>1, <3>1, <3>2, <3>3, <3>5, <3>6, MovedToRecord
  <2>4. CASE offset # 0 /\ Reaches(offset) # {}
    <3>1. offset > 0 /\ last = Min(Reaches(offset))
      BY <1>1, <2>4
    <3>2. last \in Shown
      BY <1>5, <3>1
    <3>3. seq_file' = traverse(offset, last, Space(last))
      BY <2>1, <2>4
    <3> HIDE DEF last
    <3> QED
      BY <1>1, <2>1, <2>4, <3>1, <3>2, <3>3, TraverseKeeps
  <2> QED
    BY <2>2, <2>3, <2>4
<1> QED
  BY <1>4, <1>5

\* Every step keeps the invariant.
LEMMA SeqNextInv == SeqInv /\ [SeqNext]_seqVars => SeqInv'
<1> SUFFICES ASSUME SeqInv, [SeqNext]_seqVars PROVE SeqInv'
  OBVIOUS
<1>1. CASE seq_open
  BY <1>1, OpenKeeps
<1>2. CASE \E size \in 1 .. MaxSize : seq_read(size)
  BY <1>2, ReadKeeps
<1>3. CASE \E offset \in 0 .. MaxSeek : seq_lseek(offset)
  BY <1>3, LseekKeeps
<1>4. CASE seq_release
  BY <1>4, ReleaseKeeps
<1>5. CASE TableChanges
  BY <1>5, ChangeKeeps
<1>6. CASE UNCHANGED seqVars
  <2>1. UNCHANGED <<table, seq_file, f_pos, got, base, still, returned>>
    BY <1>6 DEF seqVars
  <2>2. Shown' = Shown /\ Whole' = Whole
    BY <2>1 DEF Shown, Whole, Text
  <2>3. EofIsTheEnd'
    BY <2>1, <2>2 DEF EofIsTheEnd, SeqInv
  <2> QED
    BY <2>1, <2>2, <2>3 DEF SeqInv
<1> QED
  BY <1>1, <1>2, <1>3, <1>4, <1>5, <1>6 DEF SeqNext

\* What is handed out is a piece of the text.
LEMMA InvReadsTheText == SeqInv => ReadsTheText
<1> SUFFICES ASSUME SeqInv PROVE ReadsTheText
  OBVIOUS
<1>1. /\ table \in Seq(Record) /\ f_pos \in Nat /\ base \in Nat /\ got \in Seq(Char)
      /\ returned \in {"none", "data", "eof", "error"}
  BY DEF SeqInv
<1>2. SeqTypeOK
  <2>1. CASE seq_file = NotOpen
    BY <1>1, <2>1 DEF SeqTypeOK, Char
  <2>2. CASE seq_file # NotOpen
    <3>1. /\ seq_file.size \in {0} \cup BufferSizes /\ seq_file.index \in Nat
          /\ seq_file.from \in Nat /\ seq_file.text \in Seq(Char)
          /\ seq_file.from + Len(seq_file.text) <= seq_file.size
      BY <2>2, AllHandedOut
    <3> QED
      BY <1>1, <3>1 DEF SeqTypeOK, Char, BufferSizes
  <2> QED
    BY <2>1, <2>2
<1>3. Untorn(got)
  BY DEF SeqInv, Neat
<1>4. RecordsWhole
  BY <1>3 DEF RecordsWhole, Untorn
<1>5. ASSUME seq_file # NotOpen, still
      PROVE  /\ f_pos = base + Len(got)
             /\ got = SubSeq(Whole, base + 1, Min({base + Len(got), Len(Whole)}))
  <2> DEFINE there == Reached(seq_file)
             u == Upto(table)[there]
             w == Len(Whole)
             g == Len(got)
             x == seq_file.text
             T == {base + g, w}
  <2>1. there \in Shown /\ InPlace(table, seq_file, base, f_pos, got)
    BY <1>5 DEF SeqInv
  <2>2. /\ Max(Shown) \in 0 .. Len(table) /\ there \in 0 .. Max(Shown) /\ there \in 0 .. Len(table)
    <3> DEFINE max == Max(Shown)
    <3>1. max \in 0 .. Len(table) /\ there \in 0 .. Len(table) /\ there <= max
      BY <1>1, <2>1, ShownProperties
    <3> HIDE DEF max, there
    <3>2. there \in 0 .. max
      BY <3>1
    <3> QED
      BY <3>1, <3>2 DEF max
  <2>3. Whole = Upto(table)[Max(Shown)] /\ w \in Nat
    BY <1>1, WholeText
  <2>4. u \in Seq(Char) /\ Whole \in Seq(Char) /\ Begins(u, Whole)
        /\ Len(u) \in Nat /\ Len(u) <= w
    BY <1>1, <2>2, <2>3, UptoWhole, UptoBegins
  <2>5. g \in Nat /\ base + g \in Nat /\ seq_file.text \in Seq(Char) /\ Len(x) \in Nat
    BY <1>1, <1>5, AllHandedOut
  <2>6. Min(T) \in T /\ \A y \in T : Min(T) <= y
    BY <2>3, <2>5, MinOf
  <2> DEFINE min == Min(T)
  <2>7. (min = base + g \/ min = w) /\ min <= base + g /\ min <= w
    BY <2>6
  <2> HIDE DEF min
  <2>8. CASE InText(u, base, f_pos, got, x)
    <3>1. f_pos = base + g /\ f_pos + Len(x) = Len(u) /\ got = SubSeq(u, base + 1, f_pos)
      BY <2>8 DEF InText
    <3>2. f_pos <= Len(u)
      <4> DEFINE lu == Len(u)
                 lx == Len(x)
      <4>1. f_pos + lx = lu /\ lx \in Nat /\ lu \in Nat
        BY <2>4, <2>5, <3>1
      <4> HIDE DEF lu, lx
      <4>2. f_pos <= lu
        BY <1>1, <4>1
      <4> QED
        BY <4>2 DEF lu
    <3>3. SubSeq(u, base + 1, f_pos) = SubSeq(Whole, base + 1, f_pos)
      <4> HIDE DEF u
      <4> QED
        BY <1>1, <2>4, <3>2, PieceOfBeginning, ZenonT(60)
    <3>4. min = f_pos
      BY <1>1, <2>3, <2>4, <2>5, <2>7, <3>1, <3>2
    <3> QED
      BY <3>1, <3>3, <3>4 DEF min
  <2>9. CASE Past(u, base, f_pos, got, x) /\ there = Len(table)
    <3>1. got = << >> /\ f_pos = base /\ base > Len(u)
      BY <2>9 DEF Past
    <3>2. g = 0 /\ base + g = base
      BY <1>1, <3>1
    <3>3. Max(Shown) = there
      <4> DEFINE max == Max(Shown)
      <4>1. Len(table) \in Nat /\ max \in 0 .. Len(table) /\ Len(table) <= max
        <5>1. Len(table) \in Nat
          BY <1>1
        <5> QED
          BY <2>2, <2>9, <5>1
      <4> HIDE DEF max, there
      <4>2. max = Len(table)
        BY <4>1, AtTheEnd
      <4> QED
        BY <2>9, <4>2 DEF max
    <3>4. w = Len(u)
      BY <2>3, <3>3
    <3>5. min < base + 1 /\ min \in Int /\ base + 1 \in Int
      BY <1>1, <2>3, <2>4, <2>7, <3>1, <3>2, <3>4
    <3>6. SubSeq(Whole, base + 1, min) = << >>
      BY <3>5, SubSeqEmpty
    <3> QED
      BY <3>1, <3>2, <3>6 DEF min
  <2> QED
    BY <2>1, <2>8, <2>9 DEF InPlace
<1> QED
  BY <1>2, <1>4, <1>5 DEF ReadsTheText

\* However reads and seeks follow each other and wherever they cut the records (seq_read,
\* traverse), a reader of a table that stays as it is gets its text from the position
\* on, and never a torn record when the table changes; the buffer holds what waits.
THEOREM ReadsAlwaysTheText == SeqSpec => []ReadsTheText
<1>1. SeqInit => SeqInv
  BY SeqInitInv
<1>2. SeqInv /\ [SeqNext]_seqVars => SeqInv'
  BY SeqNextInv
<1>3. SeqInv => ReadsTheText
  BY InvReadsTheText
<1> QED
  BY <1>1, <1>2, <1>3, PTL DEF SeqSpec

\* A read that returns nothing (seq_read's eof) is at the end of the text, but for the
\* one case in which a record behind an empty one does not fit the buffer.
THEOREM EofIsAlwaysTheEnd == SeqSpec => []EofIsTheEnd
<1>1. SeqInit => SeqInv
  BY SeqInitInv
<1>2. SeqInv /\ [SeqNext]_seqVars => SeqInv'
  BY SeqNextInv
<1>3. SeqInv => EofIsTheEnd
  BY DEF SeqInv
<1> QED
  BY <1>1, <1>2, <1>3, PTL DEF SeqSpec
=============================================================================
