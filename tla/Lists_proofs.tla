----------------------------- MODULE Lists_proofs ---------------------------
(***************************************************************************)
(* What deleting from a list and inserting into one gives, for lists of    *)
(* every length.                                                           *)
(*                                                                         *)
(* That a set K of places has a k-th one is an induction over the places.  *)
(* It is done with the least number principle (Least), which speaks of     *)
(* sets of numbers and is therefore within reach of first-order provers:   *)
(* the k-th place is the least one with k places of K up to it.            *)
(***************************************************************************)
EXTENDS Lists, SequencesExt, SequenceTheorems, FiniteSetTheorems, WellFoundedInduction, TLAPS

\* A set of natural numbers has a least element.
LEMMA Least ==
    ASSUME NEW T, T \subseteq Nat, T # {}
    PROVE  \E m \in T : \A k \in T : m <= k
<1> DEFINE R == OpToRel(<, Nat)
<1>1. IsWellFoundedOn(R, Nat)
  BY NatLessThanWellFounded, Zenon
<1>2. \A x, y \in Nat : <<x, y>> \in R <=> x < y
  BY Zenon DEF OpToRel
<1> HIDE DEF R
<1>3. PICK m \in T : \A y \in T : ~(<<y, m>> \in R)
  BY <1>1, WFMin, Zenon
<1>4. \A y \in T : ~(y < m)
  BY <1>2, <1>3, Zenon
<1>5. \A y \in T : m <= y
  BY <1>4
<1> QED
  BY <1>5, Zenon

\* A set of places has as many places up to some place of it as one likes.
LEMMA KthPlace ==
    ASSUME NEW n \in Nat, NEW K \in SUBSET (1 .. n), NEW k \in 1 .. Cardinality(K)
    PROVE  \E i \in K : Cardinality({ j \in K : j <= i }) = k
<1> DEFINE upto(i) == { j \in K : j <= i }
           C == { i \in 1 .. n : Cardinality(upto(i)) >= k }
<1>1. \A i \in K : i \in Int /\ 1 <= i /\ i <= n
  OBVIOUS
<1>2. IsFiniteSet(K) /\ \A i : IsFiniteSet(upto(i))
  <2>1. IsFiniteSet(1 .. n)
    BY FS_Interval
  <2>2. \A T : T \subseteq 1 .. n => IsFiniteSet(T)
    BY <2>1, FS_Subset, Zenon
  <2>3. K \subseteq 1 .. n /\ \A i : upto(i) \subseteq 1 .. n
    OBVIOUS
  <2> QED
    BY <2>2, <2>3, Zenon
<1>3. Cardinality(K) \in Nat /\ \A i : Cardinality(upto(i)) \in Nat
  BY <1>2, FS_CardinalityType
<1>4. n \in C
  <2>1. n # 0
    <3> SUFFICES ASSUME n = 0 PROVE FALSE
      OBVIOUS
    <3>1. K = {}
      OBVIOUS
    <3> QED
      BY <3>1, FS_EmptySet
  <2>2. upto(n) = K
    BY <1>1
  <2>3. Cardinality(upto(n)) >= k
    BY <1>3, <2>2
  <2> HIDE DEF upto
  <2> QED
    BY <2>1, <2>3
<1>5. PICK m \in C : \A i \in C : m <= i
  <2>1. C \subseteq Nat
    OBVIOUS
  <2> HIDE DEF C
  <2> QED
    BY <1>4, <2>1, Least, Zenon
<1>6. m \in 1 .. n /\ Cardinality(upto(m)) >= k
  BY <1>5
<1>7. Cardinality(upto(m - 1)) < k
  <2>1. CASE m = 1
    <3>1. \A j \in K : ~(j <= 0)
      BY <1>1
    <3>2. upto(0) = {}
      BY <3>1
    <3> QED
      BY <2>1, <3>2, FS_EmptySet
  <2>2. CASE m # 1
    <3>1. m - 1 \in 1 .. n
      BY <1>6, <2>2
    <3>2. m - 1 \notin C
      <4> HIDE DEF C
      <4> QED
        BY <1>5, <1>6
    <3>3. Cardinality(upto(m - 1)) \in Nat
      BY <1>3
    <3> HIDE DEF upto
    <3> QED
      BY <3>1, <3>2, <3>3
  <2> QED
    BY <2>1, <2>2
<1>8. m \in K
  <2> SUFFICES ASSUME m \notin K PROVE FALSE
    OBVIOUS
  <2>1. \A j \in K : j <= m <=> j <= m - 1
    BY <1>1, <1>6
  <2>2. upto(m) = upto(m - 1)
    BY <2>1
  <2> HIDE DEF upto
  <2> QED
    BY <1>3, <1>6, <1>7, <2>2
<1>9. upto(m) = upto(m - 1) \cup {m} /\ m \notin upto(m - 1)
  <2>1. \A j \in K : j <= m <=> j <= m - 1 \/ j = m
    BY <1>1, <1>6
  <2>2. ~(m <= m - 1)
    BY <1>6
  <2> QED
    BY <1>8, <2>1, <2>2
<1>10. Cardinality(upto(m)) = Cardinality(upto(m - 1)) + 1
  <2> HIDE DEF upto
  <2> QED
    BY <1>2, <1>9, FS_AddElement
<1>11. Cardinality(upto(m)) = k
  <2> HIDE DEF upto
  <2> QED
    BY <1>3, <1>6, <1>7, <1>10
<1> QED
  BY <1>8, <1>11

\* What is kept of a list are its entries at the places K, all of them, in their order:
\* f gives the place each one had.
LEMMA KeptProperties ==
    ASSUME NEW S, NEW s \in Seq(S), NEW K \in SUBSET DOMAIN s
    PROVE  /\ Kept(s, K) \in Seq(S)
           /\ Len(Kept(s, K)) = Cardinality(K)
           /\ \E f \in [DOMAIN Kept(s, K) -> K] :
                /\ \A k \in DOMAIN Kept(s, K) : Kept(s, K)[k] = s[f[k]]
                /\ \A k, l \in DOMAIN Kept(s, K) : k < l => f[k] < f[l]
                /\ \A i \in K : \E k \in DOMAIN Kept(s, K) : f[k] = i
<1> DEFINE n == Len(s)
           c == Cardinality(K)
           upto(i) == { j \in K : j <= i }
           f == [k \in 1 .. c |-> CHOOSE i \in K : Cardinality(upto(i)) = k]
<1>1. n \in Nat /\ K \in SUBSET (1 .. n) /\ \A i \in K : i \in Nat /\ i \in DOMAIN s
  OBVIOUS
<1>2. IsFiniteSet(K) /\ (\A i : IsFiniteSet(upto(i))) /\ c \in Nat
  <2>1. IsFiniteSet(1 .. n)
    BY FS_Interval
  <2>2. \A T : T \subseteq 1 .. n => IsFiniteSet(T)
    BY <2>1, FS_Subset, Zenon
  <2>3. K \subseteq 1 .. n /\ \A i : upto(i) \subseteq 1 .. n
    OBVIOUS
  <2> QED
    BY <2>2, <2>3, FS_CardinalityType, Zenon
<1>3. \A k \in 1 .. c : f[k] \in K /\ Cardinality(upto(f[k])) = k
  <2> SUFFICES ASSUME NEW k \in 1 .. c
               PROVE  f[k] \in K /\ Cardinality(upto(f[k])) = k
    OBVIOUS
  <2>1. \E i \in K : Cardinality(upto(i)) = k
    BY <1>1, KthPlace, Zenon
  <2>2. f[k] = CHOOSE i \in K : Cardinality(upto(i)) = k
    OBVIOUS
  <2> HIDE DEF f, upto
  <2> QED
    BY <2>1, <2>2, Zenon
<1>4. f \in [1 .. c -> K]
  BY <1>3
<1>5. Kept(s, K) = [k \in 1 .. c |-> s[f[k]]]
  BY DEF Kept
<1> HIDE DEF f
<1>6. Kept(s, K) \in Seq(S) /\ Len(Kept(s, K)) = c /\ DOMAIN Kept(s, K) = 1 .. c
  <2>1. \A k \in 1 .. c : s[f[k]] \in S
    <3>1. \A i \in K : s[i] \in S
      OBVIOUS
    <3> QED
      BY <1>3, <3>1, Zenon
  <2> HIDE DEF c
  <2> QED
    BY <1>2, <1>5, <2>1
<1>7. \A k, l \in 1 .. c : k < l => f[k] < f[l]
  <2> SUFFICES ASSUME NEW k \in 1 .. c, NEW l \in 1 .. c, k < l, ~(f[k] < f[l])
               PROVE  FALSE
    OBVIOUS
  <2>1. f[k] \in Nat /\ f[l] \in Nat
    <3> HIDE DEF c
    <3> QED
      BY <1>1, <1>3
  <2>2. upto(f[l]) \subseteq upto(f[k])
    BY <2>1
  <2>3. Cardinality(upto(f[l])) <= Cardinality(upto(f[k]))
    <3> HIDE DEF upto
    <3> QED
      BY <1>2, <2>2, FS_Subset
  <2> HIDE DEF upto, c
  <2> QED
    BY <1>2, <1>3, <2>3
<1>8. \A i \in K : \E k \in 1 .. c : f[k] = i
  <2> SUFFICES ASSUME NEW i \in K
               PROVE  \E k \in 1 .. c : f[k] = i
    OBVIOUS
  <2> DEFINE k == Cardinality(upto(i))
  <2>1. upto(i) \subseteq K /\ i \in upto(i)
    OBVIOUS
  <2>2. k \in Nat /\ k <= c
    <3> HIDE DEF upto
    <3> QED
      BY <1>2, <2>1, FS_Subset, FS_CardinalityType
  <2>3. k # 0
    <3> HIDE DEF upto
    <3> QED
      BY <1>2, <2>1, FS_EmptySet
  <2>4. k \in 1 .. c
    BY <1>2, <2>2, <2>3
  <2>5. f[k] \in K /\ Cardinality(upto(f[k])) = k
    BY <1>3, <2>4, Zenon
  <2>6. ASSUME NEW a \in K, NEW b \in K, a < b
        PROVE  Cardinality(upto(a)) < Cardinality(upto(b))
    <3>1. upto(a) \subseteq upto(b) /\ b \notin upto(a) /\ b \in upto(b)
      BY <2>6
    <3>2. upto(a) # upto(b)
      BY <3>1, Zenon
    <3> HIDE DEF upto
    <3>3. /\ Cardinality(upto(a)) <= Cardinality(upto(b))
          /\ Cardinality(upto(a)) # Cardinality(upto(b))
      BY <1>2, <3>1, <3>2, FS_Subset
    <3> QED
      BY <1>2, <3>3, FS_CardinalityType
  <2>7. f[k] = i
    <3> HIDE DEF upto, k
    <3>1. \A a \in K : a \in Int
      OBVIOUS
    <3>2. k = Cardinality(upto(i))
      BY DEF k
    <3> QED
      BY <2>2, <2>5, <2>6, <3>1, <3>2
  <2> QED
    BY <2>4, <2>7
<1> QED
  BY <1>4, <1>5, <1>6, <1>7, <1>8

\* What that means entry by entry: each one kept was one of the list, each one meant to
\* be kept is there, and what stands before it stood before it.
LEMMA KeptEntries ==
    ASSUME NEW S, NEW s \in Seq(S), NEW K \in SUBSET DOMAIN s
    PROVE  /\ Kept(s, K) \in Seq(S)
           /\ Len(Kept(s, K)) <= Len(s)
           /\ \A k \in DOMAIN Kept(s, K) : \E i \in K : Kept(s, K)[k] = s[i]
           /\ \A i \in K : \E k \in DOMAIN Kept(s, K) :
                /\ Kept(s, K)[k] = s[i]
                /\ \A l \in DOMAIN Kept(s, K) :
                     l < k => \E j \in K : j < i /\ Kept(s, K)[l] = s[j]
<1> DEFINE t == Kept(s, K)
<1>1. /\ t \in Seq(S) /\ Len(t) = Cardinality(K)
      /\ \E f \in [DOMAIN t -> K] :
           /\ \A k \in DOMAIN t : t[k] = s[f[k]]
           /\ \A k, l \in DOMAIN t : k < l => f[k] < f[l]
           /\ \A i \in K : \E k \in DOMAIN t : f[k] = i
  BY KeptProperties
<1>2. PICK f \in [DOMAIN t -> K] :
           /\ \A k \in DOMAIN t : t[k] = s[f[k]]
           /\ \A k, l \in DOMAIN t : k < l => f[k] < f[l]
           /\ \A i \in K : \E k \in DOMAIN t : f[k] = i
  BY <1>1
<1> HIDE DEF t
<1>3. \A k \in DOMAIN t : f[k] \in K
  OBVIOUS
<1>4. Len(t) <= Len(s)
  <2>1. K \subseteq 1 .. Len(s) /\ Len(s) \in Nat
    OBVIOUS
  <2>2. IsFiniteSet(1 .. Len(s)) /\ Cardinality(1 .. Len(s)) = Len(s)
    <3> DEFINE n == Len(s)
    <3>1. n \in Int /\ 1 \in Int
      BY <2>1
    <3>2. IsFiniteSet(1 .. n) /\ Cardinality(1 .. n) = IF 1 > n THEN 0 ELSE n - 1 + 1
      BY <3>1, FS_Interval, Zenon
    <3> QED
      BY <2>1, <3>2
  <2> QED
    BY <1>1, <2>1, <2>2, FS_Subset
<1>5. \A i \in K : \E k \in DOMAIN t :
        /\ t[k] = s[i]
        /\ \A l \in DOMAIN t : l < k => \E j \in K : j < i /\ t[l] = s[j]
  <2> SUFFICES ASSUME NEW i \in K
               PROVE  \E k \in DOMAIN t :
                        /\ t[k] = s[i]
                        /\ \A l \in DOMAIN t : l < k => \E j \in K : j < i /\ t[l] = s[j]
    OBVIOUS
  <2>1. PICK k \in DOMAIN t : f[k] = i
    BY <1>2
  <2> QED
    BY <1>2, <1>3, <2>1, Zenon
<1>6. \A k \in DOMAIN t : \E i \in K : t[k] = s[i]
  BY <1>2, <1>3, Zenon
<1> QED
  BY <1>1, <1>4, <1>5, <1>6 DEF t

\* A list one of whose entries was changed.
LEMMA ExceptProperties ==
    ASSUME NEW S, NEW s \in Seq(S), NEW i \in DOMAIN s, NEW e \in S
    PROVE  LET t == [s EXCEPT ![i] = e]
           IN  /\ t \in Seq(S) /\ DOMAIN t = DOMAIN s /\ Len(t) = Len(s)
               /\ t[i] = e /\ \A k \in DOMAIN s : k # i => t[k] = s[k]
OBVIOUS

\* A list all of whose entries may have changed.
LEMMA MapProperties ==
    ASSUME NEW S, NEW T, NEW s \in Seq(S), NEW t, DOMAIN t = DOMAIN s,
           t = [i \in DOMAIN s |-> t[i]], \A i \in DOMAIN s : t[i] \in T
    PROVE  t \in Seq(T) /\ Len(t) = Len(s)
<1>1. DOMAIN s = 1 .. Len(s) /\ Len(s) \in Nat
  OBVIOUS
<1>2. t \in [1 .. Len(s) -> T]
  BY <1>1
<1> QED
  BY <1>1, <1>2

\* A list one of whose entries was deleted.
LEMMA RemoveAtProperties ==
    ASSUME NEW S, NEW s \in Seq(S), NEW i \in DOMAIN s
    PROVE  /\ RemoveAt(s, i) \in Seq(S)
           /\ Len(RemoveAt(s, i)) = Len(s) - 1
           /\ \A k \in 1 .. Len(s) - 1 :
                RemoveAt(s, i)[k] = IF k < i THEN s[k] ELSE s[k + 1]
<1> DEFINE a == SubSeq(s, 1, i - 1)
           b == SubSeq(s, i + 1, Len(s))
<1>1. i \in 1 .. Len(s) /\ Len(s) \in Nat
  OBVIOUS
<1>2. /\ a \in Seq(S) /\ Len(a) = i - 1
      /\ \A k \in 1 .. i - 1 : a[k] = s[k]
  BY <1>1, SubSeqProperties
<1>3. /\ b \in Seq(S) /\ Len(b) = Len(s) - i
      /\ \A k \in 1 .. Len(s) - i : b[k] = s[i + k]
  BY <1>1, SubSeqProperties
<1> HIDE DEF a, b
<1>4. /\ a \o b \in Seq(S) /\ Len(a \o b) = Len(a) + Len(b)
      /\ \A k \in 1 .. Len(a) + Len(b) :
           (a \o b)[k] = IF k <= Len(a) THEN a[k] ELSE b[k - Len(a)]
  BY <1>2, <1>3, ConcatProperties
<1>5. RemoveAt(s, i) = a \o b
  BY DEF RemoveAt, a, b
<1>6. ASSUME NEW k \in 1 .. Len(s) - 1
      PROVE  (a \o b)[k] = IF k < i THEN s[k] ELSE s[k + 1]
  <2>1. k \in 1 .. Len(a) + Len(b)
    BY <1>1, <1>2, <1>3
  <2>2. CASE k < i
    BY <1>1, <1>2, <1>4, <2>1, <2>2
  <2>3. CASE ~(k < i)
    <3>1. k - Len(a) \in 1 .. Len(s) - i /\ i + (k - Len(a)) = k + 1
      BY <1>1, <1>2, <2>3
    <3>2. b[k - Len(a)] = s[k + 1]
      BY <1>3, <3>1
    <3> QED
      BY <1>1, <1>2, <1>4, <2>1, <2>3, <3>2
  <2> QED
    BY <2>2, <2>3
<1>7. Len(a \o b) = Len(s) - 1
  BY <1>1, <1>2, <1>3, <1>4
<1> QED
  BY <1>4, <1>5, <1>6, <1>7

\* Entry by entry: what was in front of the deleted entry is where it was, nothing
\* else is missing and nothing is new.
LEMMA RemoveAtEntries ==
    ASSUME NEW S, NEW s \in Seq(S), NEW i \in DOMAIN s
    PROVE  LET t == RemoveAt(s, i)
           IN  /\ t \in Seq(S) /\ Len(t) = Len(s) - 1
               /\ \A k \in DOMAIN t : \E j \in DOMAIN s : j # i /\ t[k] = s[j]
               /\ \A j \in DOMAIN s : j # i => \E k \in DOMAIN t : t[k] = s[j]
               /\ \A k \in DOMAIN t : k < i => k \in DOMAIN s /\ t[k] = s[k]
<1> DEFINE t == RemoveAt(s, i)
<1>1. /\ t \in Seq(S) /\ Len(t) = Len(s) - 1
      /\ \A k \in 1 .. Len(s) - 1 : t[k] = IF k < i THEN s[k] ELSE s[k + 1]
  BY RemoveAtProperties
<1> HIDE DEF t
<1>2. /\ Len(s) \in Nat /\ DOMAIN s = 1 .. Len(s) /\ i \in 1 .. Len(s)
      /\ DOMAIN t = 1 .. Len(s) - 1
  BY <1>1
<1>3. ASSUME NEW k \in DOMAIN t
      PROVE  /\ \E j \in DOMAIN s : j # i /\ t[k] = s[j]
             /\ k < i => k \in DOMAIN s /\ t[k] = s[k]
  <2>1. CASE k < i
    <3>1. k \in DOMAIN s /\ t[k] = s[k] /\ k # i
      BY <1>1, <1>2, <2>1
    <3> QED
      BY <3>1
  <2>2. CASE ~(k < i)
    <3>1. k + 1 \in DOMAIN s /\ k + 1 # i
      BY <1>2, <2>2
    <3>2. t[k] = s[k + 1]
      BY <1>1, <1>2, <2>2
    <3> QED
      BY <2>2, <3>1, <3>2
  <2> QED
    BY <2>1, <2>2
<1>4. ASSUME NEW j \in DOMAIN s, j # i
      PROVE  \E k \in DOMAIN t : t[k] = s[j]
  <2>1. CASE j < i
    <3>1. j \in DOMAIN t /\ t[j] = s[j]
      BY <1>1, <1>2, <2>1
    <3> QED
      BY <3>1
  <2>2. CASE ~(j < i)
    <3>1. j - 1 \in DOMAIN t /\ ~(j - 1 < i) /\ (j - 1) + 1 = j
      BY <1>2, <1>4, <2>2
    <3>2. t[j - 1] = s[j]
      BY <1>1, <1>2, <3>1
    <3> QED
      BY <3>1, <3>2
  <2> QED
    BY <2>1, <2>2
<1> QED
  BY <1>1, <1>3, <1>4 DEF t

\* A list with a new entry in front of the i-th, or at its end.
LEMMA InsertAtProperties ==
    ASSUME NEW S, NEW s \in Seq(S), NEW i \in 1 .. Len(s) + 1, NEW e \in S,
           NEW t, t = InsertAt(s, i, e)
    PROVE  /\ t \in Seq(S) /\ Len(t) = Len(s) + 1 /\ t[i] = e
           /\ \A k \in 1 .. i - 1 : t[k] = s[k]
           /\ \A k \in i + 1 .. Len(s) + 1 : t[k] = s[k - 1]
<1> DEFINE a == SubSeq(s, 1, i - 1)
           b == SubSeq(s, i, Len(s))
           c == a \o <<e>>
<1>1. i \in 1 .. Len(s) + 1 /\ Len(s) \in Nat
  OBVIOUS
<1>2. /\ a \in Seq(S) /\ Len(a) = i - 1
      /\ \A k \in 1 .. i - 1 : a[k] = s[k]
  BY <1>1, SubSeqProperties
<1>3. /\ b \in Seq(S) /\ Len(b) = Len(s) - i + 1
      /\ \A k \in 1 .. Len(s) - i + 1 : b[k] = s[i + k - 1]
  BY <1>1, SubSeqProperties
<1>4. <<e>> \in Seq(S) /\ Len(<<e>>) = 1 /\ <<e>>[1] = e
  OBVIOUS
<1> HIDE DEF a, b
<1>5. /\ c \in Seq(S) /\ Len(c) = i
      /\ \A k \in 1 .. i : c[k] = IF k < i THEN s[k] ELSE e
  BY <1>1, <1>2, <1>4, ConcatProperties
<1> HIDE DEF c
<1>6. /\ c \o b \in Seq(S) /\ Len(c \o b) = Len(c) + Len(b)
      /\ \A k \in 1 .. Len(c) + Len(b) :
           (c \o b)[k] = IF k <= Len(c) THEN c[k] ELSE b[k - Len(c)]
  BY <1>3, <1>5, ConcatProperties
<1>7. InsertAt(s, i, e) = c \o b
  BY DEF InsertAt, a, b, c
<1> QED
  BY <1>1, <1>3, <1>5, <1>6, <1>7
=============================================================================
