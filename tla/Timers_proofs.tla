---------------------------- MODULE Timers_proofs ---------------------------
(***************************************************************************)
(* Timers for any number of timers and any clock.                          *)
(*                                                                         *)
(* LInv is about the two lists and the walks over them; it holds whatever  *)
(* the clock does.  CInv(D) is about the order of __timers and what is     *)
(* due.  It is about a clock that wraps, and needs that no timer is ever   *)
(* more than D jiffies ahead, what `time +-n' sets the clock back counted  *)
(* in, and that D and the steps of the clock together stay below half of   *)
(* the clock's span (Horizon): beyond that time_after is no order.         *)
(***************************************************************************)
EXTENDS Timers, Lists_proofs

\* A walk is under way: increment_time's, from which the time command returns, or
\* do_running_timers'.
WalkSound ==
    /\ at \in {"walk", "callback"} <=> walk.list # "none"
    /\ walk.list = "timers" => walk.then = "end"
    /\ walk.list = "running" => walk.then \in {"prompt", "command", "fini"}

\* Only a del_timer that was made to fail puts a timer on __running_timers, and only
\* do_running_timers leaves its use dangling.
FailureLeavesTrace ==
    \A t \in Timer : In(t, running) \/ use[t] = "freed" => t \in faked

\* As long as no callback has deleted timers the saved next element is in the list the
\* walk is over, and is the first one of __running_timers: the walk over that list
\* leaves none behind.
NextIsThere ==
    ~meddled =>
        /\ walk.list # "none" /\ walk.next # ListHead => In(walk.next, Walked)
        /\ walk.list = "running" => walk.next = First(running)
        /\ at \in {"prompt", "fini"} => running = <<>>

LInv ==
    /\ TypeOK /\ OneFiringPerArming /\ WalkSound /\ FailureLeavesTrace /\ NextIsThere
    /\ NeverAstray

\* How far e is ahead of j on the clock: a number of jiffies, negative when it is behind.
Off(e, j) ==
    IF e - j >= LongSpan \div 2 THEN e - j - LongSpan
    ELSE IF e - j < -(LongSpan \div 2) THEN e - j + LongSpan
    ELSE e - j

Farther(D) == IF MaxAdvance > D THEN MaxAdvance ELSE D

\* Clients arm timers for a later jiffy, at most D ahead however far the clock is then
\* set back; that far and a step of the clock are less than half of its span;
\* increment_time's parameter, an int, holds both.
Horizon(D) ==
    /\ D \in Nat /\ MaxBack <= D /\ Delays \subseteq 1 .. D - MaxBack
    /\ Farther(D) + D <= LongSpan \div 2 /\ Farther(D) < IntSpan
    /\ LongSpan % IntSpan = 0

\* __timers is in order, counted from the clock.
InOrder ==
    \A i, j \in DOMAIN timers :
        i < j => Off(expires[timers[i]], jiffies) <= Off(expires[timers[j]], jiffies)

\* How far ahead a timer may be when the clock was set back by b so far.
Reach(D, b) == D - MaxBack + b

\* Nothing is due except while increment_time is on its way, and nothing is farther
\* ahead than its delay and what the clock was set back.
InWindow(D) ==
    \A i \in DOMAIN timers : Off(expires[timers[i]], jiffies)
        \in (IF walk.list = "timers" THEN 1 - Farther(D) ELSE 1) .. Reach(D, back)

\* What increment_time has passed, or what was put in front of its saved next element,
\* is not due.
PassedNotDue ==
    walk.list = "timers" => \A i \in DOMAIN timers :
        (\A j \in DOMAIN timers : timers[j] = walk.next => i < j)
            => Off(expires[timers[i]], jiffies) >= 1

CInv(D) == ~meddled => InOrder /\ InWindow(D) /\ PassedNotDue
-----------------------------------------------------------------------------
(* Lists of timers. *)

Once(s) == \A i, j \in DOMAIN s : s[i] = s[j] => i = j

\* list_del: the others stay, in their order.
LEMMA WithoutProperties ==
    ASSUME NEW s \in Seq(Timer), NEW t, NEW w, w = Without(s, t)
    PROVE  /\ w \in Seq(Timer)
           /\ \A x : In(x, w) <=> In(x, s) /\ x # t
           /\ \A k, l \in DOMAIN w : k < l =>
                \E i, j \in DOMAIN s : i < j /\ w[k] = s[i] /\ w[l] = s[j]
<1> DEFINE K == { i \in DOMAIN s : s[i] # t }
<1>1. w = Kept(s, K)
  BY DEF Without
<1>2. K \in SUBSET DOMAIN s
  OBVIOUS
<1>3. /\ w \in Seq(Timer)
      /\ \E f \in [DOMAIN w -> K] :
           /\ \A k \in DOMAIN w : w[k] = s[f[k]]
           /\ \A k, l \in DOMAIN w : k < l => f[k] < f[l]
           /\ \A i \in K : \E k \in DOMAIN w : f[k] = i
  <2> HIDE DEF K
  <2> QED
    BY <1>1, <1>2, KeptProperties
<1>4. PICK f \in [DOMAIN w -> K] :
           /\ \A k \in DOMAIN w : w[k] = s[f[k]]
           /\ \A k, l \in DOMAIN w : k < l => f[k] < f[l]
           /\ \A i \in K : \E k \in DOMAIN w : f[k] = i
  BY <1>3
<1>5. \A x : In(x, w) <=> In(x, s) /\ x # t
  <2>1. ASSUME NEW k \in DOMAIN w PROVE In(w[k], s) /\ w[k] # t
    BY <1>4 DEF In
  <2>2. ASSUME NEW i \in DOMAIN s, s[i] # t PROVE In(s[i], w)
    BY <1>4, <2>2 DEF In
  <2>3. ASSUME NEW x, In(x, w) PROVE In(x, s) /\ x # t
    BY <2>1, <2>3 DEF In
  <2>4. ASSUME NEW x, In(x, s), x # t PROVE In(x, w)
    <3>1. PICK i \in DOMAIN s : s[i] = x
      BY <2>4 DEF In
    <3> QED
      BY <2>2, <2>4, <3>1
  <2> QED
    BY <2>3, <2>4
<1>6. \A k, l \in DOMAIN w : k < l =>
        \E i, j \in DOMAIN s : i < j /\ w[k] = s[i] /\ w[l] = s[j]
  BY <1>4
<1> QED
  BY <1>3, <1>5, <1>6

\* Deleting leaves every timer in a list once.
LEMMA WithoutOnce ==
    ASSUME NEW s \in Seq(Timer), Once(s), NEW t, NEW w, w = Without(s, t)
    PROVE  Once(w)
<1>1. /\ w \in Seq(Timer)
      /\ \A k, l \in DOMAIN w : k < l =>
           \E i, j \in DOMAIN s : i < j /\ w[k] = s[i] /\ w[l] = s[j]
  BY WithoutProperties
<1>2. SUFFICES ASSUME NEW k \in DOMAIN w, NEW l \in DOMAIN w, k < l, w[k] = w[l]
               PROVE  FALSE
  BY <1>1 DEF Once
<1>3. PICK i, j \in DOMAIN s : i < j /\ w[k] = s[i] /\ w[l] = s[j]
  BY <1>1, <1>2
<1>4. s[i] = s[j]
  BY <1>2, <1>3
<1>5. i = j
  BY <1>4, Zenon DEF Once
<1> QED
  BY <1>3, <1>5

\* What is saved before an entry is unlinked is in the list afterwards, or its head.
LEMMA NextOfProperties ==
    ASSUME NEW s \in Seq(Timer), Once(s), NEW t, In(t, s), NEW w, w = Without(s, t)
    PROVE  /\ NextOf(s, t) \in Timer \cup {ListHead}
           /\ NextOf(s, t) # ListHead => In(NextOf(s, t), w)
           /\ t = First(s) => NextOf(s, t) = First(w)
<1> DEFINE i == CHOOSE j \in DOMAIN s : s[j] = t
<1>1. i \in DOMAIN s /\ s[i] = t
  BY DEF In
<1>2. NextOf(s, t) = IF i = Len(s) THEN ListHead ELSE s[i + 1]
  BY DEF NextOf
<1> HIDE DEF i
<1>3. Len(s) \in Nat /\ DOMAIN s = 1 .. Len(s) /\ i \in 1 .. Len(s) /\ \A j \in DOMAIN s : s[j] \in Timer
  BY <1>1
<1>4. /\ w \in Seq(Timer)
      /\ \A x : In(x, w) <=> In(x, s) /\ x # t
      /\ \A k, l \in DOMAIN w : k < l =>
           \E m, n \in DOMAIN s : m < n /\ w[k] = s[m] /\ w[l] = s[n]
  BY WithoutProperties
<1>5. i # Len(s) => i + 1 \in DOMAIN s /\ s[i + 1] # t
  BY <1>1, <1>3 DEF Once
<1>6. i # Len(s) => In(s[i + 1], w)
  BY <1>4, <1>5 DEF In
<1>7. NextOf(s, t) \in Timer \cup {ListHead}
  BY <1>2, <1>3, <1>5
<1>8. ASSUME t = First(s) PROVE NextOf(s, t) = First(w)
  <2>1. s # <<>> /\ s[1] = t /\ 1 \in DOMAIN s
    BY <1>3, <1>8 DEF First
  <2>2. i = 1
    BY <1>1, <2>1 DEF Once
  <2>3. CASE Len(s) = 1
    <3>1. \A x : ~In(x, w)
      BY <1>3, <1>4, <2>1, <2>3 DEF In
    <3>2. w = <<>>
      <4>1. Len(w) \in Nat /\ DOMAIN w = 1 .. Len(w)
        BY <1>4
      <4>2. ASSUME Len(w) # 0 PROVE FALSE
        <5>1. 1 \in DOMAIN w
          BY <4>1, <4>2
        <5> QED
          BY <3>1, <5>1 DEF In
      <4> QED
        BY <1>4, <4>2
    <3> QED
      BY <1>2, <2>2, <2>3, <3>2 DEF First
  <2>4. CASE Len(s) # 1
    <3>1. NextOf(s, t) = s[2] /\ 2 \in DOMAIN s /\ s[2] # t /\ In(s[2], w)
      BY <1>2, <1>5, <1>6, <2>2, <2>4
    <3>2. PICK k \in DOMAIN w : w[k] = s[2]
      BY <3>1 DEF In
    <3>3. Len(w) \in Nat /\ DOMAIN w = 1 .. Len(w) /\ 1 \in DOMAIN w /\ w # <<>>
      BY <1>4, <3>2
    <3>4. ASSUME k # 1 PROVE FALSE
      <4>1. 1 < k
        BY <3>2, <3>3, <3>4
      <4>2. PICK m, n \in DOMAIN s : m < n /\ w[1] = s[m] /\ w[k] = s[n]
        BY <1>4, <3>2, <3>3, <4>1
      <4>3. n = 2
        BY <3>1, <3>2, <4>2 DEF Once
      <4>4. m = 1 /\ w[1] = t
        BY <1>3, <2>1, <4>2, <4>3
      <4> QED
        BY <1>4, <3>3, <4>4 DEF In
    <3> QED
      BY <3>1, <3>2, <3>3, <3>4 DEF First
  <2> QED
    BY <2>3, <2>4
<1> QED
  BY <1>2, <1>6, <1>7, <1>8

\* A timer put into a list it is not in.
LEMMA InsertedProperties ==
    ASSUME NEW s \in Seq(Timer), Once(s), NEW t \in Timer, ~In(t, s),
           NEW p \in 1 .. Len(s) + 1, NEW w, w = InsertAt(s, p, t)
    PROVE  /\ w \in Seq(Timer) /\ Len(w) = Len(s) + 1 /\ Once(w)
           /\ \A x : In(x, w) <=> In(x, s) \/ x = t
           /\ \A k \in DOMAIN w : /\ k < p => k \in DOMAIN s /\ w[k] = s[k]
                                  /\ k = p => w[k] = t
                                  /\ k > p => k - 1 \in DOMAIN s /\ w[k] = s[k - 1]
<1>1. /\ w \in Seq(Timer) /\ Len(w) = Len(s) + 1 /\ w[p] = t
      /\ \A k \in 1 .. p - 1 : w[k] = s[k]
      /\ \A k \in p + 1 .. Len(s) + 1 : w[k] = s[k - 1]
  BY InsertAtProperties, SMTT(60)
<1>2. /\ Len(s) \in Nat /\ DOMAIN s = 1 .. Len(s) /\ DOMAIN w = 1 .. Len(s) + 1
  BY <1>1
<1>3. \A k \in DOMAIN w : /\ k < p => k \in DOMAIN s /\ w[k] = s[k]
                          /\ k = p => w[k] = t
                          /\ k > p => k - 1 \in DOMAIN s /\ w[k] = s[k - 1]
  BY <1>1, <1>2
<1>4. \A k \in DOMAIN s : /\ k < p => k \in DOMAIN w /\ w[k] = s[k]
                          /\ k >= p => k + 1 \in DOMAIN w /\ w[k + 1] = s[k]
  BY <1>1, <1>2
<1>5. p \in DOMAIN w /\ w[p] = t
  BY <1>1, <1>2
<1>6. Once(w)
  <2>1. SUFFICES ASSUME NEW k \in DOMAIN w, NEW l \in DOMAIN w, k < l, w[k] = w[l]
                 PROVE  FALSE
    BY <1>2 DEF Once
  <2>2. k = p \/ l = p \/ FALSE
    BY <1>2, <1>3, <2>1 DEF Once
  <2> QED
    BY <1>2, <1>3, <2>1, <2>2 DEF In
<1>7. \A x : In(x, w) <=> In(x, s) \/ x = t
  <2>1. ASSUME NEW x, In(x, w) PROVE In(x, s) \/ x = t
    <3>1. PICK k \in DOMAIN w : w[k] = x
      BY <2>1 DEF In
    <3> QED
      BY <1>2, <1>3, <3>1 DEF In
  <2>2. ASSUME NEW x, In(x, s) PROVE In(x, w)
    <3>1. PICK k \in DOMAIN s : s[k] = x
      BY <2>2 DEF In
    <3> QED
      BY <1>2, <1>4, <3>1 DEF In
  <2> QED
    BY <1>5, <2>1, <2>2 DEF In
<1> QED
  BY <1>1, <1>3, <1>6, <1>7

\* __add_timer's place is one of the list: nothing in front of it expires later.
LEMMA AddPlaceProperties ==
    ASSUME timers \in Seq(Timer), NEW t, NEW e
    PROVE  /\ AddPlace(t, e) \in 1 .. Len(timers) + 1
           /\ \A i \in DOMAIN timers :
                i < AddPlace(t, e) => ~TimeAfter(expires[timers[i]], e)
           /\ AddPlace(t, e) \in DOMAIN timers =>
                TimeAfter(expires[timers[AddPlace(t, e)]], e)
<1> DEFINE later == {i \in DOMAIN timers : TimeAfter(expires[timers[i]], e)}
<1>1. AddPlace(t, e) = IF later = {} THEN Len(timers) + 1
                       ELSE CHOOSE i \in later : \A j \in later : i <= j
  BY DEF AddPlace
<1>2. Len(timers) \in Nat /\ DOMAIN timers = 1 .. Len(timers) /\ later \subseteq DOMAIN timers
      /\ later \subseteq Nat
  OBVIOUS
<1>3. CASE later = {}
  BY <1>1, <1>2, <1>3
<1>4. CASE later # {}
  <2>1. \E i \in later : \A j \in later : i <= j
    <3> HIDE DEF later
    <3> QED
      BY <1>2, <1>4, Least
  <2>2. AddPlace(t, e) \in later /\ \A j \in later : AddPlace(t, e) <= j
    <3> HIDE DEF later
    <3> QED
      BY <1>1, <1>4, <2>1
  <2> QED
    BY <1>2, <2>2
<1> QED
  BY <1>3, <1>4

\* OneFiringPerArming, as a fact about the lists T and R, the armings O and the uses U.
Booked(T, R, O, U) ==
    /\ Once(T) /\ Once(R)
    /\ \A t \in Timer : /\ O[t] <=> U[t] = "held"
                        /\ O[t] <=> In(t, T) \/ In(t, R)
                        /\ ~(In(t, T) /\ In(t, R))

\* Booked says what OneFiringPerArming says, with the lists as parameters.
LEMMA BookedIsOneFiring ==
    ASSUME NEW T \in Seq(Timer), NEW R \in Seq(Timer), NEW O, NEW U
    PROVE  Booked(T, R, O, U) <=>
             \A t \in Timer :
                /\ O[t] <=> U[t] = "held"
                /\ O[t] <=> In(t, T) \/ In(t, R)
                /\ ~(In(t, T) /\ In(t, R))
                /\ \A i, j \in DOMAIN T : T[i] = t /\ T[j] = t => i = j
                /\ \A i, j \in DOMAIN R : R[i] = t /\ R[j] = t => i = j
<1>1. ASSUME NEW s \in Seq(Timer)
      PROVE  Once(s) <=> \A t \in Timer : \A i, j \in DOMAIN s : s[i] = t /\ s[j] = t => i = j
  <2>1. \A i \in DOMAIN s : s[i] \in Timer
    OBVIOUS
  <2> QED
    BY <2>1, Zenon DEF Once
<1>2. /\ Once(T) <=> \A t \in Timer : \A i, j \in DOMAIN T : T[i] = t /\ T[j] = t => i = j
      /\ Once(R) <=> \A t \in Timer : \A i, j \in DOMAIN R : R[i] = t /\ R[j] = t => i = j
  BY <1>1
<1> QED
  BY <1>2, Zenon DEF Booked

\* A timer is unlinked for good.
LEMMA BookedWithout ==
    ASSUME NEW T \in Seq(Timer), NEW R \in Seq(Timer), NEW O \in [Timer -> BOOLEAN],
           NEW U \in [Timer -> {"null", "held", "freed"}], Booked(T, R, O, U),
           NEW t \in Timer, NEW u \in {"null", "freed"}
    PROVE  /\ Without(T, t) \in Seq(Timer) /\ Without(R, t) \in Seq(Timer)
           /\ Booked(Without(T, t), Without(R, t), [O EXCEPT ![t] = FALSE], [U EXCEPT ![t] = u])
<1> DEFINE T2 == Without(T, t)
           R2 == Without(R, t)
<1>1. /\ T2 \in Seq(Timer) /\ R2 \in Seq(Timer)
      /\ \A x : In(x, T2) <=> In(x, T) /\ x # t
      /\ \A x : In(x, R2) <=> In(x, R) /\ x # t
  BY WithoutProperties
<1>2. Once(T2) /\ Once(R2)
  BY WithoutOnce DEF Booked
<1> HIDE DEF T2, R2
<1>3. Booked(T2, R2, [O EXCEPT ![t] = FALSE], [U EXCEPT ![t] = u])
  BY <1>1, <1>2 DEF Booked
<1> QED
  BY <1>1, <1>3 DEF T2, R2

\* A timer goes to the front of __running_timers.
LEMMA BookedMoved ==
    ASSUME NEW T \in Seq(Timer), NEW R \in Seq(Timer), NEW O, NEW U, Booked(T, R, O, U),
           NEW t \in Timer, O[t]
    PROVE  /\ Without(T, t) \in Seq(Timer) /\ <<t>> \o Without(R, t) \in Seq(Timer)
           /\ Booked(Without(T, t), <<t>> \o Without(R, t), O, U)
<1> DEFINE T2 == Without(T, t)
           R1 == Without(R, t)
           R2 == <<t>> \o R1
<1>1. /\ T2 \in Seq(Timer) /\ R1 \in Seq(Timer)
      /\ \A x : In(x, T2) <=> In(x, T) /\ x # t
      /\ \A x : In(x, R1) <=> In(x, R) /\ x # t
  BY WithoutProperties
<1>2. Once(T2) /\ Once(R1)
  BY WithoutOnce DEF Booked
<1> HIDE DEF T2, R1
<1>3. /\ R2 \in Seq(Timer) /\ Len(R2) = Len(R1) + 1 /\ R2[1] = t
      /\ Len(R1) \in Nat /\ DOMAIN R1 = 1 .. Len(R1) /\ DOMAIN R2 = 1 .. Len(R1) + 1
      /\ \A i \in 2 .. Len(R1) + 1 : R2[i] = R1[i - 1]
  BY <1>1
<1> HIDE DEF R2
<1>4. \A x : In(x, R2) <=> In(x, R1) \/ x = t
  <2>1. ASSUME NEW i \in DOMAIN R2 PROVE R2[i] = t \/ In(R2[i], R1)
    <3>1. CASE i = 1
      BY <1>3, <3>1
    <3>2. CASE i # 1
      <4>1. i - 1 \in DOMAIN R1 /\ R2[i] = R1[i - 1]
        BY <1>3, <3>2
      <4> QED
        BY <4>1 DEF In
    <3> QED
      BY <3>1, <3>2
  <2>2. ASSUME NEW i \in DOMAIN R1 PROVE In(R1[i], R2)
    <3>1. i + 1 \in DOMAIN R2 /\ R2[i + 1] = R1[i]
      BY <1>3
    <3> QED
      BY <3>1 DEF In
  <2>3. In(t, R2)
    BY <1>3 DEF In
  <2>4. ASSUME NEW x, In(x, R2) PROVE In(x, R1) \/ x = t
    BY <2>1, <2>4 DEF In
  <2>5. ASSUME NEW x, In(x, R1) PROVE In(x, R2)
    <3>1. PICK i \in DOMAIN R1 : R1[i] = x
      BY <2>5 DEF In
    <3> QED
      BY <2>2, <3>1
  <2> QED
    BY <2>3, <2>4, <2>5
<1>5. Once(R2)
  <2>1. SUFFICES ASSUME NEW i \in DOMAIN R2, NEW j \in DOMAIN R2, i < j, R2[i] = R2[j]
                 PROVE  FALSE
    BY <1>3 DEF Once
  <2>2. j - 1 \in DOMAIN R1 /\ R2[j] = R1[j - 1]
    BY <1>3, <2>1
  <2>3. In(R2[j], R1)
    BY <2>2 DEF In
  <2>4. i # 1
    BY <1>1, <1>3, <2>1, <2>3
  <2>5. i - 1 \in DOMAIN R1 /\ R2[i] = R1[i - 1]
    BY <1>3, <2>4
  <2>6. i - 1 = j - 1
    BY <1>2, <2>1, <2>2, <2>5 DEF Once
  <2> QED
    BY <1>3, <2>1, <2>6
<1>6. Booked(T2, R2, O, U)
  BY <1>1, <1>2, <1>4, <1>5 DEF Booked
<1> QED
  BY <1>1, <1>3, <1>6 DEF T2, R1, R2

\* A timer that waits in neither list is armed.
LEMMA BookedArmed ==
    ASSUME NEW T \in Seq(Timer), NEW R \in Seq(Timer), NEW O \in [Timer -> BOOLEAN],
           NEW U \in [Timer -> {"null", "held", "freed"}], Booked(T, R, O, U),
           NEW t \in Timer, ~O[t], NEW p \in 1 .. Len(T) + 1
    PROVE  /\ InsertAt(T, p, t) \in Seq(Timer)
           /\ Booked(InsertAt(T, p, t), R, [O EXCEPT ![t] = TRUE], [U EXCEPT ![t] = "held"])
<1> DEFINE T2 == InsertAt(T, p, t)
<1>1. ~In(t, T) /\ ~In(t, R) /\ Once(T)
  BY DEF Booked
<1>2. /\ T2 \in Seq(Timer) /\ Once(T2) /\ \A x : In(x, T2) <=> In(x, T) \/ x = t
  BY <1>1, InsertedProperties
<1> HIDE DEF T2
<1>3. Booked(T2, R, [O EXCEPT ![t] = TRUE], [U EXCEPT ![t] = "held"])
  BY <1>1, <1>2 DEF Booked
<1> QED
  BY <1>2, <1>3 DEF T2

-----------------------------------------------------------------------------
(* The lists and the walks. *)

WalkState ==
    [list : {"none", "timers", "running"}, next : Timer \cup {ListHead},
     timer : Timer \cup {ListHead}, then : {"prompt", "command", "fini", "end"}]

\* What LInv says about the lists.
LEMMA ListsBooked ==
    ASSUME LInv
    PROVE  TypeOK /\ Booked(timers, running, owed, use)
<1>1. timers \in Seq(Timer) /\ running \in Seq(Timer)
  BY DEF LInv, TypeOK
<1> QED
  BY <1>1, BookedIsOneFiring, Zenon DEF LInv, OneFiringPerArming

\* One direction of BookedIsOneFiring alone.
LEMMA BookedMeans ==
    ASSUME NEW T \in Seq(Timer), NEW R \in Seq(Timer), NEW O, NEW U, Booked(T, R, O, U)
    PROVE  \A t \in Timer :
              /\ O[t] <=> U[t] = "held"
              /\ O[t] <=> In(t, T) \/ In(t, R)
              /\ ~(In(t, T) /\ In(t, R))
              /\ \A i, j \in DOMAIN T : T[i] = t /\ T[j] = t => i = j
              /\ \A i, j \in DOMAIN R : R[i] = t /\ R[j] = t => i = j
BY BookedIsOneFiring, ZenonT(60)

\* And back, for the next state.
LEMMA OneFiringKept ==
    ASSUME TypeOK', Booked(timers', running', owed', use')
    PROVE  OneFiringPerArming'
<1>1. timers' \in Seq(Timer) /\ running' \in Seq(Timer)
  BY DEF TypeOK
<1>2. \A t \in Timer :
        /\ owed'[t] <=> use'[t] = "held"
        /\ owed'[t] <=> In(t, timers') \/ In(t, running')
        /\ ~(In(t, timers') /\ In(t, running'))
        /\ \A i, j \in DOMAIN timers' : timers'[i] = t /\ timers'[j] = t => i = j
        /\ \A i, j \in DOMAIN running' : running'[i] = t /\ running'[j] = t => i = j
  BY <1>1, BookedMeans, ZenonT(60)
<1> QED
  BY <1>2, Zenon DEF OneFiringPerArming, In

\* The run begins with empty lists.
LEMMA InitLists == Init => LInv
<1> SUFFICES ASSUME Init PROVE LInv
  OBVIOUS
<1>1. TypeOK
  <2>1. NoWalk \in WalkState
    BY DEF NoWalk, WalkState
  <2>2. <<>> \in Seq(Timer) /\ 0 \in 0 .. (LongSpan - 1) /\ 0 \in 0 .. MaxBack
    BY TimersAssumption
  <2> QED
    BY <2>1, <2>2 DEF Init, TypeOK, Control, WalkState
<1>2. OneFiringPerArming
  BY DEF Init, OneFiringPerArming, In
<1> QED
  BY <1>1, <1>2 DEF Init, LInv, WalkSound, FailureLeavesTrace, NextIsThere, NeverAstray, NoWalk, In

\* add_timer keeps LInv.
LEMMA ArmKeepsLists ==
    ASSUME LInv, NEW t \in Timer, NEW d \in Delays, AddTimer(t, d)
    PROVE  LInv'
<1> DEFINE e == (jiffies + d) % LongSpan
           p == AddPlace(t, e)
<1>1. TypeOK /\ Booked(timers, running, owed, use)
  BY ListsBooked
<1>2. /\ ~owed[t] /\ expires' = [expires EXCEPT ![t] = e]
      /\ timers' = InsertAt(timers, p, t)
      /\ use' = [use EXCEPT ![t] = "held"] /\ owed' = [owed EXCEPT ![t] = TRUE]
      /\ UNCHANGED <<jiffies, back, running, decided, at, walk, faked, meddled, dead>>
  BY DEF AddTimer
<1>3. e \in 0 .. (LongSpan - 1)
  BY <1>1, TimersAssumption DEF TypeOK
<1>4. p \in 1 .. Len(timers) + 1
  BY <1>1, AddPlaceProperties DEF TypeOK
<1> HIDE DEF e, p
<1>5. timers' \in Seq(Timer) /\ Booked(timers', running', owed', use')
  <2>1. /\ timers \in Seq(Timer) /\ running \in Seq(Timer) /\ owed \in [Timer -> BOOLEAN]
        /\ use \in [Timer -> {"null", "held", "freed"}]
    BY <1>1 DEF TypeOK
  <2> QED
    BY <1>1, <1>2, <1>4, <2>1, BookedArmed
<1>6. TypeOK'
  BY <1>1, <1>2, <1>3, <1>5 DEF TypeOK
<1>7. OneFiringPerArming'
  BY <1>5, <1>6, OneFiringKept
<1>8. FailureLeavesTrace'
  BY <1>1, <1>2 DEF LInv, FailureLeavesTrace, TypeOK
<1>9. \A x : In(x, timers) => In(x, timers')
  <2>1. timers \in Seq(Timer) /\ Once(timers) /\ ~In(t, timers)
    BY <1>1, <1>2 DEF TypeOK, Booked
  <2> QED
    BY <1>2, <1>4, <2>1, InsertedProperties
<1>10. NextIsThere'
  BY <1>2, <1>9 DEF LInv, NextIsThere, Walked
<1>11. dead = "no"
  BY DEF AddTimer, InKernelCode
<1>12. WalkSound' /\ NeverAstray'
  BY <1>2, <1>11 DEF LInv, WalkSound, NeverAstray
<1> QED
  BY <1>6, <1>7, <1>8, <1>10, <1>12 DEF LInv

\* What is in a list with t in front.
LEMMA InFront ==
    ASSUME NEW s \in Seq(Timer), NEW t \in Timer
    PROVE  \A x : In(x, <<t>> \o s) => x = t \/ In(x, s)
<1> SUFFICES ASSUME NEW i \in DOMAIN (<<t>> \o s), (<<t>> \o s)[i] # t
             PROVE  In((<<t>> \o s)[i], s)
  BY DEF In
<1>1. i - 1 \in DOMAIN s /\ (<<t>> \o s)[i] = s[i - 1]
  OBVIOUS
<1> QED
  BY <1>1 DEF In

\* del_timer keeps LInv.
LEMMA DeleteKeepsLists ==
    ASSUME LInv, NEW t \in Timer, NEW s \in DelSite, DelTimer(t, s)
    PROVE  LInv'
<1>1. TypeOK /\ Booked(timers, running, owed, use)
  BY ListsBooked
<1>2. /\ at \in {"command", "callback"} /\ owed[t]
      /\ timers' = Without(timers, t) /\ meddled' = (meddled \/ at = "callback")
      /\ UNCHANGED <<jiffies, back, expires, at, walk, dead>>
      /\ decided' \in {decided, decided \cup {s}}
  BY DEF DelTimer, InKernelCode
<1>3. \/ /\ faked' = faked \cup {t} /\ running' = <<t>> \o Without(running, t)
         /\ UNCHANGED <<use, owed>>
      \/ /\ running' = Without(running, t) /\ UNCHANGED faked
         /\ use' = [use EXCEPT ![t] = "null"] /\ owed' = [owed EXCEPT ![t] = FALSE]
  BY DEF DelTimer
<1>4. /\ timers \in Seq(Timer) /\ running \in Seq(Timer) /\ owed \in [Timer -> BOOLEAN]
      /\ use \in [Timer -> {"null", "held", "freed"}]
  BY <1>1 DEF TypeOK
<1>5. /\ timers' \in Seq(Timer) /\ running' \in Seq(Timer)
      /\ Booked(timers', running', owed', use')
  <2>1. CASE /\ running' = <<t>> \o Without(running, t) /\ UNCHANGED <<use, owed>>
    BY <1>1, <1>2, <1>4, <2>1, BookedMoved
  <2>2. CASE /\ running' = Without(running, t)
             /\ use' = [use EXCEPT ![t] = "null"] /\ owed' = [owed EXCEPT ![t] = FALSE]
    <3>1. "null" \in {"null", "freed"}
      OBVIOUS
    <3> QED
      BY <1>1, <1>2, <1>4, <2>2, <3>1, BookedWithout
  <2> QED
    BY <1>3, <2>1, <2>2
<1>6. TypeOK'
  <2>1. decided' \subseteq DelSite /\ faked' \subseteq Timer /\ meddled' \in BOOLEAN
    BY <1>1, <1>2, <1>3 DEF TypeOK
  <2>2. use' \in [Timer -> {"null", "held", "freed"}] /\ owed' \in [Timer -> BOOLEAN]
    BY <1>3, <1>4
  <2>3. UNCHANGED <<jiffies, back, expires, at, walk, dead>>
    BY <1>2
  <2> QED
    BY <1>1, <1>5, <2>1, <2>2, <2>3 DEF TypeOK
<1>7. OneFiringPerArming'
  BY <1>5, <1>6, OneFiringKept
<1>8. FailureLeavesTrace'
  <2>1. \A x : In(x, Without(running, t)) => In(x, running)
    BY <1>4, WithoutProperties
  <2>2. CASE /\ faked' = faked \cup {t} /\ running' = <<t>> \o Without(running, t)
             /\ UNCHANGED use
    <3>1. \A x : In(x, running') => x = t \/ In(x, Without(running, t))
      BY <1>4, <2>2, InFront, WithoutProperties
    <3> QED
      BY <2>1, <2>2, <3>1 DEF LInv, FailureLeavesTrace
  <2>3. CASE /\ running' = Without(running, t) /\ use' = [use EXCEPT ![t] = "null"]
             /\ UNCHANGED faked
    BY <1>4, <2>1, <2>3 DEF LInv, FailureLeavesTrace
  <2> QED
    BY <1>3, <2>2, <2>3
<1>9. NextIsThere'
  BY <1>1, <1>2 DEF LInv, NextIsThere, WalkSound, TypeOK
<1>10. ASSUME NEW x \in faked, use[x] = "freed" PROVE x \in faked' /\ use'[x] = "freed"
  <2>1. use[t] # "freed"
    BY <1>1, <1>2 DEF Booked
  <2>2. x \in Timer
    BY <1>1 DEF TypeOK
  <2> QED
    BY <1>3, <1>4, <1>10, <2>1, <2>2
<1>11. NeverAstray'
  BY <1>1, <1>2, <1>10 DEF LInv, NeverAstray, TypeOK
<1>12. WalkSound'
  BY <1>1, <1>2 DEF LInv, WalkSound, TypeOK
<1> QED
  BY <1>6, <1>7, <1>8, <1>9, <1>11, <1>12 DEF LInv

\* A visit of a walk, the call of the function included, keeps LInv.
LEMMA VisitKeepsLists ==
    ASSUME LInv, Visit
    PROVE  LInv'
<1> DEFINE t == walk.next
           u == IF walk.list = "timers" THEN "null" ELSE "freed"
           n == NextOf(Walked, t)
<1>1. TypeOK /\ Booked(timers, running, owed, use)
  BY ListsBooked
<1>2. /\ at = "walk" /\ In(t, Walked) /\ at' = "callback"
      /\ timers' = Without(timers, t) /\ running' = Without(running, t)
      /\ use' = [use EXCEPT ![t] = u] /\ owed' = [owed EXCEPT ![t] = FALSE]
      /\ walk' = [walk EXCEPT !.next = n, !.timer = t]
      /\ UNCHANGED <<jiffies, back, expires, decided, faked, meddled, dead>> /\ dead = "no"
  BY DEF Visit
<1>3. /\ timers \in Seq(Timer) /\ running \in Seq(Timer) /\ owed \in [Timer -> BOOLEAN]
      /\ use \in [Timer -> {"null", "held", "freed"}] /\ walk \in WalkState
      /\ Walked \in Seq(Timer) /\ Once(Walked)
  BY <1>1 DEF TypeOK, WalkState, Walked, Booked
<1>4. t \in Timer /\ u \in {"null", "freed"}
  BY <1>2, <1>3 DEF In
<1>5. walk.list \in {"timers", "running"}
  BY <1>2, <1>3 DEF LInv, WalkSound, WalkState
<1>6. /\ n \in Timer \cup {ListHead}
      /\ n # ListHead => In(n, Without(Walked, t))
      /\ t = First(Walked) => n = First(Without(Walked, t))
  BY <1>2, <1>3, NextOfProperties
<1> HIDE DEF t, u, n
<1>7. /\ timers' \in Seq(Timer) /\ running' \in Seq(Timer)
      /\ Booked(timers', running', owed', use')
  BY <1>1, <1>2, <1>3, <1>4, BookedWithout
<1>8. walk' \in WalkState /\ walk'.list = walk.list /\ walk'.then = walk.then /\ walk'.next = n
  BY <1>2, <1>3, <1>4, <1>6 DEF WalkState
<1>9. TypeOK'
  BY <1>1, <1>2, <1>3, <1>4, <1>7, <1>8 DEF TypeOK, WalkState, Control
<1>10. OneFiringPerArming'
  BY <1>7, <1>9, OneFiringKept
<1>11. Walked' = Without(Walked, t)
  BY <1>2, <1>8 DEF Walked
<1>12. FailureLeavesTrace'
  <2>1. \A x : In(x, running') => In(x, running)
    BY <1>2, <1>3, WithoutProperties
  <2>2. u = "freed" => In(t, running)
    BY <1>2, <1>5 DEF u, Walked
  <2>3. \A x \in Timer : use'[x] = "freed" => use[x] = "freed" \/ (x = t /\ u = "freed")
    BY <1>2, <1>3, <1>4
  <2> QED
    BY <1>2, <2>1, <2>2, <2>3 DEF LInv, FailureLeavesTrace
<1>13. NextIsThere'
  <2>1. ASSUME ~meddled, walk.list = "running" PROVE n = First(running')
    <3>1. t = First(running) /\ Walked = running
      BY <2>1 DEF LInv, NextIsThere, Walked, t
    <3> QED
      BY <1>2, <1>6, <3>1
  <2> QED
    BY <1>2, <1>6, <1>8, <1>11, <2>1 DEF NextIsThere
<1>14. WalkSound' /\ NeverAstray'
  BY <1>2, <1>8 DEF LInv, WalkSound, NeverAstray
<1> QED
  BY <1>9, <1>10, <1>12, <1>13, <1>14 DEF LInv

\* A walk begins at the first timer of its list.
LEMMA WalkBegins ==
    ASSUME LInv, NEW l \in {"timers", "running"}, NEW then, Walk(l, then), at \notin {"walk", "callback"},
           \/ l = "timers" /\ then = "end"
           \/ l = "running" /\ then \in {"prompt", "command", "fini"},
           jiffies' \in 0 .. (LongSpan - 1), back' \in 0 .. MaxBack, UNCHANGED <<lists, dead>>
    PROVE  LInv'
<1> DEFINE s == IF l = "timers" THEN timers ELSE running
<1>1. /\ at' = "walk"
      /\ UNCHANGED <<timers, running, expires, use, decided, owed, faked, meddled, dead>>
      /\ walk' = [list |-> l, then |-> then, timer |-> ListHead, next |-> First(s)]
  BY DEF Walk, lists
<1>2. s \in Seq(Timer)
  BY DEF LInv, TypeOK
<1> HIDE DEF s
<1>3. First(s) \in Timer \cup {ListHead} /\ (First(s) # ListHead => In(First(s), s))
  <2>1. CASE s = <<>>
    BY <2>1 DEF First
  <2>2. CASE s # <<>>
    <3>1. 1 \in DOMAIN s /\ First(s) = s[1]
      BY <1>2, <2>2 DEF First
    <3> QED
      BY <1>2, <3>1 DEF In
  <2> QED
    BY <2>1, <2>2
<1>4. walk' \in WalkState
  BY <1>1, <1>3 DEF WalkState
<1>5. /\ walk'.list = l /\ walk'.then = then /\ walk'.next = First(s) /\ Walked' = s
  BY <1>1 DEF Walked, s
<1>6. TypeOK'
  BY <1>1, <1>4 DEF LInv, TypeOK, WalkState, Control
<1>7. OneFiringPerArming' /\ FailureLeavesTrace' /\ NeverAstray'
  BY <1>1, Zenon DEF LInv, OneFiringPerArming, FailureLeavesTrace, NeverAstray, In
<1>8. WalkSound'
  BY <1>1, <1>5 DEF WalkSound
<1>9. NextIsThere'
  BY <1>1, <1>3, <1>5 DEF NextIsThere, s
<1> QED
  BY <1>6, <1>7, <1>8, <1>9 DEF LInv

\* The end of a walk keeps LInv.
LEMMA WalkEndKeepsLists ==
    ASSUME LInv, WalkEnds
    PROVE  LInv'
<1>1. /\ at = "walk" /\ at' = walk.then /\ walk' = NoWalk
      /\ walk.next = ListHead \/ walk.list = "timers"
      /\ UNCHANGED <<jiffies, back, timers, running, expires, use, decided, owed, faked, meddled, dead>>
  BY DEF WalkEnds, lists
<1>2. TypeOK /\ walk \in WalkState /\ NoWalk \in WalkState
  BY DEF LInv, TypeOK, WalkState, NoWalk
<1>3. /\ walk'.list = "none" /\ at' \in {"prompt", "command", "fini", "end"}
  BY <1>1, <1>2 DEF NoWalk, WalkState
<1>4. TypeOK'
  BY <1>1, <1>2, <1>3 DEF TypeOK, WalkState, Control
<1>5. OneFiringPerArming' /\ FailureLeavesTrace' /\ NeverAstray'
  BY <1>1, ZenonT(60) DEF LInv, OneFiringPerArming, FailureLeavesTrace, NeverAstray, In
<1>6. WalkSound'
  BY <1>3 DEF WalkSound
<1>7. ASSUME ~meddled, at' \in {"prompt", "fini"} PROVE running = <<>>
  <2>1. walk.list = "running"
    BY <1>1, <1>2, <1>7 DEF LInv, WalkSound, WalkState
  <2>2. First(running) = ListHead
    BY <1>1, <1>7, <2>1 DEF LInv, NextIsThere
  <2>3. ASSUME running # <<>> PROVE FALSE
    <3>1. First(running) = running[1] /\ running[1] \in Timer
      BY <1>2, <2>3 DEF First, TypeOK
    <3> QED
      BY <2>2, <3>1, TimersAssumption
  <2> QED
    BY <2>3
<1>8. NextIsThere'
  BY <1>1, <1>3, <1>7 DEF NextIsThere
<1> QED
  BY <1>4, <1>5, <1>6, <1>8 DEF LInv

\* `time +n' sets the clock back by no more than what is left of the bound.
LEMMA BackStaysBounded ==
    ASSUME LInv, NEW n, n * HZ \in Int, TimeAdvance(n)
    PROVE  back' \in 0 .. MaxBack
<1> DEFINE inc == (n * HZ) % IntSpan
<1>1. inc \in Int /\ inc < LongSpan /\ LongSpan \in Int /\ MaxBack \in Int /\ back \in 0 .. MaxBack
  <2>1. ASSUME NEW k \in Int, NEW m \in Nat \ {0} PROVE k % m \in Int /\ k % m < m
    OBVIOUS
  <2>2. IntSpan \in Nat \ {0} /\ LongSpan \in Int /\ IntSpan <= LongSpan /\ MaxBack \in Int
    BY TimersAssumption
  <2>3. inc \in Int /\ inc < IntSpan
    BY <2>1, <2>2
  <2> HIDE DEF inc
  <2> QED
    BY <2>2, <2>3 DEF LInv, TypeOK
<1>2. UNCHANGED back \/ (LongSpan - inc <= MaxBack - back /\ back' = back + (LongSpan - inc))
  BY DEF TimeAdvance
<1> HIDE DEF inc
<1> QED
  BY <1>1, <1>2

\* Every step keeps LInv.
LEMMA StepKeepsLists ==
    ASSUME LInv, [Next]_vars
    PROVE  LInv'
<1>1. CASE \E t \in Timer, d \in Delays : AddTimer(t, d)
  BY <1>1, ArmKeepsLists
<1>2. CASE \E t \in Timer, s \in DelSite : DelTimer(t, s)
  BY <1>2, DeleteKeepsLists
<1>3. CASE Visit
  BY <1>3, VisitKeepsLists
<1>4. CASE WalkEnds
  BY <1>4, WalkEndKeepsLists
<1>5. ASSUME UNCHANGED <<jiffies, back, timers, running, expires, use, decided, owed, faked, meddled, walk>>,
             at' \in Control,
             at' \in {"walk", "callback"} <=> at \in {"walk", "callback"},
             at' \in {"prompt", "fini"} => at \in {"prompt", "fini"},
             dead' \in {"no", "wild", "double", "barf"}, NeverAstray'
      PROVE  LInv'
  <2>1. TypeOK'
    BY <1>5 DEF LInv, TypeOK
  <2>2. OneFiringPerArming' /\ FailureLeavesTrace'
    BY <1>5, Zenon DEF LInv, OneFiringPerArming, FailureLeavesTrace, In
  <2>3. WalkSound'
    BY <1>5 DEF LInv, WalkSound
  <2>4. NextIsThere'
    BY <1>5 DEF LInv, NextIsThere, Walked
  <2> QED
    BY <1>5, <2>1, <2>2, <2>3, <2>4 DEF LInv
<1>6. CASE \E t \in Timer : DelIdleTimer(t)
  <2>1. PICK t \in Timer : DelIdleTimer(t)
    BY <1>6
  <2>2. t \in faked /\ use[t] = "freed"
    BY <2>1 DEF DelIdleTimer, LInv, FailureLeavesTrace
  <2> QED
    BY <1>5, <2>1, <2>2 DEF DelIdleTimer, lists, LInv, TypeOK, NeverAstray
<1>7. CASE CallbackReturns
  <2>1. /\ at = "callback" /\ at' = "walk" /\ walk' = [walk EXCEPT !.timer = ListHead]
        /\ UNCHANGED <<jiffies, back, timers, running, expires, use, decided, owed, faked, meddled, dead>>
    BY <1>7 DEF CallbackReturns, lists
  <2>2. walk \in WalkState
    BY DEF LInv, TypeOK, WalkState
  <2>3. /\ walk' \in WalkState /\ walk'.list = walk.list /\ walk'.next = walk.next
        /\ walk'.then = walk.then
    BY <2>1, <2>2 DEF WalkState
  <2>4. TypeOK'
    BY <2>1, <2>3 DEF LInv, TypeOK, WalkState, Control
  <2>5. OneFiringPerArming' /\ FailureLeavesTrace' /\ NeverAstray'
    BY <2>1, Zenon DEF LInv, OneFiringPerArming, FailureLeavesTrace, NeverAstray, In
  <2>6. WalkSound' /\ NextIsThere'
    BY <2>1, <2>3 DEF LInv, WalkSound, NextIsThere, Walked
  <2> QED
    BY <2>4, <2>5, <2>6 DEF LInv
<1>8. CASE VisitStale
  <2>1. /\ at = "walk" /\ walk.next # ListHead /\ ~In(walk.next, Walked) /\ dead' = "wild"
        /\ UNCHANGED <<jiffies, back, timers, running, expires, use, decided, owed, faked, meddled, at, walk>>
    BY <1>8 DEF VisitStale, lists
  <2>2. meddled
    BY <2>1 DEF LInv, NextIsThere, WalkSound
  <2> QED
    BY <1>5, <2>1, <2>2 DEF LInv, TypeOK, NeverAstray
<1>9. CASE StartCommand \/ ModuleFini
  <2>1. /\ at \in {"prompt", "fini"} /\ at' = "command"
        /\ UNCHANGED <<jiffies, back, timers, running, expires, use, decided, owed, faked, meddled, walk, dead>>
    BY <1>9 DEF StartCommand, ModuleFini, lists
  <2> QED
    BY <1>5, <2>1 DEF LInv, TypeOK, NeverAstray, Control
<1>10. CASE EndCommand
  <2>1. /\ at \notin {"walk", "callback"} /\ Walk("running", "prompt")
        /\ UNCHANGED <<jiffies, back, lists, dead>>
    BY <1>10 DEF EndCommand
  <2>2. /\ jiffies' \in 0 .. (LongSpan - 1) /\ back' \in 0 .. MaxBack
        /\ "running" \in {"timers", "running"}
    BY <2>1 DEF LInv, TypeOK
  <2> QED
    BY <2>1, <2>2, WalkBegins
<1>11. ASSUME NEW inc \in Int, at = "prompt", IncrementTime(inc), back' \in 0 .. MaxBack PROVE LInv'
  <2>1. Walk("timers", "end") /\ UNCHANGED <<lists, dead>> /\ at \notin {"walk", "callback"}
    BY <1>11 DEF IncrementTime
  <2>2. jiffies' \in 0 .. (LongSpan - 1) /\ "timers" \in {"timers", "running"}
    BY <1>11, TimersAssumption DEF IncrementTime, LInv, TypeOK
  <2> QED
    BY <1>11, <2>1, <2>2, WalkBegins
<1>12. CASE \E n \in Seconds : TimeAdvance(n) \/ TimeAdvance(-n) \/ TimeSet(n)
  <2>1. PICK n \in Seconds : TimeAdvance(n) \/ TimeAdvance(-n) \/ TimeSet(n)
    BY <1>12
  <2>2. n \in Int /\ -n \in Int /\ HZ \in Int /\ jiffies \in Int
    BY TimersAssumption DEF Seconds, LInv, TypeOK
  <2>3. ASSUME NEW m \in Int, TimeAdvance(m) PROVE LInv'
    <3>1. m * HZ \in Int
      BY <2>2
    <3>2. back' \in 0 .. MaxBack
      BY <2>3, <3>1, BackStaysBounded
    <3> QED
      BY <1>11, <2>3, <3>1, <3>2 DEF TimeAdvance
  <2>4. CASE TimeSet(n)
    <3>1. n * HZ - jiffies \in Int
      BY <2>2
    <3>2. back' \in 0 .. MaxBack
      BY <2>4 DEF TimeSet, LInv, TypeOK
    <3> QED
      BY <1>11, <2>4, <3>1, <3>2 DEF TimeSet
  <2> QED
    BY <2>1, <2>2, <2>3, <2>4
<1>13. CASE TimeInfinity
  <2>1. FindLastTimer \in Int /\ jiffies \in Int
    BY DEF FindLastTimer, LInv, TypeOK
  <2>2. back' \in 0 .. MaxBack
    BY <1>13 DEF TimeInfinity, LInv, TypeOK
  <2> QED
    BY <1>11, <1>13, <2>1, <2>2 DEF TimeInfinity
<1>14. CASE Schedule
  <2>1. /\ UNCHANGED <<jiffies, back, lists>> /\ at = "command"
        /\ jiffies' \in 0 .. (LongSpan - 1) /\ back' \in 0 .. MaxBack
    BY <1>14 DEF Schedule, LInv, TypeOK
  <2>2. CASE Walk("running", "command") /\ UNCHANGED dead
    <3>1. "running" \in {"timers", "running"} /\ at \notin {"walk", "callback"}
      BY <2>1
    <3> QED
      BY <2>1, <2>2, <3>1, WalkBegins
  <2>3. CASE dead' = "barf" /\ UNCHANGED <<at, walk>>
    BY <1>5, <2>1, <2>3 DEF LInv, TypeOK, NeverAstray, lists
  <2> QED
    BY <1>14, <2>2, <2>3 DEF Schedule
<1>15. CASE ModuleUnload
  <2>1. /\ at \notin {"walk", "callback"} /\ Walk("running", "fini")
        /\ UNCHANGED <<jiffies, back, lists, dead>>
    BY <1>15 DEF ModuleUnload
  <2>2. /\ jiffies' \in 0 .. (LongSpan - 1) /\ back' \in 0 .. MaxBack
        /\ "running" \in {"timers", "running"}
    BY <2>1 DEF LInv, TypeOK
  <2> QED
    BY <2>1, <2>2, WalkBegins
<1>16. CASE UNCHANGED vars
  BY <1>5, <1>16 DEF vars, LInv, TypeOK, NeverAstray
<1> QED
  BY <1>1, <1>2, <1>3, <1>4, <1>6, <1>7, <1>8, <1>9, <1>10, <1>12, <1>13, <1>14, <1>15, <1>16, Zenon
     DEF Next

\* The lists are consistent and the walks on them, whatever clients do.
THEOREM ListsAlwaysConsistent == Spec => []LInv
<1>1. Init => LInv
  BY InitLists
<1>2. LInv /\ [Next]_vars => LInv'
  BY StepKeepsLists
<1> QED
  BY <1>1, <1>2, PTL DEF Spec

\* A walk only follows an entry that has left its list when a callback deleted timers,
\* and del_timer only unlinks an entry of no list after failure injection has made a
\* del_timer of that timer fail (VisitStale, DelIdleTimer: increment_time, do_running_timers, __del_timer), for
\* any number of timers, any clock and any delays.
THEOREM NeverLedAstray == Spec => []NeverAstray
<1>1. LInv => NeverAstray
  BY DEF LInv
<1> QED
  BY <1>1, ListsAlwaysConsistent, PTL

-----------------------------------------------------------------------------
(* The clock. *)

Clock == 0 .. (LongSpan - 1)

\* Half of the clock's span, and that far a client's delay and a step of the clock reach.
LEMMA HorizonProperties ==
    ASSUME NEW D, Horizon(D)
    PROVE  /\ D \in Nat /\ Farther(D) \in Nat /\ MaxAdvance \in Nat /\ LongSpan \div 2 \in Nat \ {0}
           /\ LongSpan = 2 * (LongSpan \div 2)
           /\ D <= Farther(D) /\ MaxAdvance <= Farther(D)
           /\ Farther(D) + D <= LongSpan \div 2 /\ Farther(D) < IntSpan
           /\ IntSpan \in Nat \ {0} /\ LongSpan \in Nat \ {0} /\ LongSpan % IntSpan = 0
           /\ MaxBack \in Nat /\ MaxBack <= D
           /\ \A d \in Delays : d \in 1 .. D - MaxBack
<1>1. LongSpan \div 2 \in Nat \ {0} /\ LongSpan = 2 * (LongSpan \div 2)
  BY TimersAssumption
<1>2. D \in Nat /\ MaxAdvance \in Nat /\ MaxBack \in Nat
  BY TimersAssumption DEF Horizon
<1> QED
  BY <1>1, <1>2, TimersAssumption DEF Horizon, Farther

\* A timer is never more than D ahead, and one that is armed is within reach.
LEMMA ReachProperties ==
    ASSUME NEW D, Horizon(D), NEW b \in 0 .. MaxBack
    PROVE  Reach(D, b) \in Nat /\ Reach(D, b) <= D /\ D - MaxBack <= Reach(D, b)
BY HorizonProperties DEF Reach

\* time_after on the clock: its first argument is ahead of the second.
LEMMA AfterIsAhead ==
    ASSUME NEW a \in Clock, NEW b \in Clock
    PROVE  TimeAfter(a, b) <=> Off(b, a) < 0
<1> DEFINE H == LongSpan \div 2
<1>1. H \in Nat \ {0} /\ LongSpan = 2 * H /\ a \in Int /\ b \in Int
      /\ 0 <= a /\ a < LongSpan /\ 0 <= b /\ b < LongSpan
  BY TimersAssumption DEF Clock
<1>2. (b - a) % LongSpan = IF b >= a THEN b - a ELSE b - a + LongSpan
  BY <1>1
<1> HIDE DEF H
<1>3. TimeAfter(a, b) <=> (IF b >= a THEN b - a ELSE b - a + LongSpan) >= H
  BY <1>2 DEF TimeAfter, H
<1>4. Off(b, a) = IF b - a >= H THEN b - a - LongSpan
                  ELSE IF b - a < -H THEN b - a + LongSpan ELSE b - a
  BY DEF Off, H
<1> QED
  BY <1>1, <1>3, <1>4

\* Within reach of the clock time_after compares how far ahead two times are.
LEMMA AfterInReach ==
    ASSUME NEW D, Horizon(D), NEW e \in Clock, NEW f \in Clock, NEW j \in Clock,
           Off(e, j) \in 1 - Farther(D) .. D, Off(f, j) \in 1 - Farther(D) .. D
    PROVE  TimeAfter(e, f) <=> Off(e, j) > Off(f, j)
<1> DEFINE H == LongSpan \div 2
           A == Farther(D)
<1>1. H \in Nat \ {0} /\ LongSpan = 2 * H /\ e \in Int /\ f \in Int /\ j \in Int
      /\ 0 <= e /\ e < LongSpan /\ 0 <= f /\ f < LongSpan /\ 0 <= j /\ j < LongSpan
      /\ D \in Nat /\ A \in Nat /\ A + D <= H
  BY HorizonProperties DEF Clock
<1> HIDE DEF H, A
<1>2. \A x, y : Off(x, y) = IF x - y >= H THEN x - y - LongSpan
                            ELSE IF x - y < -H THEN x - y + LongSpan ELSE x - y
  BY DEF Off, H
<1>3. Off(e, j) \in 1 - A .. D /\ Off(f, j) \in 1 - A .. D
  BY DEF A
<1>4. Off(f, e) = Off(f, j) - Off(e, j)
  BY <1>1, <1>2, <1>3
<1>5. TimeAfter(e, f) <=> Off(f, e) < 0
  BY AfterIsAhead
<1> QED
  BY <1>1, <1>3, <1>4, <1>5

\* Within the horizon time_before tells what is ahead, across the wrap of the clock.
LEMMA DueInReach ==
    ASSUME NEW D, Horizon(D), NEW e \in Clock, NEW j \in Clock,
           Off(e, j) \in 1 - Farther(D) .. D
    PROVE  TimeBefore(j, e) <=> Off(e, j) >= 1
<1> DEFINE H == LongSpan \div 2
           A == Farther(D)
<1>1. H \in Nat \ {0} /\ LongSpan = 2 * H /\ e \in Int /\ j \in Int
      /\ 0 <= e /\ e < LongSpan /\ 0 <= j /\ j < LongSpan
      /\ D \in Nat /\ A \in Nat /\ A + D <= H /\ D <= A
  BY HorizonProperties DEF Clock
<1> HIDE DEF H, A
<1>2. \A x, y : Off(x, y) = IF x - y >= H THEN x - y - LongSpan
                            ELSE IF x - y < -H THEN x - y + LongSpan ELSE x - y
  BY DEF Off, H
<1>3. Off(e, j) \in 1 - A .. D
  BY DEF A
<1>4. Off(j, e) = -Off(e, j)
  <2>1. Off(e, j) < H /\ Off(e, j) > -H
    BY <1>1, <1>3
  <2> QED
    BY <1>1, <1>2, <2>1
<1>5. TimeBefore(j, e) <=> Off(j, e) < 0
  BY AfterIsAhead DEF TimeBefore
<1> QED
  BY <1>1, <1>3, <1>4, <1>5

\* A timer armed d jiffies ahead is d ahead, wherever the clock wraps.
LEMMA ArmedAhead ==
    ASSUME NEW D, Horizon(D), NEW j \in Clock, NEW d \in 1 .. D
    PROVE  Off((j + d) % LongSpan, j) = d
<1> DEFINE H == LongSpan \div 2
           e == (j + d) % LongSpan
<1>1. H \in Nat \ {0} /\ LongSpan = 2 * H /\ j \in Int /\ 0 <= j /\ j < LongSpan
      /\ d \in Int /\ 1 <= d /\ d < H
  BY HorizonProperties DEF Clock
<1>2. e = IF j + d < LongSpan THEN j + d ELSE j + d - LongSpan
  BY <1>1
<1> HIDE DEF H, e
<1>3. Off(e, j) = IF e - j >= H THEN e - j - LongSpan
                  ELSE IF e - j < -H THEN e - j + LongSpan ELSE e - j
  BY DEF Off, H
<1> QED
  BY <1>1, <1>2, <1>3 DEF e

\* Where something may wait a step of the clock goes forwards.
LEMMA MovedAhead ==
    ASSUME NEW D, Horizon(D), 1 <= D, NEW j \in Clock, NEW c \in 0 .. Farther(D)
    PROVE  (j + c) % LongSpan \in Clock /\ Off((j + c) % LongSpan, j) = c
<1> DEFINE H == LongSpan \div 2
           e == (j + c) % LongSpan
<1>1. H \in Nat \ {0} /\ LongSpan = 2 * H /\ j \in Int /\ 0 <= j /\ j < LongSpan
      /\ c \in Int /\ 0 <= c /\ c < H
  <2>1. /\ H \in Nat \ {0} /\ LongSpan = 2 * H /\ D \in Nat /\ Farther(D) \in Nat
        /\ Farther(D) + D <= H
    BY HorizonProperties
  <2> QED
    BY <2>1 DEF Clock
<1>2. e = IF j + c < LongSpan THEN j + c ELSE j + c - LongSpan
  BY <1>1
<1> HIDE DEF H, e
<1>3. Off(e, j) = IF e - j >= H THEN e - j - LongSpan
                  ELSE IF e - j < -H THEN e - j + LongSpan ELSE e - j
  BY DEF Off, H
<1>4. e \in Clock /\ Off(e, j) = c
  BY <1>1, <1>2, <1>3 DEF Clock
<1> QED
  BY <1>4 DEF e

\* The clock moves and everything that waits is that much nearer or farther.
LEMMA Nearer ==
    ASSUME NEW D, Horizon(D), NEW j \in Clock, NEW e \in Clock, Off(e, j) \in 1 .. D,
           NEW c \in Int, Off(e, j) - c \in 1 - Farther(D) .. D
    PROVE  Off(e, (j + c) % LongSpan) = Off(e, j) - c
<1> DEFINE H == LongSpan \div 2
           k == (j + c) % LongSpan
           A == Farther(D)
           o == Off(e, j)
<1>1. H \in Nat \ {0} /\ LongSpan = 2 * H /\ j \in Int /\ 0 <= j /\ j < LongSpan
      /\ e \in Int /\ 0 <= e /\ e < LongSpan /\ A + D <= H /\ D \in Nat /\ A \in Nat /\ D <= A
  BY HorizonProperties DEF Clock
<1>2. o \in 1 .. D /\ o - c \in 1 - A .. D
  OBVIOUS
<1> HIDE DEF H, A, o
<1>3. c >= -H /\ c < LongSpan
  BY <1>1, <1>2
<1>4. k = IF j + c < 0 THEN j + c + LongSpan
          ELSE IF j + c < LongSpan THEN j + c ELSE j + c - LongSpan
  BY <1>1, <1>3
<1> HIDE DEF k
<1>5. \A x, y : Off(x, y) = IF x - y >= H THEN x - y - LongSpan
                            ELSE IF x - y < -H THEN x - y + LongSpan ELSE x - y
  BY DEF Off, H
<1>6. o = IF e - j >= H THEN e - j - LongSpan
          ELSE IF e - j < -H THEN e - j + LongSpan ELSE e - j
  BY <1>5 DEF o
<1>7. Off(e, k) = IF e - k >= H THEN e - k - LongSpan
                  ELSE IF e - k < -H THEN e - k + LongSpan ELSE e - k
  BY <1>5
<1>8. o - c < H /\ o - c > -H /\ o \in Int /\ k \in Int /\ 0 <= k /\ k < LongSpan
  BY <1>1, <1>2, <1>3, <1>4
<1>9. Off(e, k) = o - c
  <2>1. \/ e - k = o - c
        \/ e - k = o - c + LongSpan
        \/ e - k = o - c - LongSpan
        \/ e - k = o - c + 2 * LongSpan
        \/ e - k = o - c - 2 * LongSpan
    BY <1>1, <1>4, <1>6, <1>8
  <2>2. e - k < LongSpan /\ e - k > -LongSpan
    BY <1>1, <1>8
  <2> QED
    BY <1>1, <1>7, <1>8, <2>1, <2>2
<1> QED
  BY <1>9 DEF k, o

-----------------------------------------------------------------------------
(* The order of __timers and what is due. *)

\* At first no timer is pending.
LEMMA InitClock == ASSUME NEW D, Init PROVE CInv(D)
BY DEF Init, CInv, InOrder, InWindow, PassedNotDue, NoWalk

\* How far ahead the i-th timer of T is.
Ahead(T, E, j, i) == Off(E[T[i]], j)

\* CInv while callbacks delete nothing, with the list, the expiry times, the clock and
\* the walk as arguments.
Orderly(T, E, j) == \A i, k \in DOMAIN T : i < k => Ahead(T, E, j, i) <= Ahead(T, E, j, k)
Within(T, E, j, l, D, b) ==
    \A i \in DOMAIN T :
        Ahead(T, E, j, i) \in (IF l = "timers" THEN 1 - Farther(D) ELSE 1) .. Reach(D, b)
Passed(T, E, j, n) ==
    \A i \in DOMAIN T : (\A k \in DOMAIN T : T[k] = n => i < k) => Ahead(T, E, j, i) >= 1

\* What CInv says, with the lists as parameters.
LEMMA ClockParts ==
    ASSUME NEW D
    PROVE  /\ CInv(D) /\ ~meddled =>
                /\ Orderly(timers, expires, jiffies)
                /\ Within(timers, expires, jiffies, walk.list, D, back)
                /\ walk.list = "timers" => Passed(timers, expires, jiffies, walk.next)
           /\ (~meddled' => /\ Orderly(timers', expires', jiffies')
                            /\ Within(timers', expires', jiffies', walk'.list, D, back')
                            /\ walk'.list = "timers" => Passed(timers', expires', jiffies', walk'.next))
              => CInv(D)'
<1>1. CInv(D) /\ ~meddled =>
                /\ Orderly(timers, expires, jiffies)
                /\ Within(timers, expires, jiffies, walk.list, D, back)
                /\ walk.list = "timers" => Passed(timers, expires, jiffies, walk.next)
  BY Zenon DEF CInv, InOrder, InWindow, PassedNotDue, Orderly, Within, Passed, Ahead
<1>2. (~meddled' => /\ Orderly(timers', expires', jiffies')
                    /\ Within(timers', expires', jiffies', walk'.list, D, back')
                    /\ walk'.list = "timers" => Passed(timers', expires', jiffies', walk'.next))
      => CInv(D)'
  BY Zenon DEF CInv, InOrder, InWindow, PassedNotDue, Orderly, Within, Passed, Ahead, Off, Farther, Reach
<1> QED
  BY <1>1, <1>2

\* Unlinking a timer leaves the others in order.
LEMMA OrderlyWithout ==
    ASSUME NEW T \in Seq(Timer), NEW E, NEW j, NEW l, NEW D, NEW far, NEW t, NEW w, w = Without(T, t),
           Orderly(T, E, j), Within(T, E, j, l, D, far)
    PROVE  Orderly(w, E, j) /\ Within(w, E, j, l, D, far)
<1>1. /\ w \in Seq(Timer)
      /\ \A x : In(x, w) <=> In(x, T) /\ x # t
      /\ \A k, m \in DOMAIN w : k < m =>
           \E a, b \in DOMAIN T : a < b /\ w[k] = T[a] /\ w[m] = T[b]
  BY WithoutProperties
<1>2. ASSUME NEW k \in DOMAIN w, NEW m \in DOMAIN w, k < m
      PROVE  Ahead(w, E, j, k) <= Ahead(w, E, j, m)
  <2>1. PICK a, b \in DOMAIN T : a < b /\ w[k] = T[a] /\ w[m] = T[b]
    BY <1>1, <1>2
  <2>2. Ahead(T, E, j, a) <= Ahead(T, E, j, b)
    BY <2>1 DEF Orderly
  <2> QED
    BY <2>1, <2>2 DEF Ahead
<1>3. ASSUME NEW k \in DOMAIN w
      PROVE  Ahead(w, E, j, k) \in (IF l = "timers" THEN 1 - Farther(D) ELSE 1) .. Reach(D, far)
  <2>1. In(w[k], T)
    BY <1>1 DEF In
  <2>2. PICK a \in DOMAIN T : w[k] = T[a]
    BY <2>1 DEF In
  <2>3. Ahead(w, E, j, k) = Ahead(T, E, j, a)
    BY <2>2 DEF Ahead
  <2> QED
    BY <2>3 DEF Within
<1> QED
  BY <1>2, <1>3 DEF Orderly, Within

\* del_timer keeps CInv.
LEMMA DeleteKeepsClock ==
    ASSUME NEW D, LInv, CInv(D), NEW t \in Timer, NEW s \in DelSite, DelTimer(t, s)
    PROVE  CInv(D)'
<1> SUFFICES ASSUME ~meddled'
             PROVE  /\ Orderly(timers', expires', jiffies')
                    /\ Within(timers', expires', jiffies', walk'.list, D, back')
                    /\ walk'.list = "timers" => Passed(timers', expires', jiffies', walk'.next)
  BY ClockParts
<1>1. /\ at \in {"command", "callback"} /\ meddled' = (meddled \/ at = "callback")
      /\ timers' = Without(timers, t) /\ UNCHANGED <<jiffies, back, expires, walk>>
  BY DEF DelTimer, InKernelCode
<1>2. ~meddled /\ walk.list = "none" /\ timers \in Seq(Timer)
  BY <1>1 DEF LInv, WalkSound, TypeOK
<1>3. Orderly(timers, expires, jiffies) /\ Within(timers, expires, jiffies, walk.list, D, back)
  BY <1>2, ClockParts
<1>4. /\ Orderly(timers', expires, jiffies)
      /\ Within(timers', expires, jiffies, walk.list, D, back)
  BY <1>1, <1>2, <1>3, OrderlyWithout
<1> QED
  BY <1>1, <1>2, <1>4

\* The timer t, not in T, is put at the place p, d ahead of the clock j: nothing in
\* front of the place is later and what follows is.
PutInPlace(T, p, t, w, E, F, j, d) ==
    /\ T \in Seq(Timer) /\ Once(T) /\ t \in Timer /\ ~In(t, T) /\ p \in 1 .. Len(T) + 1
    /\ w = InsertAt(T, p, t)
    /\ \A x \in Timer : x # t => F[x] = E[x]
    /\ d \in Int /\ Off(F[t], j) = d
    /\ \A i \in DOMAIN T : Ahead(T, E, j, i) \in Int /\ (i < p => Ahead(T, E, j, i) <= d)
    /\ p \in DOMAIN T => Ahead(T, E, j, p) > d

\* A timer put in its place leaves the list in order.
LEMMA OrderlyInserted ==
    ASSUME NEW T, NEW t, NEW p, NEW w, NEW E, NEW F, NEW j, NEW d,
           PutInPlace(T, p, t, w, E, F, j, d), Orderly(T, E, j)
    PROVE  /\ Orderly(w, F, j)
           /\ \A i \in DOMAIN w : Ahead(w, F, j, i) = d
                \/ \E k \in DOMAIN T : Ahead(w, F, j, i) = Ahead(T, E, j, k)
           /\ d >= 1 => \A n : Passed(T, E, j, n) => Passed(w, F, j, n)
<1> USE DEF PutInPlace
<1>1. /\ w \in Seq(Timer) /\ Len(w) = Len(T) + 1
      /\ \A k \in DOMAIN w : /\ k < p => k \in DOMAIN T /\ w[k] = T[k]
                             /\ k = p => w[k] = t
                             /\ k > p => k - 1 \in DOMAIN T /\ w[k] = T[k - 1]
  BY InsertedProperties
<1>2. /\ Len(T) \in Nat /\ DOMAIN T = 1 .. Len(T) /\ DOMAIN w = 1 .. Len(T) + 1 /\ p \in Int
      /\ \A i \in DOMAIN T : T[i] \in Timer /\ T[i] # t
  BY <1>1 DEF In
<1>3. ASSUME NEW k \in DOMAIN w
      PROVE  /\ k < p => k \in DOMAIN T /\ Ahead(w, F, j, k) = Ahead(T, E, j, k)
             /\ k = p => Ahead(w, F, j, k) = d
             /\ k > p => k - 1 \in DOMAIN T /\ Ahead(w, F, j, k) = Ahead(T, E, j, k - 1)
  BY <1>1, <1>2 DEF Ahead
<1>4. \A i, k \in DOMAIN T : i < k => Ahead(T, E, j, i) <= Ahead(T, E, j, k)
  BY DEF Orderly
<1>5. ASSUME NEW i \in DOMAIN T, p <= i PROVE Ahead(T, E, j, i) > d
  <2>1. p \in DOMAIN T /\ Ahead(T, E, j, p) > d
    BY <1>2, <1>5
  <2>2. p = i \/ Ahead(T, E, j, p) <= Ahead(T, E, j, i)
    BY <1>2, <1>4, <1>5, <2>1
  <2> QED
    BY <2>1, <2>2
<1>6. Orderly(w, F, j)
  <2>1. SUFFICES ASSUME NEW k \in DOMAIN w, NEW l \in DOMAIN w, k < l
                 PROVE  Ahead(w, F, j, k) <= Ahead(w, F, j, l)
    BY DEF Orderly
  <2>2. k \in Int /\ l \in Int
    BY <1>2
  <2>3. CASE l < p
    BY <1>3, <1>4, <2>1, <2>2, <2>3
  <2>4. CASE l = p
    BY <1>2, <1>3, <2>1, <2>2, <2>4
  <2>5. CASE l > p /\ k < p
    <3>1. /\ Ahead(w, F, j, k) = Ahead(T, E, j, k) /\ k \in DOMAIN T /\ Ahead(T, E, j, k) <= d
          /\ Ahead(w, F, j, l) = Ahead(T, E, j, l - 1) /\ l - 1 \in DOMAIN T
      BY <1>3, <2>5
    <3>2. Ahead(T, E, j, l - 1) > d
      BY <1>2, <1>5, <2>2, <2>5, <3>1
    <3> QED
      BY <3>1, <3>2
  <2>6. CASE l > p /\ k = p
    <3>1. Ahead(w, F, j, k) = d /\ Ahead(w, F, j, l) = Ahead(T, E, j, l - 1) /\ l - 1 \in DOMAIN T
      BY <1>3, <2>6
    <3>2. Ahead(T, E, j, l - 1) > d
      BY <1>2, <1>5, <2>2, <2>6, <3>1
    <3> QED
      BY <3>1, <3>2
  <2>7. CASE k > p
    <3>1. /\ Ahead(w, F, j, k) = Ahead(T, E, j, k - 1) /\ k - 1 \in DOMAIN T
          /\ Ahead(w, F, j, l) = Ahead(T, E, j, l - 1) /\ l - 1 \in DOMAIN T
      BY <1>2, <1>3, <2>1, <2>2, <2>7
    <3> QED
      BY <1>4, <2>1, <2>2, <3>1
  <2> QED
    BY <1>2, <2>1, <2>2, <2>3, <2>4, <2>5, <2>6, <2>7
<1>7. \A i \in DOMAIN w : Ahead(w, F, j, i) = d
        \/ \E k \in DOMAIN T : Ahead(w, F, j, i) = Ahead(T, E, j, k)
  BY <1>2, <1>3
<1>8. ASSUME d >= 1, NEW n, Passed(T, E, j, n), NEW i \in DOMAIN w,
             \A k \in DOMAIN w : w[k] = n => i < k
      PROVE  Ahead(w, F, j, i) >= 1
  <2>1. i \in Int
    BY <1>2
  <2>2. \A k \in DOMAIN T : /\ k < p => k \in DOMAIN w /\ w[k] = T[k]
                            /\ k >= p => k + 1 \in DOMAIN w /\ w[k + 1] = T[k]
    <3>1. ASSUME NEW k \in DOMAIN T, k < p PROVE k \in DOMAIN w /\ w[k] = T[k]
      BY <1>1, <1>2, <3>1
    <3>2. ASSUME NEW k \in DOMAIN T, k >= p PROVE k + 1 \in DOMAIN w /\ w[k + 1] = T[k]
      <4>1. k + 1 \in DOMAIN w /\ k + 1 > p /\ (k + 1) - 1 = k
        BY <1>2, <3>2, SMTT(60)
      <4>2. w[k + 1] = T[(k + 1) - 1]
        BY <1>1, <4>1
      <4> QED
        BY <4>1, <4>2
    <3> QED
      BY <3>1, <3>2
  <2>3. CASE i < p
    <3>1. i \in DOMAIN T /\ Ahead(w, F, j, i) = Ahead(T, E, j, i)
      BY <1>3, <2>3
    <3>2. ASSUME NEW k \in DOMAIN T, T[k] = n PROVE i < k
      BY <1>2, <1>8, <2>1, <2>2, <2>3, <3>2
    <3> QED
      BY <1>8, <3>1, <3>2 DEF Passed
  <2>4. CASE i = p
    BY <1>3, <1>8, <2>4
  <2>5. CASE i > p
    <3>1. i - 1 \in DOMAIN T /\ Ahead(w, F, j, i) = Ahead(T, E, j, i - 1)
      BY <1>3, <2>5
    <3>2. ASSUME NEW k \in DOMAIN T, T[k] = n PROVE i - 1 < k
      <4>1. CASE k < p
        BY <1>2, <1>8, <2>1, <2>2, <3>2, <4>1
      <4>2. CASE k >= p
        <5>1. k + 1 \in DOMAIN w /\ w[k + 1] = n
          BY <2>2, <3>2, <4>2
        <5>2. i < k + 1
          BY <1>8, <5>1
        <5> QED
          BY <1>2, <2>1, <5>2
      <4> QED
        BY <1>2, <4>1, <4>2
    <3> QED
      BY <1>8, <3>1, <3>2 DEF Passed
  <2> QED
    BY <1>2, <2>1, <2>3, <2>4, <2>5
<1> QED
  BY <1>6, <1>7, <1>8 DEF Passed

\* add_timer keeps CInv.
LEMMA ArmKeepsClock ==
    ASSUME NEW D, Horizon(D), LInv, CInv(D), NEW t \in Timer, NEW d \in Delays, AddTimer(t, d)
    PROVE  CInv(D)'
<1> SUFFICES ASSUME ~meddled'
             PROVE  /\ Orderly(timers', expires', jiffies')
                    /\ Within(timers', expires', jiffies', walk'.list, D, back')
                    /\ walk'.list = "timers" => Passed(timers', expires', jiffies', walk'.next)
  BY ClockParts
<1> DEFINE e == (jiffies + d) % LongSpan
           p == AddPlace(t, e)
<1>1. /\ ~owed[t] /\ expires' = [expires EXCEPT ![t] = e] /\ timers' = InsertAt(timers, p, t)
      /\ UNCHANGED <<jiffies, back, walk, meddled>>
  BY DEF AddTimer
<1>2. /\ TypeOK /\ timers \in Seq(Timer) /\ Once(timers) /\ ~In(t, timers) /\ jiffies \in Clock
      /\ expires \in [Timer -> Clock] /\ e \in Clock /\ d \in 1 .. D
      /\ d <= Reach(D, back) /\ Reach(D, back) \in Nat /\ Reach(D, back) <= D
  <2>1. TypeOK /\ Booked(timers, running, owed, use)
    BY ListsBooked
  <2>2. Once(timers) /\ ~In(t, timers)
    BY <1>1, <2>1 DEF Booked
  <2>3. /\ d \in 1 .. D /\ d \in Int
        /\ d <= Reach(D, back) /\ Reach(D, back) \in Nat /\ Reach(D, back) <= D
    <3>1. back \in 0 .. MaxBack
      BY <2>1 DEF TypeOK
    <3>2. Reach(D, back) \in Nat /\ Reach(D, back) <= D /\ D - MaxBack <= Reach(D, back)
      BY <3>1, ReachProperties
    <3>3. D \in Nat /\ MaxBack \in Nat /\ d \in 1 .. D - MaxBack
      BY HorizonProperties
    <3> QED
      BY <3>2, <3>3
  <2>4. timers \in Seq(Timer) /\ jiffies \in Clock /\ expires \in [Timer -> Clock]
    BY <2>1 DEF TypeOK, Clock
  <2>5. e \in Clock
    BY <2>3, <2>4, TimersAssumption DEF Clock
  <2> QED
    BY <2>1, <2>2, <2>3, <2>4, <2>5
<1>3. /\ Orderly(timers, expires, jiffies)
      /\ Within(timers, expires, jiffies, walk.list, D, back)
      /\ walk.list = "timers" => Passed(timers, expires, jiffies, walk.next)
  BY <1>1, ClockParts
<1>4. /\ p \in 1 .. Len(timers) + 1
      /\ \A i \in DOMAIN timers : i < p => ~TimeAfter(expires[timers[i]], e)
      /\ p \in DOMAIN timers => TimeAfter(expires[timers[p]], e)
  BY <1>2, AddPlaceProperties
<1>5. Off(e, jiffies) = d
  BY <1>2, ArmedAhead
<1> HIDE DEF e, p
<1>6. D \in Nat /\ Farther(D) \in Nat /\ D <= Farther(D) /\ d \in Int /\ 1 <= d /\ d <= D
  BY <1>2, HorizonProperties
<1>7. ASSUME NEW i \in DOMAIN timers
      PROVE  /\ Ahead(timers, expires, jiffies, i) \in 1 - Farther(D) .. D
             /\ Ahead(timers, expires, jiffies, i) \in Int
             /\ TimeAfter(expires[timers[i]], e) <=> Ahead(timers, expires, jiffies, i) > d
  <2>1. Ahead(timers, expires, jiffies, i)
          \in (IF walk.list = "timers" THEN 1 - Farther(D) ELSE 1) .. Reach(D, back)
    BY <1>3 DEF Within
  <2>2. Ahead(timers, expires, jiffies, i) \in 1 - Farther(D) .. D
    BY <1>2, <1>6, <2>1
  <2>3. expires[timers[i]] \in Clock
    BY <1>2
  <2>4. Off(expires[timers[i]], jiffies) \in 1 - Farther(D) .. D /\ Off(e, jiffies) \in 1 - Farther(D) .. D
    BY <1>5, <1>6, <2>2 DEF Ahead
  <2>5. TimeAfter(expires[timers[i]], e) <=> Off(expires[timers[i]], jiffies) > Off(e, jiffies)
    BY <1>2, <2>3, <2>4, AfterInReach
  <2> QED
    BY <1>5, <1>6, <2>2, <2>5 DEF Ahead
<1>8. /\ \A i \in DOMAIN timers : i < p => Ahead(timers, expires, jiffies, i) <= d
      /\ p \in DOMAIN timers => Ahead(timers, expires, jiffies, p) > d
  BY <1>4, <1>6, <1>7
<1>9. /\ \A x \in Timer : x # t => expires'[x] = expires[x]
      /\ Off(expires'[t], jiffies) = d
  BY <1>1, <1>2, <1>5
<1>10. /\ Orderly(timers', expires', jiffies)
       /\ \A i \in DOMAIN timers' : Ahead(timers', expires', jiffies, i) = d
            \/ \E k \in DOMAIN timers :
                    Ahead(timers', expires', jiffies, i) = Ahead(timers, expires, jiffies, k)
       /\ \A n : Passed(timers, expires, jiffies, n) => Passed(timers', expires', jiffies, n)
  <2>1. /\ timers \in Seq(Timer) /\ Once(timers) /\ ~In(t, timers) /\ p \in 1 .. Len(timers) + 1
        /\ timers' = InsertAt(timers, p, t) /\ d \in Int /\ d >= 1
        /\ \A i \in DOMAIN timers : Ahead(timers, expires, jiffies, i) \in Int
        /\ Orderly(timers, expires, jiffies)
    BY <1>1, <1>2, <1>3, <1>4, <1>6, <1>7
  <2>2. /\ Orderly(timers', expires', jiffies)
        /\ \A i \in DOMAIN timers' : Ahead(timers', expires', jiffies, i) = d
             \/ \E k \in DOMAIN timers :
                     Ahead(timers', expires', jiffies, i) = Ahead(timers, expires, jiffies, k)
        /\ d >= 1 => \A n : Passed(timers, expires, jiffies, n) => Passed(timers', expires', jiffies, n)
    <3>1. PutInPlace(timers, p, t, timers', expires, expires', jiffies, d)
      BY <1>8, <1>9, <2>1 DEF PutInPlace
    <3> QED
      BY <2>1, <3>1, OrderlyInserted
  <2> QED
    BY <2>1, <2>2, Zenon
<1>11. Within(timers', expires', jiffies, walk.list, D, back)
  <2>1. SUFFICES ASSUME NEW i \in DOMAIN timers'
                 PROVE  Ahead(timers', expires', jiffies, i)
                          \in (IF walk.list = "timers" THEN 1 - Farther(D) ELSE 1) .. Reach(D, back)
    BY DEF Within
  <2>2. CASE Ahead(timers', expires', jiffies, i) = d
    BY <1>2, <1>6, <2>2
  <2>3. CASE \E k \in DOMAIN timers :
                  Ahead(timers', expires', jiffies, i) = Ahead(timers, expires, jiffies, k)
    BY <1>3, <2>3 DEF Within
  <2> QED
    BY <1>10, <2>2, <2>3
<1> QED
  BY <1>1, <1>3, <1>10, <1>11

\* The facts about a timer of the list that the steps of increment_time need.
LEMMA WaitingTimer ==
    ASSUME NEW D, Horizon(D), LInv, CInv(D), ~meddled, NEW i \in DOMAIN timers
    PROVE  /\ timers[i] \in Timer /\ expires[timers[i]] \in Clock /\ jiffies \in Clock
           /\ Ahead(timers, expires, jiffies, i) \in 1 - Farther(D) .. D
           /\ walk.list # "timers" => Ahead(timers, expires, jiffies, i) \in 1 .. D
           /\ Ahead(timers, expires, jiffies, i) <= Reach(D, back)
           /\ back \in 0 .. MaxBack /\ Reach(D, back) \in Nat
           /\ TimeBefore(jiffies, expires[timers[i]]) <=> Ahead(timers, expires, jiffies, i) >= 1
<1>1. D \in Nat /\ Farther(D) \in Nat /\ D <= Farther(D)
  BY HorizonProperties
<1>2. /\ timers[i] \in Timer /\ expires[timers[i]] \in Clock /\ jiffies \in Clock
      /\ back \in 0 .. MaxBack
  BY DEF LInv, TypeOK, Clock
<1>3. Ahead(timers, expires, jiffies, i)
        \in (IF walk.list = "timers" THEN 1 - Farther(D) ELSE 1) .. Reach(D, back)
  BY ClockParts DEF Within
<1>4. /\ Ahead(timers, expires, jiffies, i) \in 1 - Farther(D) .. D
      /\ walk.list # "timers" => Ahead(timers, expires, jiffies, i) \in 1 .. D
      /\ Ahead(timers, expires, jiffies, i) <= Reach(D, back) /\ Reach(D, back) \in Nat
  <2>1. Reach(D, back) \in Nat /\ Reach(D, back) <= D
    BY <1>2, ReachProperties
  <2> QED
    BY <1>1, <1>3, <2>1
<1>5. TimeBefore(jiffies, expires[timers[i]]) <=> Off(expires[timers[i]], jiffies) >= 1
  <2>1. Off(expires[timers[i]], jiffies) \in 1 - Farther(D) .. D
    BY <1>4 DEF Ahead
  <2> QED
    BY <1>2, <2>1, DueInReach
<1> QED
  BY <1>2, <1>4, <1>5 DEF Ahead

\* A timer increment_time visits is the first one of the list: what callbacks put in
\* front of it would be due before it is.
LEMMA VisitKeepsClock ==
    ASSUME NEW D, Horizon(D), LInv, CInv(D), Visit
    PROVE  CInv(D)'
<1> SUFFICES ASSUME ~meddled'
             PROVE  /\ Orderly(timers', expires', jiffies')
                    /\ Within(timers', expires', jiffies', walk'.list, D, back')
                    /\ walk'.list = "timers" => Passed(timers', expires', jiffies', walk'.next)
  BY ClockParts
<1> DEFINE t == walk.next
<1>1. /\ at = "walk" /\ In(t, Walked) /\ timers' = Without(timers, t)
      /\ walk.list = "timers" => ~TimeBefore(jiffies, expires[t])
      /\ walk' = [walk EXCEPT !.next = NextOf(Walked, t), !.timer = t]
      /\ UNCHANGED <<jiffies, back, expires, meddled>>
  BY DEF Visit
<1>2. /\ timers \in Seq(Timer) /\ Once(timers) /\ walk \in WalkState
  BY ListsBooked DEF TypeOK, Booked, WalkState
<1>3. walk'.list = walk.list /\ walk'.next = NextOf(Walked, t)
  BY <1>1, <1>2 DEF WalkState
<1>4. Orderly(timers, expires, jiffies) /\ Within(timers, expires, jiffies, walk.list, D, back)
      /\ (walk.list = "timers" => Passed(timers, expires, jiffies, t))
  BY <1>1, ClockParts
<1>5. Orderly(timers', expires, jiffies) /\ Within(timers', expires, jiffies, walk.list, D, back)
  BY <1>1, <1>2, <1>4, OrderlyWithout
<1>6. ASSUME walk.list = "timers" PROVE Passed(timers', expires', jiffies', walk'.next)
  <2>1. Walked = timers /\ In(t, timers)
    BY <1>1, <1>6 DEF Walked
  <2>2. PICK m \in DOMAIN timers : timers[m] = t
    BY <2>1 DEF In
  <2>3. Len(timers) \in Nat /\ DOMAIN timers = 1 .. Len(timers) /\ m \in Int
    BY <1>2
  <2>4. Ahead(timers, expires, jiffies, m) \in Int /\ Ahead(timers, expires, jiffies, m) < 1
    BY <1>1, <1>6, <2>2, WaitingTimer
  <2>5. m = 1
    <3>1. SUFFICES ASSUME 1 < m PROVE FALSE
      BY <2>3
    <3>2. 1 \in DOMAIN timers /\ \A k \in DOMAIN timers : timers[k] = t => 1 < k
      BY <1>2, <2>2, <2>3, <3>1 DEF Once
    <3>3. Ahead(timers, expires, jiffies, 1) >= 1
      BY <1>4, <1>6, <3>2 DEF Passed
    <3>4. Ahead(timers, expires, jiffies, 1) <= Ahead(timers, expires, jiffies, m)
      BY <1>4, <3>1, <3>2 DEF Orderly
    <3>5. Ahead(timers, expires, jiffies, 1) \in Int
      BY <1>1, <3>2, WaitingTimer
    <3> QED
      BY <2>4, <3>3, <3>4, <3>5
  <2>6. t = First(timers)
    BY <2>2, <2>3, <2>5 DEF First
  <2>7. walk'.next = First(timers')
    BY <1>1, <1>2, <1>3, <2>1, <2>6, NextOfProperties
  <2>8. timers' \in Seq(Timer)
    BY <1>1, <1>2, WithoutProperties
  <2>9. SUFFICES ASSUME NEW k \in DOMAIN timers', \A l \in DOMAIN timers' : timers'[l] = walk'.next => k < l
                 PROVE  FALSE
    BY DEF Passed
  <2>10. 1 \in DOMAIN timers' /\ walk'.next = timers'[1] /\ 1 <= k
    BY <2>7, <2>8, <2>9 DEF First
  <2>11. k < 1
    BY <2>9, <2>10
  <2>12. k \in Int
    BY <2>8
  <2> QED
    BY <2>10, <2>11, <2>12
<1> QED
  BY <1>1, <1>3, <1>5, <1>6

\* increment_time stops at a timer that is not due, or at the end of the list: none that
\* is due is left.
LEMMA WalkEndKeepsClock ==
    ASSUME NEW D, Horizon(D), LInv, CInv(D), WalkEnds
    PROVE  CInv(D)'
<1> SUFFICES ASSUME ~meddled'
             PROVE  /\ Orderly(timers', expires', jiffies')
                    /\ Within(timers', expires', jiffies', walk'.list, D, back')
                    /\ walk'.list = "timers" => Passed(timers', expires', jiffies', walk'.next)
  BY ClockParts
<1>1. /\ at = "walk" /\ walk' = NoWalk
      /\ \/ walk.next = ListHead
         \/ walk.next # ListHead /\ walk.list = "timers" /\ TimeBefore(jiffies, expires[walk.next])
      /\ UNCHANGED <<jiffies, back, timers, expires, meddled>>
  BY DEF WalkEnds, lists
<1>2. walk'.list = "none" /\ timers \in Seq(Timer)
  BY <1>1 DEF NoWalk, LInv, TypeOK
<1>3. Orderly(timers, expires, jiffies) /\ Within(timers, expires, jiffies, walk.list, D, back)
      /\ (walk.list = "timers" => Passed(timers, expires, jiffies, walk.next))
  BY <1>1, ClockParts
<1>4. ASSUME NEW i \in DOMAIN timers PROVE Ahead(timers, expires, jiffies, i) \in 1 .. Reach(D, back)
  <2>1. /\ Ahead(timers, expires, jiffies, i) \in 1 - Farther(D) .. D
        /\ walk.list # "timers" => Ahead(timers, expires, jiffies, i) \in 1 .. D
        /\ Ahead(timers, expires, jiffies, i) <= Reach(D, back) /\ Reach(D, back) \in Nat
        /\ timers[i] # ListHead
    BY <1>1, WaitingTimer, TimersAssumption
  <2>2. D \in Nat /\ Farther(D) \in Nat
    BY HorizonProperties
  <2>3. SUFFICES ASSUME walk.list = "timers" PROVE Ahead(timers, expires, jiffies, i) >= 1
    BY <2>1, <2>2
  <2>4. CASE walk.next = ListHead
    <3>1. \A k \in DOMAIN timers : timers[k] # walk.next
      BY <1>2, <2>4, TimersAssumption
    <3> QED
      BY <1>3, <2>3, <3>1 DEF Passed
  <2>5. CASE walk.next # ListHead /\ TimeBefore(jiffies, expires[walk.next])
    <3>1. PICK m \in DOMAIN timers : timers[m] = walk.next
      BY <1>1, <2>3, <2>5 DEF LInv, NextIsThere, Walked, In
    <3>2. Ahead(timers, expires, jiffies, m) >= 1 /\ Ahead(timers, expires, jiffies, m) \in Int
      BY <1>1, <2>5, <3>1, WaitingTimer
    <3>3. CASE i < m
      <4>1. \A k \in DOMAIN timers : timers[k] = walk.next => i < k
        BY <3>1, <3>3, ListsBooked DEF Booked, Once
      <4> QED
        BY <1>3, <2>3, <4>1 DEF Passed
    <3>4. CASE m < i
      <4>1. Ahead(timers, expires, jiffies, m) <= Ahead(timers, expires, jiffies, i)
        BY <1>3, <3>1, <3>4 DEF Orderly
      <4> QED
        BY <2>1, <2>2, <3>2, <4>1
    <3>5. i < m \/ m < i \/ i = m
      BY <1>2
    <3> QED
      BY <3>2, <3>3, <3>4, <3>5
  <2> QED
    BY <1>1, <2>4, <2>5
<1> QED
  BY <1>1, <1>2, <1>3, <1>4 DEF Within

\* The clock moves by c: forwards, no farther than the horizon, or back by what is left
\* of the bound, which is counted; or nothing waits that it could pass.
ClockMoves(c, D) ==
    /\ jiffies' = (jiffies + c) % LongSpan
    /\ \/ timers = <<>> \/ meddled
       \/ c \in 0 .. Farther(D) /\ back' = back
       \/ -c \in 1 .. (MaxBack - back) /\ back' = back - c

\* The clock moves and the walk begins.
LEMMA AdvanceKeepsClock ==
    ASSUME NEW D, Horizon(D), LInv, CInv(D), at = "prompt", NEW c \in Int,
           ClockMoves(c, D), Walk("timers", "end"), UNCHANGED lists
    PROVE  CInv(D)'
<1> SUFFICES ASSUME ~meddled'
             PROVE  /\ Orderly(timers', expires', jiffies')
                    /\ Within(timers', expires', jiffies', walk'.list, D, back')
                    /\ walk'.list = "timers" => Passed(timers', expires', jiffies', walk'.next)
  BY ClockParts
<1>1. /\ UNCHANGED <<timers, expires, meddled>> /\ walk'.list = "timers" /\ walk'.next = First(timers)
      /\ timers \in Seq(Timer) /\ walk.list = "none"
  BY DEF Walk, lists, LInv, WalkSound, TypeOK
<1>2. D \in Nat /\ Farther(D) \in Nat /\ MaxBack \in Nat /\ D <= Farther(D)
  BY HorizonProperties
<1>3. ASSUME NEW i \in DOMAIN timers
      PROVE  /\ Ahead(timers, expires, jiffies', i) = Ahead(timers, expires, jiffies, i) - c
             /\ Ahead(timers, expires, jiffies, i) \in Int
             /\ Ahead(timers, expires, jiffies, i) - c \in 1 - Farther(D) .. Reach(D, back')
  <2>1. /\ expires[timers[i]] \in Clock /\ jiffies \in Clock /\ back \in 0 .. MaxBack
        /\ Ahead(timers, expires, jiffies, i) \in 1 .. D
        /\ Ahead(timers, expires, jiffies, i) <= Reach(D, back)
    BY <1>1, WaitingTimer
  <2>2. /\ Ahead(timers, expires, jiffies, i) - c \in 1 - Farther(D) .. Reach(D, back')
        /\ back' \in 0 .. MaxBack
    <3>1. CASE c \in 0 .. Farther(D) /\ back' = back
      BY <1>2, <2>1, <3>1 DEF Reach
    <3>2. CASE -c \in 1 .. (MaxBack - back) /\ back' = back - c
      BY <1>2, <2>1, <3>2 DEF Reach
    <3> QED
      BY <1>1, <3>1, <3>2 DEF ClockMoves
  <2>3. Reach(D, back') <= D /\ Reach(D, back') \in Nat
    BY <2>2, ReachProperties
  <2>4. /\ Off(expires[timers[i]], jiffies) \in 1 .. D
        /\ Off(expires[timers[i]], jiffies) - c \in 1 - Farther(D) .. D
    BY <1>2, <2>1, <2>2, <2>3 DEF Ahead
  <2>5. Off(expires[timers[i]], (jiffies + c) % LongSpan) = Off(expires[timers[i]], jiffies) - c
    BY <2>1, <2>4, Nearer
  <2> QED
    BY <1>2, <2>1, <2>2, <2>5 DEF Ahead, ClockMoves
<1>4. Orderly(timers, expires, jiffies)
  BY <1>1, ClockParts
<1>5. Orderly(timers, expires, jiffies')
  <2>1. SUFFICES ASSUME NEW i \in DOMAIN timers, NEW k \in DOMAIN timers, i < k
                 PROVE  Ahead(timers, expires, jiffies', i) <= Ahead(timers, expires, jiffies', k)
    BY DEF Orderly
  <2>2. Ahead(timers, expires, jiffies, i) <= Ahead(timers, expires, jiffies, k)
    BY <1>4, <2>1 DEF Orderly
  <2> QED
    BY <1>2, <1>3, <2>2
<1>6. Within(timers, expires, jiffies', "timers", D, back')
  <2>1. SUFFICES ASSUME NEW i \in DOMAIN timers
                 PROVE  Ahead(timers, expires, jiffies', i) \in 1 - Farther(D) .. Reach(D, back')
    BY DEF Within
  <2> QED
    BY <1>2, <1>3
<1>7. Passed(timers, expires, jiffies', First(timers))
  <2>1. SUFFICES ASSUME NEW i \in DOMAIN timers, \A k \in DOMAIN timers : timers[k] = First(timers) => i < k
                 PROVE  FALSE
    BY DEF Passed
  <2>2. 1 \in DOMAIN timers /\ First(timers) = timers[1] /\ i \in Int /\ 1 <= i
    BY <1>1 DEF First
  <2>3. i < 1
    BY <2>1, <2>2
  <2> QED
    BY <2>2, <2>3
<1> QED
  BY <1>1, <1>5, <1>6, <1>7

\* How far the time command moves the clock, as increment_time gets it.
LEMMA StepOfTheClock ==
    ASSUME NEW D, Horizon(D), LInv, CInv(D),
           (\E n \in Seconds : TimeAdvance(n) \/ TimeAdvance(-n) \/ TimeSet(n)) \/ TimeInfinity
    PROVE  /\ at = "prompt" /\ Walk("timers", "end") /\ UNCHANGED <<lists, dead>>
           /\ \E c \in Int : ClockMoves(c, D)
<1>1. /\ D \in Nat /\ Farther(D) \in Nat /\ MaxAdvance <= Farther(D) /\ Farther(D) < IntSpan
      /\ IntSpan \in Nat \ {0} /\ LongSpan \in Nat \ {0} /\ LongSpan % IntSpan = 0 /\ MaxAdvance \in Nat
      /\ D <= Farther(D) /\ MaxBack \in Nat
  BY HorizonProperties
<1>2. jiffies \in Int /\ jiffies \in Clock /\ back \in 0 .. MaxBack
  BY DEF LInv, TypeOK, Clock
<1>3. ASSUME NEW inc \in Int, inc \in 0 .. MaxAdvance PROVE inc % IntSpan = inc
  BY <1>1, <1>3
<1>4. ASSUME NEW inc \in Int, inc \in 0 .. MaxAdvance, IncrementTime(inc), UNCHANGED back
      PROVE  ClockMoves(inc, D)
  BY <1>1, <1>3, <1>4 DEF IncrementTime, ClockMoves
<1>5. ASSUME NEW n \in Int, TimeAdvance(n) PROVE \E c \in Int : ClockMoves(c, D)
  <2> DEFINE inc == (n * HZ) % IntSpan
  <2>1. HZ \in Int /\ n * HZ \in Int
    BY TimersAssumption
  <2>2. inc \in Int /\ 0 <= inc /\ inc < IntSpan /\ inc % IntSpan = inc /\ IntSpan <= LongSpan
    BY <1>1, <2>1, TimersAssumption
  <2>3. /\ jiffies' = (jiffies + inc) % LongSpan
        /\ \/ inc <= MaxAdvance /\ UNCHANGED back
           \/ LongSpan - inc <= MaxBack - back /\ back' = back + (LongSpan - inc)
    BY <1>5 DEF TimeAdvance, IncrementTime
  <2> HIDE DEF inc
  <2>4. CASE inc <= MaxAdvance /\ UNCHANGED back
    <3>1. ClockMoves(inc, D)
      BY <1>1, <2>2, <2>3, <2>4 DEF ClockMoves
    <3> QED
      BY <2>2, <3>1
  <2>5. CASE LongSpan - inc <= MaxBack - back /\ back' = back + (LongSpan - inc)
    <3> DEFINE c == inc - LongSpan
    <3>1. c \in Int /\ -c \in 1 .. (MaxBack - back) /\ back' = back - c
      BY <1>1, <1>2, <2>2, <2>5
    <3>2. (jiffies + c) % LongSpan = (jiffies + inc) % LongSpan
      <4>1. ASSUME NEW m \in Nat \ {0}, NEW x \in 0 .. 2 * m - 1
            PROVE  (x - m) % m = x % m
        <5>1. CASE x < m
          <6>1. x % m = x /\ (x - m) % m = x
            BY <4>1, <5>1
          <6> QED
            BY <6>1
        <5>2. CASE x >= m
          <6>1. x % m = x - m /\ (x - m) % m = x - m
            BY <4>1, <5>2
          <6> QED
            BY <6>1
        <5> QED
          BY <4>1, <5>1, <5>2
      <4>2. jiffies + c = (jiffies + inc) - LongSpan /\ jiffies + inc \in 0 .. 2 * LongSpan - 1
        BY <1>1, <1>2, <2>2 DEF Clock
      <4> QED
        BY <1>1, <4>1, <4>2
    <3>3. ClockMoves(c, D)
      BY <2>3, <3>1, <3>2 DEF ClockMoves
    <3> QED
      BY <3>1, <3>3
  <2> QED
    BY <2>3, <2>4, <2>5
<1>6. CASE \E n \in Seconds : TimeAdvance(n) \/ TimeAdvance(-n) \/ TimeSet(n)
  <2>1. PICK n \in Seconds : TimeAdvance(n) \/ TimeAdvance(-n) \/ TimeSet(n)
    BY <1>6
  <2>2. n \in Int /\ -n \in Int /\ HZ \in Int
    BY TimersAssumption DEF Seconds
  <2>3. at = "prompt" /\ Walk("timers", "end") /\ UNCHANGED <<lists, dead>>
    BY <2>1 DEF TimeAdvance, TimeSet, IncrementTime
  <2>4. CASE TimeSet(n)
    <3>1. n * HZ - jiffies \in Int /\ n * HZ - jiffies \in 0 .. MaxAdvance
      BY <1>1, <1>2, <2>2, <2>4 DEF TimeSet
    <3>2. ClockMoves(n * HZ - jiffies, D)
      BY <1>4, <2>4, <3>1 DEF TimeSet
    <3> QED
      BY <2>3, <3>1, <3>2
  <2> QED
    BY <1>5, <2>1, <2>2, <2>3, <2>4
<1>7. CASE TimeInfinity
  <2> DEFINE inc == FindLastTimer - jiffies
  <2>1. at = "prompt" /\ IncrementTime(inc) /\ UNCHANGED back
    BY <1>7 DEF TimeInfinity
  <2>2. inc \in Int
    BY <1>2 DEF FindLastTimer, LInv, TypeOK
  <2>3. inc % IntSpan \in Int
    BY <1>1, <2>2
  <2>4. ASSUME timers # <<>>, ~meddled PROVE inc % IntSpan \in 0 .. Farther(D)
    <3> DEFINE e == expires[timers[Len(timers)]]
    <3>1. Len(timers) \in DOMAIN timers
      BY <2>4 DEF LInv, TypeOK
    <3>2. walk.list = "none"
      BY <2>1 DEF LInv, WalkSound
    <3>3. e \in Clock /\ Off(e, jiffies) \in 1 .. D
      BY <2>4, <3>1, <3>2, WaitingTimer DEF Ahead
    <3>4. inc = e - jiffies
      BY <2>4 DEF FindLastTimer
    <3> HIDE DEF e, inc
    <3>5. \E k \in {-1, 0, 1} : inc = Off(e, jiffies) + k * LongSpan
      <4>1. \/ Off(e, jiffies) = inc \/ Off(e, jiffies) = inc - LongSpan \/ Off(e, jiffies) = inc + LongSpan
        BY <3>4 DEF Off
      <4> QED
        BY <1>1, <2>2, <3>3, <4>1
    <3>6. PICK k \in {-1, 0, 1} : inc = Off(e, jiffies) + k * LongSpan
      BY <3>5
    <3>7. LongSpan = IntSpan * (LongSpan \div IntSpan) /\ LongSpan \div IntSpan \in Int
      BY <1>1
    <3>8. inc = Off(e, jiffies) + (k * (LongSpan \div IntSpan)) * IntSpan
      BY <1>1, <3>3, <3>6, <3>7
    <3>9. ASSUME NEW r \in 0 .. (IntSpan - 1), NEW m \in Int PROVE (r + m * IntSpan) % IntSpan = r
      BY <1>1
    <3>10. Off(e, jiffies) \in 0 .. (IntSpan - 1) /\ k * (LongSpan \div IntSpan) \in Int
      BY <1>1, <3>3, <3>7
    <3>11. inc % IntSpan = Off(e, jiffies)
      BY <3>8, <3>9, <3>10
    <3> QED
      BY <1>1, <3>3, <3>11
  <2> HIDE DEF inc
  <2>5. ClockMoves(inc % IntSpan, D)
    BY <2>1, <2>4 DEF IncrementTime, ClockMoves
  <2> QED
    BY <2>1, <2>3, <2>5 DEF IncrementTime
<1> QED
  BY <1>6, <1>7

\* Every step keeps CInv.
LEMMA StepKeepsClock ==
    ASSUME NEW D, Horizon(D), LInv, CInv(D), [Next]_vars
    PROVE  CInv(D)'
<1>1. CASE \E t \in Timer, d \in Delays : AddTimer(t, d)
  BY <1>1, ArmKeepsClock
<1>2. CASE \E t \in Timer, s \in DelSite : DelTimer(t, s)
  BY <1>2, DeleteKeepsClock
<1>3. CASE Visit
  BY <1>3, VisitKeepsClock
<1>4. CASE WalkEnds
  BY <1>4, WalkEndKeepsClock
<1>5. CASE (\E n \in Seconds : TimeAdvance(n) \/ TimeAdvance(-n) \/ TimeSet(n)) \/ TimeInfinity
  BY <1>5, StepOfTheClock, AdvanceKeepsClock
<1>6. ASSUME UNCHANGED <<jiffies, back, timers, expires, meddled>>,
             \/ walk'.list = walk.list /\ walk'.next = walk.next
             \/ walk.list # "timers" /\ walk'.list = "running"
      PROVE  CInv(D)'
  <2> SUFFICES ASSUME ~meddled'
               PROVE  /\ Orderly(timers', expires', jiffies')
                      /\ Within(timers', expires', jiffies', walk'.list, D, back')
                      /\ walk'.list = "timers" => Passed(timers', expires', jiffies', walk'.next)
    BY ClockParts
  <2>1. Orderly(timers, expires, jiffies) /\ Within(timers, expires, jiffies, walk.list, D, back)
        /\ (walk.list = "timers" => Passed(timers, expires, jiffies, walk.next))
    BY <1>6, ClockParts
  <2>2. Within(timers, expires, jiffies, walk'.list, D, back)
    BY <1>6, <2>1 DEF Within
  <2> QED
    BY <1>6, <2>1, <2>2
<1>7. CASE \/ \E t \in Timer : DelIdleTimer(t)
           \/ VisitStale \/ StartCommand \/ ModuleFini \/ UNCHANGED vars
  BY <1>6, <1>7 DEF DelIdleTimer, VisitStale, StartCommand, ModuleFini, vars, lists
<1>8. CASE CallbackReturns
  BY <1>6, <1>8 DEF CallbackReturns, lists, LInv, TypeOK
<1>9. ASSUME NEW then, Walk("running", then), at \notin {"walk", "callback"}, UNCHANGED <<jiffies, back, lists>>
      PROVE  CInv(D)'
  BY <1>6, <1>9 DEF Walk, lists, LInv, WalkSound
<1>10. CASE EndCommand \/ ModuleUnload
  BY <1>9, <1>10 DEF EndCommand, ModuleUnload
<1>11. CASE Schedule
  <2>1. CASE Walk("running", "command") /\ at = "command" /\ UNCHANGED <<jiffies, back, lists>>
    BY <1>9, <2>1
  <2>2. CASE UNCHANGED <<at, walk, jiffies, back, lists>>
    BY <1>6, <2>2 DEF lists
  <2> QED
    BY <1>11, <2>1, <2>2 DEF Schedule
<1> QED
  BY <1>1, <1>2, <1>3, <1>4, <1>5, <1>7, <1>8, <1>10, <1>11, Zenon DEF Next

\* __timers stays in order and nothing that is due is passed over, within the horizon.
THEOREM ClockAlwaysOrders ==
    ASSUME NEW D, Horizon(D)
    PROVE  Spec => []CInv(D)
<1>1. Init => CInv(D)
  BY InitClock
<1>2. LInv /\ CInv(D) /\ [Next]_vars => CInv(D)'
  BY StepKeepsClock
<1> QED
  BY <1>1, <1>2, ListsAlwaysConsistent, PTL DEF Spec

\* Every arming is answered exactly once and in time (increment_time, do_running_timers,
\* __del_timer), for any number of timers and a clock of any span whose horizon the
\* delays respect.
THEOREM ArmingsAlwaysAnswered ==
    ASSUME NEW D, Horizon(D)
    PROVE  Spec => []ArmingsAnswered
<1>1. LInv /\ CInv(D) => ArmingsAnswered
  <2> SUFFICES ASSUME LInv, CInv(D) PROVE ArmingsAnswered
    OBVIOUS
  <2>1. OneFiringPerArming
    BY DEF LInv
  <2>2. ASSUME at = "prompt", ~meddled, NEW t \in Timer, In(t, timers)
        PROVE  TimeBefore(jiffies, expires[t])
    <3>1. PICK i \in DOMAIN timers : timers[i] = t
      BY <2>2 DEF In
    <3>2. walk.list # "timers"
      BY <2>2 DEF LInv, WalkSound
    <3>3. Ahead(timers, expires, jiffies, i) >= 1
      BY <2>2, <3>2, WaitingTimer
    <3> QED
      BY <2>2, <3>1, <3>3, WaitingTimer
  <2> QED
    BY <2>1, <2>2 DEF ArmingsAnswered, DueTimersRun
<1> QED
  BY <1>1, ListsAlwaysConsistent, ClockAlwaysOrders, PTL

\* As long as no callback deletes timers __timers is sorted across the wrap of the clock
\* and after `time +-n', and __running_timers is empty whenever a command is over or a
\* module's fini is called (__add_timer, do_running_timers, module_unload).
THEOREM ListsStaySound ==
    ASSUME NEW D, Horizon(D)
    PROVE  Spec => []ListsSound
<1>1. LInv /\ CInv(D) => ListsSound
  <2> SUFFICES ASSUME LInv, CInv(D) PROVE ListsSound
    OBVIOUS
  <2>1. TypeOK /\ NothingRunsAtPrompt /\ UnloadRunsPlainTimers
    BY DEF LInv, NextIsThere, NothingRunsAtPrompt, UnloadRunsPlainTimers, UnloadRunsRunningTimers
  <2>2. ASSUME ~meddled, NEW i \in DOMAIN timers, NEW j \in DOMAIN timers, i < j
        PROVE  ~TimeAfter(expires[timers[i]], expires[timers[j]])
    <3>1. Ahead(timers, expires, jiffies, i) <= Ahead(timers, expires, jiffies, j)
      BY <2>2, ClockParts DEF Orderly
    <3>2. /\ expires[timers[i]] \in Clock /\ expires[timers[j]] \in Clock /\ jiffies \in Clock
          /\ Ahead(timers, expires, jiffies, i) \in 1 - Farther(D) .. D
          /\ Ahead(timers, expires, jiffies, j) \in 1 - Farther(D) .. D
      BY <2>2, WaitingTimer
    <3>3. /\ Off(expires[timers[i]], jiffies) \in 1 - Farther(D) .. D
          /\ Off(expires[timers[j]], jiffies) \in 1 - Farther(D) .. D
      BY <3>2 DEF Ahead
    <3>4. TimeAfter(expires[timers[i]], expires[timers[j]]) <=>
            Off(expires[timers[i]], jiffies) > Off(expires[timers[j]], jiffies)
      BY <3>2, <3>3, AfterInReach
    <3>5. Off(expires[timers[i]], jiffies) \in Int /\ Off(expires[timers[j]], jiffies) \in Int
      BY <3>3, HorizonProperties
    <3> QED
      BY <3>1, <3>4, <3>5 DEF Ahead
  <2> QED
    BY <2>1, <2>2 DEF ListsSound, TimersSorted
<1> QED
  BY <1>1, ListsAlwaysConsistent, ClockAlwaysOrders, PTL

\* "Backwards time travel not implemented" (time_cmd): within the horizon only `time
\* +infinity' with nothing pending sets the clock back, and `time +-n', as far as it says.
THEOREM BackwardsAlwaysTold ==
    ASSUME NEW D, Horizon(D)
    PROVE  Spec => BackwardsOnlyWhenTold
<1>1. LInv /\ CInv(D) /\ [Next]_vars =>
        [TimeAfter(jiffies, jiffies') => timers = <<>> \/ meddled \/ back' > back]_vars
  <2> SUFFICES ASSUME LInv, CInv(D), [Next]_vars, timers # <<>>, ~meddled, ~(back' > back)
               PROVE  ~TimeAfter(jiffies, jiffies')
    OBVIOUS
  <2>1. jiffies \in Clock /\ back \in 0 .. MaxBack
    BY DEF LInv, TypeOK, Clock
  <2>2. CASE jiffies' = jiffies
    <3>1. Off(jiffies, jiffies) = 0
      BY <2>1, TimersAssumption DEF Off, Clock
    <3> QED
      BY <2>1, <2>2, <3>1, AfterIsAhead
  <2>3. CASE (\E n \in Seconds : TimeAdvance(n) \/ TimeAdvance(-n) \/ TimeSet(n)) \/ TimeInfinity
    <3>1. PICK c \in Int : ClockMoves(c, D)
      BY <2>3, StepOfTheClock
    <3>2. at = "prompt"
      BY <2>3, StepOfTheClock
    <3>3. jiffies' = (jiffies + c) % LongSpan /\ c \in 0 .. Farther(D)
      <4>1. ASSUME -c \in 1 .. (MaxBack - back), back' = back - c PROVE FALSE
        <5>1. MaxBack \in Nat
          BY HorizonProperties
        <5>2. back' > back
          BY <2>1, <3>1, <4>1, <5>1
        <5> QED
          BY <5>2
      <4> QED
        BY <3>1, <4>1 DEF ClockMoves
    <3>4. 1 \in DOMAIN timers /\ walk.list = "none"
      BY <3>2 DEF LInv, WalkSound, TypeOK
    <3>5. Ahead(timers, expires, jiffies, 1) \in 1 .. D
      BY <3>4, WaitingTimer
    <3>6. 1 <= D /\ Farther(D) \in Nat
      BY <3>5, HorizonProperties
    <3>7. jiffies' \in Clock /\ Off(jiffies', jiffies) = c
      BY <2>1, <3>3, <3>6, MovedAhead
    <3> QED
      BY <2>1, <3>3, <3>6, <3>7, AfterIsAhead
  <2>4. jiffies' = jiffies \/ (\E n \in Seconds : TimeAdvance(n) \/ TimeAdvance(-n) \/ TimeSet(n))
        \/ TimeInfinity
    BY DEF Next, vars, AddTimer, DelTimer, DelIdleTimer, Visit, CallbackReturns, VisitStale, WalkEnds,
           StartCommand, EndCommand, Schedule, ModuleUnload, ModuleFini
  <2> QED
    BY <2>2, <2>3, <2>4
<1> QED
  BY <1>1, ListsAlwaysConsistent, ClockAlwaysOrders, PTL DEF Spec, BackwardsOnlyWhenTold
=============================================================================
