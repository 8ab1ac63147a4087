--------------------------- MODULE Routing_proofs ---------------------------
(***************************************************************************)
(* Proofs about Routing, for every set of interfaces, addresses, networks  *)
(* and boot configuration and for tables and caches of every size.         *)
(*                                                                         *)
(* The three invariants of the run rest on what each cache entry was made  *)
(* from (CacheSound): an entry for a local address names the loopback      *)
(* device and hangs on a live in_device, one made from a route hangs on a  *)
(* route that is on the list, was not freed and leads to the entry's       *)
(* device.  As long as nothing was added, the entry is also the one that   *)
(* the tables give today: its in_device still has the address, or the      *)
(* route is the first that matches and no interface has the address.       *)
(* Removals preserve this because Kept leaves the order alone: what stands *)
(* in front of a route afterwards stood in front of it before.             *)
(***************************************************************************)
EXTENDS Routing, Lists_proofs

Entry == [dst : Addr, src : Addr, iif : 0..MaxIf, dev : 1..MaxIf,
          input : Handlers, output : Handlers,
          owner : [kind : {"indev", "route"}, id : Nat]]
Route == [id : 1..MaxRoute, net : SUBSET Addr, dev : 1..MaxIf, user : BOOLEAN]

\* The j-th route is the one a walk along the list finds for dst.
FirstMatch(dst, j) ==
    /\ dst \in routes[j].net
    /\ \A k \in DOMAIN routes : k < j => dst \notin routes[k].net

\* A cache entry for a local address.
IndevEntry(e) ==
    /\ e.owner.kind = "indev" /\ Live(e.owner.id)
    /\ e.iif = 0 /\ e.dev = loopback /\ e.input = "local" /\ e.output = "output"
    /\ ~added => /\ devs[e.owner.id].addr = e.dst
                 /\ \E i \in DOMAIN interfaces : interfaces[i] = e.owner.id

\* A cache entry made from a route.
RouteEntry(e) ==
    /\ e.owner.kind = "route" /\ e.owner.id \notin freed
    /\ \E j \in DOMAIN routes :
         /\ routes[j].id = e.owner.id /\ routes[j].dev = e.dev
         /\ ~added => FirstMatch(e.dst, j)
    /\ ~added => \A i \in DOMAIN interfaces : devs[interfaces[i]].addr # e.dst
    /\ e.output = "output"
    /\ \/ e.iif = 0 /\ e.input = "none"
       \/ e.iif = e.dev /\ e.input = "forward"

CacheSound == \A i \in DOMAIN rcache : IndevEntry(rcache[i]) \/ RouteEntry(rcache[i])

\* Routes made with a device go with it, and nothing else is on the list before
\* something is added.
RoutesSound ==
    /\ \A j \in DOMAIN routes : ~routes[j].user => Live(routes[j].dev)
    /\ ~added => freed = {} /\ \A j \in DOMAIN routes : ~routes[j].user

IInv ==
    /\ TypeOK
    /\ Len(interfaces) < ifindex_counter
    /\ RoutesSound
    /\ CacheSound
    /\ EntryHasHandler /\ WildHasACause /\ RemovalKeepsCacheTrue

\* What freed memory may be used after (WildHasACause).
Cause ==
    \/ ~Live(loopback)
    \/ freed # {}
    \/ \E j \in DOMAIN routes : routes[j].user /\ ~Live(routes[j].dev)

-----------------------------------------------------------------------------
(* Lookups. *)

\* The fields of a route on the list.
LEMMA RouteFields ==
    ASSUME TypeOK
    PROVE  /\ routes \in Seq(Route)
           /\ \A j \in DOMAIN routes : routes[j].dev \in 1..MaxIf /\ routes[j].id \in Nat
<1>1. routes \in Seq(Route)
  BY DEF TypeOK, Route
<1>2. \A j \in DOMAIN routes : routes[j] \in Route
  BY <1>1
<1>3. \A r \in Route : r.dev \in 1..MaxIf /\ r.id \in Nat
  BY RoutingAssumption DEF Route
<1> QED
  BY <1>1, <1>2, <1>3

\* FirstIn chooses the least place.
LEMMA FirstInIsFirst ==
    ASSUME NEW S, S \subseteq Nat, S # {}
    PROVE  FirstIn(S) \in S /\ \A j \in S : FirstIn(S) <= j
<1>1. \E i \in S : \A j \in S : i <= j
  BY Least, Zenon
<1> QED
  BY <1>1, Zenon DEF FirstIn

\* An interface found by its name is a live device.
LEMMA NamedIsLive ==
    ASSUME TypeOK, NEW nm, InterfaceByName(nm) # 0
    PROVE  Live(InterfaceByName(nm))
<1> DEFINE named == {i \in DOMAIN interfaces : devs[interfaces[i]].name = nm}
<1>1. named # {} /\ InterfaceByName(nm) = interfaces[FirstIn(named)]
  BY Zenon DEF InterfaceByName, FirstIn
<1>2. interfaces \in Seq(DOMAIN devs)
  BY DEF TypeOK
<1>3. named \subseteq DOMAIN interfaces /\ DOMAIN interfaces \subseteq Nat
  BY <1>2
<1>4. FirstIn(named) \in named
  <2> HIDE DEF named
  <2> QED
    BY <1>1, <1>3, FirstInIsFirst
<1>5. FirstIn(named) \in DOMAIN interfaces
  BY <1>3, <1>4, Zenon
<1> QED
  BY <1>1, <1>2, <1>5 DEF Live

\* What Search finds: a live device with the address, a route that is not freed and is
\* the first to match; when it runs into freed memory there is a cause.
LEMMA SearchFinds ==
    ASSUME TypeOK, RoutesSound, NEW dst \in Addr
    PROVE  LET t == Search(dst)
           IN  /\ t.how \in {"local", "route", "none", "wild"}
               /\ t.how = "local" =>
                    /\ Live(t.dev) /\ devs[t.dev].addr = dst
                    /\ \E i \in DOMAIN interfaces : interfaces[i] = t.dev
               /\ t.how = "route" =>
                    /\ \A i \in DOMAIN interfaces : devs[interfaces[i]].addr # dst
                    /\ Live(t.dev) /\ t.id \notin freed
                    /\ \E j \in DOMAIN routes :
                         routes[j].id = t.id /\ routes[j].dev = t.dev /\ FirstMatch(dst, j)
               /\ t.how = "wild" => Cause
<1> DEFINE t == Search(dst)
<1>1. /\ interfaces \in Seq(DOMAIN devs) /\ routes \in Seq(Route)
      /\ DOMAIN interfaces \subseteq Nat /\ DOMAIN routes \subseteq Nat
  BY DEF TypeOK, Route
<1>2. CASE LocalDevs(dst) # {}
  <2> DEFINE k == FirstIn(LocalDevs(dst))
  <2>1. t = [how |-> "local", dev |-> interfaces[k], id |-> 0]
    BY <1>2, Zenon DEF Search
  <2>2. k \in LocalDevs(dst)
    <3>1. LocalDevs(dst) \subseteq Nat
      BY <1>1 DEF LocalDevs
    <3> QED
      BY <1>2, <3>1, FirstInIsFirst, Zenon
  <2> HIDE DEF k
  <2>3. k \in DOMAIN interfaces /\ devs[interfaces[k]].addr = dst
    BY <2>2 DEF LocalDevs
  <2>4. t.how = "local" /\ t.dev = interfaces[k]
    BY <2>1
  <2>5. interfaces[k] \in DOMAIN devs
    BY <1>1, <2>3
  <2> QED
    BY <2>3, <2>4, <2>5 DEF Live
<1>3. CASE LocalDevs(dst) = {} /\ WalkIsWild(dst)
  <2>1. t.how = "wild"
    BY <1>3 DEF Search
  <2>2. freed # {}
    BY <1>3, Zenon DEF WalkIsWild
  <2> QED
    BY <2>1, <2>2 DEF Cause
<1>4. CASE LocalDevs(dst) = {} /\ ~WalkIsWild(dst) /\ Matching(dst) = {}
  BY <1>4 DEF Search
<1>5. CASE LocalDevs(dst) = {} /\ ~WalkIsWild(dst) /\ Matching(dst) # {}
  <2> DEFINE j == FirstIn(Matching(dst))
  <2>1. t = [how |-> IF Live(routes[j].dev) THEN "route" ELSE "wild",
             dev |-> routes[j].dev, id |-> routes[j].id]
    BY <1>5, Zenon DEF Search
  <2>2. j \in Matching(dst) /\ \A k \in Matching(dst) : j <= k
    <3>1. Matching(dst) \subseteq Nat
      BY <1>1 DEF Matching
    <3> QED
      BY <1>5, <3>1, FirstInIsFirst, Zenon
  <2>3. routes[j].id \notin freed
    <3>1. j \in DOMAIN routes /\ j \in Nat /\ j <= j
      BY <1>1, <2>2 DEF Matching
    <3> QED
      BY <1>5, <3>1, Zenon DEF WalkIsWild
  <2> HIDE DEF j
  <2>4. j \in DOMAIN routes /\ FirstMatch(dst, j)
    BY <1>1, <2>2 DEF Matching, FirstMatch
  <2>5. /\ t.how = IF Live(routes[j].dev) THEN "route" ELSE "wild"
        /\ t.dev = routes[j].dev /\ t.id = routes[j].id
    BY <2>1
  <2>6. \A i \in DOMAIN interfaces : devs[interfaces[i]].addr # dst
    BY <1>5 DEF LocalDevs
  <2>7. CASE Live(routes[j].dev)
    BY <2>3, <2>4, <2>5, <2>6, <2>7
  <2>8. CASE ~Live(routes[j].dev)
    <3>1. routes[j].user
      BY <2>4, <2>8 DEF RoutesSound
    <3> QED
      BY <2>4, <2>5, <2>8, <3>1 DEF Cause
  <2> QED
    BY <2>7, <2>8
<1> QED
  BY <1>2, <1>3, <1>4, <1>5

\* Before anything is added, an entry of the cache is what Search finds.
LEMMA EntryIsFound ==
    ASSUME TypeOK, RoutesSound, ~added, NEW e \in Entry
    PROVE  /\ IndevEntry(e) => Search(e.dst).how = "local"
           /\ RouteEntry(e) => Search(e.dst).how = "route" /\ Search(e.dst).dev = e.dev
<1>1. /\ interfaces \in Seq(DOMAIN devs) /\ routes \in Seq(Route)
      /\ DOMAIN interfaces \subseteq Nat /\ DOMAIN routes \subseteq Nat
  BY DEF TypeOK, Route
<1>2. ASSUME IndevEntry(e)
      PROVE  Search(e.dst).how = "local"
  <2>1. LocalDevs(e.dst) # {}
    BY <1>2 DEF IndevEntry, LocalDevs
  <2> QED
    BY <2>1 DEF Search
<1>3. ASSUME RouteEntry(e)
      PROVE  Search(e.dst).how = "route" /\ Search(e.dst).dev = e.dev
  <2>1. LocalDevs(e.dst) = {} /\ freed = {}
    BY <1>3 DEF RouteEntry, LocalDevs, RoutesSound
  <2>2. PICK j \in DOMAIN routes : routes[j].dev = e.dev /\ FirstMatch(e.dst, j)
    BY <1>3 DEF RouteEntry
  <2>3. ~WalkIsWild(e.dst)
    BY <2>1, Zenon DEF WalkIsWild
  <2>4. j \in Matching(e.dst) /\ Matching(e.dst) \subseteq DOMAIN routes
    BY <2>2 DEF Matching, FirstMatch
  <2>5. FirstIn(Matching(e.dst)) = j
    <3> DEFINE m == FirstIn(Matching(e.dst))
    <3>1. m \in Matching(e.dst) /\ m <= j
      <4>1. Matching(e.dst) \subseteq Nat /\ Matching(e.dst) # {}
        BY <1>1, <2>4
      <4> QED
        BY <2>4, <4>1, FirstInIsFirst, Zenon
    <3> HIDE DEF m
    <3>2. ~(m < j)
      BY <2>2, <2>4, <3>1 DEF Matching, FirstMatch
    <3>3. m = j
      BY <1>1, <2>4, <3>1, <3>2
    <3> QED
      BY <3>3 DEF m
  <2>6. Live(routes[j].dev)
    BY DEF RoutesSound
  <2> QED
    BY <2>1, <2>2, <2>3, <2>4, <2>5, <2>6 DEF Search
<1> QED
  BY <1>2, <1>3

\* What an invariant needs to know of a lookup: its result and the one that an empty
\* cache had given.
LookupSound(dir, res, fresh) ==
    /\ res.how \in {"hit", "new", "none", "wild"}
    /\ Via(res) \in Fate /\ Via(fresh) \in Fate
    /\ res.cached \in BOOLEAN
    /\ res.cached => res.rt \in Entry /\ (IndevEntry(res.rt) \/ RouteEntry(res.rt))
    /\ res.how = "wild" => Cause
    /\ res.how \in {"hit", "new"} /\ ~Live(res.rt.dev) => Cause
    /\ dir = "in" /\ res.how \in {"hit", "new"} => res.rt.input # "none"
    /\ dir = "out" /\ res.how \in {"hit", "new"} => res.rt.output # "none"
    /\ ~added => Via(res) = Via(fresh)

\* A hit is an entry for this destination and this interface; when its device is gone
\* there is a cause.
LEMMA HitIsSound ==
    ASSUME IInv, NEW dst, NEW src, NEW iif, Hits(rcache, dst, src, iif) # {}
    PROVE  LET e == rcache[FirstIn(Hits(rcache, dst, src, iif))]
           IN  /\ e \in Entry /\ e.dst = dst /\ e.iif = iif
               /\ IndevEntry(e) \/ RouteEntry(e)
               /\ ~Live(e.dev) => Cause
<1> DEFINE H == Hits(rcache, dst, src, iif)
           k == FirstIn(H)
           e == rcache[k]
<1>1. rcache \in Seq(Entry) /\ DOMAIN rcache \subseteq Nat
  BY DEF IInv, TypeOK, Entry
<1>2. H \subseteq DOMAIN rcache
  BY DEF Hits
<1>3. k \in H
  <2>1. H \subseteq Nat
    BY <1>1, <1>2, Zenon
  <2> QED
    BY <2>1, FirstInIsFirst, Zenon
<1>4. k \in DOMAIN rcache
  BY <1>2, <1>3, Zenon
<1>5. e.dst = dst /\ e.iif = iif
  BY <1>3 DEF Hits
<1> HIDE DEF k
<1>6. e \in Entry
  BY <1>1, <1>4
<1>7. IndevEntry(e) \/ RouteEntry(e)
  BY <1>4 DEF IInv, CacheSound
<1>8. ASSUME ~Live(e.dev)
      PROVE  Cause
  <2>1. CASE IndevEntry(e)
    BY <1>8, <2>1 DEF IndevEntry, Cause
  <2>2. CASE RouteEntry(e)
    <3>1. PICK j \in DOMAIN routes : routes[j].dev = e.dev
      BY <2>2 DEF RouteEntry
    <3>2. routes[j].user
      BY <1>8, <3>1 DEF IInv, RoutesSound
    <3> QED
      BY <1>8, <3>1, <3>2 DEF Cause
  <2> QED
    BY <1>7, <2>1, <2>2
<1> QED
  BY <1>5, <1>6, <1>7, <1>8 DEF k

\* The handlers a packet needs and the way it takes, by the cache entry it is given.
Serves(dir, rt) ==
    /\ rt.dev \in Nat /\ rt.input \in Handlers /\ rt.output \in Handlers
    /\ dir = "in" => rt.input # "none"
    /\ dir = "out" => rt.output # "none"
SameWay(rt, qt) == rt.dev = qt.dev /\ rt.input = qt.input /\ rt.output = qt.output

\* A lookup is sound when the entries it would make are, and when an entry that it
\* may hit leads, unless something was added, the way that the one made would.
LEMMA LookupBySound ==
    ASSUME IInv, NEW dir, NEW dst \in Addr, NEW src, NEW iif,
           NEW local, NEW routed, NEW keep \in BOOLEAN,
           Search(dst).how = "local" =>
              /\ Serves(dir, local) /\ local.dev = loopback
              /\ keep => local \in Entry /\ IndevEntry(local),
           Search(dst).how = "route" =>
              /\ Serves(dir, routed) /\ Live(routed.dev)
              /\ routed \in Entry /\ RouteEntry(routed),
           \A e \in Entry : /\ IndevEntry(e) \/ RouteEntry(e)
                            /\ e.dst = dst /\ e.iif = iif
              => /\ Serves(dir, e)
                 /\ ~added => \/ Search(dst).how = "local" /\ SameWay(e, local)
                              \/ Search(dst).how = "route" /\ SameWay(e, routed)
    PROVE  LookupSound(dir,
              LookupBy(Hits(rcache, dst, src, iif), rcache, Search(dst), local, routed, keep),
              LookupBy(Hits(<<>>, dst, src, iif), <<>>, Search(dst), local, routed, keep))
<1> DEFINE t == Search(dst)
           H == Hits(rcache, dst, src, iif)
           res == LookupBy(H, rcache, t, local, routed, keep)
           fresh == LookupBy(Hits(<<>>, dst, src, iif), <<>>, t, local, routed, keep)
           way(rt) == [how |-> "routed", dev |-> rt.dev, input |-> rt.input,
                       output |-> rt.output]
           lost == [how |-> t.how, dev |-> 0, input |-> "none", output |-> "none"]
<1> SUFFICES LookupSound(dir, res, fresh)
  OBVIOUS
<1>1. t.how \in {"local", "route", "none", "wild"} /\ (t.how = "wild" => Cause)
  BY SearchFinds DEF IInv
<1>2. /\ t.how = "local" => Serves(dir, local) /\ local.dev = loopback
                             /\ (keep => local \in Entry /\ IndevEntry(local))
      /\ t.how = "route" => Serves(dir, routed) /\ Live(routed.dev)
                             /\ routed \in Entry /\ RouteEntry(routed)
  OBVIOUS
<1>3. ASSUME NEW e \in Entry, IndevEntry(e) \/ RouteEntry(e), e.dst = dst, e.iif = iif
      PROVE  /\ Serves(dir, e)
             /\ ~added => \/ t.how = "local" /\ SameWay(e, local)
                          \/ t.how = "route" /\ SameWay(e, routed)
  BY <1>3
<1>4. /\ H = {} => /\ res.how = fresh.how /\ res.rt = fresh.rt
                   /\ res.cached = fresh.cached /\ Via(res) = Via(fresh)
  <2>1. Hits(<<>>, dst, src, iif) = {}
    BY DEF Hits
  <2> HIDE DEF H, t
  <2> QED
    BY <2>1 DEF LookupBy, Found, Via
<1>5. H # {} => res = Found("hit", rcache[FirstIn(H)], FALSE)
  <2> HIDE DEF H, t
  <2> QED
    BY DEF LookupBy
<1>6. /\ t.how = "local" => fresh = Found("new", local, keep)
      /\ t.how = "route" => fresh = Found("new", routed, TRUE)
      /\ t.how \in {"none", "wild"} => fresh = Found(t.how, NoRt, FALSE)
  <2>1. Hits(<<>>, dst, src, iif) = {}
    BY DEF Hits
  <2> HIDE DEF t
  <2> QED
    BY <2>1 DEF LookupBy
<1>7. H # {} => LET e == rcache[FirstIn(H)]
                IN  /\ e \in Entry /\ e.dst = dst /\ e.iif = iif
                    /\ IndevEntry(e) \/ RouteEntry(e)
                    /\ ~Live(e.dev) => Cause
  BY HitIsSound, Zenon
<1> HIDE DEF t, res, fresh, H
<1>8. /\ t.how = "local" => /\ fresh.how = "new" /\ fresh.rt = local /\ fresh.cached = keep
                            /\ Via(fresh) = way(local)
      /\ t.how = "route" => /\ fresh.how = "new" /\ fresh.rt = routed /\ fresh.cached = TRUE
                            /\ Via(fresh) = way(routed)
      /\ t.how \in {"none", "wild"} => /\ fresh.how = t.how /\ fresh.cached = FALSE
                                       /\ Via(fresh) = lost
  BY <1>6 DEF Found, Via, NoRt, Rtable
<1>9. Via(fresh) \in Fate
  BY <1>1, <1>2, <1>8 DEF Fate, Serves, Handlers
<1>10. CASE H = {}
  <2>1. CASE t.how = "local"
    BY <1>2, <1>4, <1>8, <1>9, <1>10, <2>1 DEF LookupSound, Serves, Cause
  <2>2. CASE t.how = "route"
    BY <1>2, <1>4, <1>8, <1>9, <1>10, <2>2 DEF LookupSound, Serves
  <2>3. CASE t.how \in {"none", "wild"}
    BY <1>1, <1>4, <1>8, <1>9, <1>10, <2>3 DEF LookupSound
  <2> QED
    BY <1>1, <2>1, <2>2, <2>3
<1>11. CASE H # {}
  <2> DEFINE e == rcache[FirstIn(H)]
  <2>1. /\ e \in Entry /\ e.dst = dst /\ e.iif = iif
        /\ IndevEntry(e) \/ RouteEntry(e)
        /\ ~Live(e.dev) => Cause
    BY <1>7, <1>11
  <2>2. res = Found("hit", e, FALSE)
    BY <1>5, <1>11
  <2> HIDE DEF e
  <2>3. res.how = "hit" /\ res.rt = e /\ res.cached = FALSE /\ Via(res) = way(e)
    BY <2>2 DEF Found, Via
  <2>4. /\ Serves(dir, e)
        /\ ~added => \/ t.how = "local" /\ SameWay(e, local)
                     \/ t.how = "route" /\ SameWay(e, routed)
    BY <1>3, <2>1
  <2>5. Via(res) \in Fate
    BY <2>3, <2>4 DEF Fate, Serves
  <2>6. ~added => Via(res) = Via(fresh)
    BY <1>8, <2>3, <2>4 DEF SameWay
  <2> QED
    BY <1>9, <2>1, <2>3, <2>4, <2>5, <2>6 DEF LookupSound, Serves
<1> QED
  BY <1>10, <1>11

\* Every lookup of ip_route_input is sound.
LEMMA RouteInputSound ==
    ASSUME IInv, NEW dst \in Addr, NEW src \in Host, NEW iif \in 1..MaxIf
    PROVE  LookupSound("in", RouteInput(rcache, dst, src, iif), RouteInput(<<>>, dst, src, iif))
<1> DEFINE t == Search(dst)
           local == Rtable(dst, src, t.dev, loopback, "local", "none", "indev", t.dev)
           routed == Rtable(dst, src, t.dev, t.dev, "forward", "output", "route", t.id)
<1>1. MaxIf \in Nat /\ src \in Addr
  BY RoutingAssumption
<1>2. t.how = "local" => Serves("in", local) /\ local.dev = loopback
  BY DEF Serves, Rtable, Handlers, loopback
<1>3. t.how = "route" => /\ Serves("in", routed) /\ Live(routed.dev)
                         /\ routed \in Entry /\ RouteEntry(routed)
  <2> SUFFICES ASSUME t.how = "route"
               PROVE  /\ Serves("in", routed) /\ Live(routed.dev)
                      /\ routed \in Entry /\ RouteEntry(routed)
    OBVIOUS
  <2>1. /\ \A i \in DOMAIN interfaces : devs[interfaces[i]].addr # dst
        /\ Live(t.dev) /\ t.id \notin freed
        /\ \E j \in DOMAIN routes :
             routes[j].id = t.id /\ routes[j].dev = t.dev /\ FirstMatch(dst, j)
    BY SearchFinds DEF IInv
  <2>2. \A j \in DOMAIN routes : routes[j].dev \in 1..MaxIf /\ routes[j].id \in Nat
    BY RouteFields DEF IInv
  <2>3. t.dev \in 1..MaxIf /\ t.id \in Nat
    <3> HIDE DEF t
    <3> QED
      BY <2>1, <2>2
  <2> HIDE DEF t
  <2>4. routed \in Entry
    BY <1>1, <2>3 DEF Rtable, Entry, Handlers
  <2>5. /\ routed.dev = t.dev /\ routed.input = "forward" /\ routed.output = "output"
        /\ routed.dst = dst /\ routed.iif = t.dev
        /\ routed.owner.kind = "route" /\ routed.owner.id = t.id
    BY DEF Rtable
  <2> HIDE DEF routed
  <2> QED
    BY <2>1, <2>3, <2>4, <2>5 DEF RouteEntry, Serves, Handlers
<1>4. ASSUME NEW e \in Entry, IndevEntry(e) \/ RouteEntry(e), e.dst = dst, e.iif = iif
      PROVE  Serves("in", e) /\ (~added => t.how = "route" /\ SameWay(e, routed))
  <2>1. RouteEntry(e) /\ e.input = "forward" /\ e.output = "output" /\ e.dev \in Nat
    BY <1>1, <1>4 DEF IndevEntry, RouteEntry, Entry
  <2>2. ~added => t.how = "route" /\ t.dev = e.dev
    BY <1>4, <2>1, EntryIsFound DEF IInv
  <2> HIDE DEF t
  <2> QED
    BY <2>1, <2>2 DEF Serves, SameWay, Handlers, Rtable
<1> HIDE DEF local, routed
<1>5. LookupSound("in",
         LookupBy(Hits(rcache, dst, src, iif), rcache, t, local, routed, FALSE),
         LookupBy(Hits(<<>>, dst, src, iif), <<>>, t, local, routed, FALSE))
  BY <1>2, <1>3, <1>4, LookupBySound
<1> QED
  BY <1>5 DEF RouteInput, local, routed

\* Every lookup of __ip_route_output_key is sound.
LEMMA RouteOutputSound ==
    ASSUME IInv, NEW dst \in Addr, NEW src \in Host
    PROVE  LookupSound("out", RouteOutput(rcache, dst, src), RouteOutput(<<>>, dst, src))
<1> DEFINE t == Search(dst)
           local == Rtable(dst, src, 0, loopback, "local", "output", "indev", t.dev)
           routed == Rtable(dst, src, 0, t.dev, "none", "output", "route", t.id)
<1>1. MaxIf \in Nat /\ src \in Addr /\ MaxIf >= 1
  BY RoutingAssumption
<1>2. t.how = "local" => /\ Serves("out", local) /\ local.dev = loopback
                         /\ local \in Entry /\ IndevEntry(local)
  <2> SUFFICES ASSUME t.how = "local"
               PROVE  /\ Serves("out", local) /\ local.dev = loopback
                      /\ local \in Entry /\ IndevEntry(local)
    OBVIOUS
  <2>1. /\ Live(t.dev) /\ devs[t.dev].addr = dst
        /\ \E i \in DOMAIN interfaces : interfaces[i] = t.dev
    BY SearchFinds DEF IInv
  <2>2. t.dev \in Nat
    BY <2>1 DEF IInv, TypeOK, Live
  <2> HIDE DEF t
  <2>3. local \in Entry
    BY <1>1, <2>2 DEF Rtable, Entry, Handlers, loopback
  <2>4. /\ local.dev = loopback /\ local.input = "local" /\ local.output = "output"
        /\ local.dst = dst /\ local.iif = 0
        /\ local.owner.kind = "indev" /\ local.owner.id = t.dev
    BY DEF Rtable
  <2> HIDE DEF local
  <2> QED
    BY <2>1, <2>3, <2>4 DEF IndevEntry, Serves, Handlers, loopback
<1>3. t.how = "route" => /\ Serves("out", routed) /\ Live(routed.dev)
                         /\ routed \in Entry /\ RouteEntry(routed)
  <2> SUFFICES ASSUME t.how = "route"
               PROVE  /\ Serves("out", routed) /\ Live(routed.dev)
                      /\ routed \in Entry /\ RouteEntry(routed)
    OBVIOUS
  <2>1. /\ \A i \in DOMAIN interfaces : devs[interfaces[i]].addr # dst
        /\ Live(t.dev) /\ t.id \notin freed
        /\ \E j \in DOMAIN routes :
             routes[j].id = t.id /\ routes[j].dev = t.dev /\ FirstMatch(dst, j)
    BY SearchFinds DEF IInv
  <2>2. \A j \in DOMAIN routes : routes[j].dev \in 1..MaxIf /\ routes[j].id \in Nat
    BY RouteFields DEF IInv
  <2>3. t.dev \in 1..MaxIf /\ t.id \in Nat
    <3> HIDE DEF t
    <3> QED
      BY <2>1, <2>2
  <2> HIDE DEF t
  <2>4. routed \in Entry
    BY <1>1, <2>3 DEF Rtable, Entry, Handlers
  <2>5. /\ routed.dev = t.dev /\ routed.input = "none" /\ routed.output = "output"
        /\ routed.dst = dst /\ routed.iif = 0
        /\ routed.owner.kind = "route" /\ routed.owner.id = t.id
    BY DEF Rtable
  <2> HIDE DEF routed
  <2> QED
    BY <2>1, <2>3, <2>4, <2>5 DEF RouteEntry, Serves, Handlers
<1>4. ASSUME NEW e \in Entry, IndevEntry(e) \/ RouteEntry(e), e.dst = dst, e.iif = 0
      PROVE  /\ Serves("out", e)
             /\ ~added => \/ t.how = "local" /\ SameWay(e, local)
                          \/ t.how = "route" /\ SameWay(e, routed)
  <2>1. e.dev \in Nat
    BY <1>1 DEF Entry
  <2>2. ~added => /\ IndevEntry(e) => t.how = "local"
                  /\ RouteEntry(e) => t.how = "route" /\ t.dev = e.dev
    BY <1>4, EntryIsFound DEF IInv
  <2> HIDE DEF t
  <2>3. CASE IndevEntry(e)
    BY <2>2, <2>3 DEF IndevEntry, Serves, SameWay, Handlers, Rtable, loopback
  <2>4. CASE RouteEntry(e)
    <3>1. e.input = "none" /\ e.output = "output"
      BY <1>1, <1>4, <2>4 DEF RouteEntry, Entry
    <3> QED
      BY <2>1, <2>2, <2>4, <3>1 DEF Serves, SameWay, Handlers, Rtable
  <2> QED
    BY <1>4, <2>3, <2>4
<1> HIDE DEF local, routed
<1>5. LookupSound("out",
         LookupBy(Hits(rcache, dst, src, 0), rcache, t, local, routed, TRUE),
         LookupBy(Hits(<<>>, dst, src, 0), <<>>, t, local, routed, TRUE))
  BY <1>2, <1>3, <1>4, LookupBySound
<1> QED
  BY <1>5 DEF RouteOutput, local, routed

-----------------------------------------------------------------------------
(* The steps. *)

\* Commands leave nothing to be said about a lookup.
LEMMA CommandIsNoLookup ==
    ASSUME last' = NoLookup
    PROVE  /\ last' \in [dir : {"none", "in", "out"}, got : Fate, fresh : Fate]
           /\ EntryHasHandler' /\ RemovalKeepsCacheTrue'
<1> DEFINE f == [how |-> "none", dev |-> 0, input |-> "none", output |-> "none"]
<1>1. NoLookup = [dir |-> "none", got |-> f, fresh |-> f]
  BY DEF NoLookup, Via, Found, NoRt, Rtable
<1>2. f \in Fate
  BY DEF Fate, Handlers
<1> HIDE DEF f
<1> QED
  BY <1>1, <1>2 DEF EntryHasHandler, RemovalKeepsCacheTrue, CacheTransparent

\* To show that the cache is sound after a step, take its entries one by one.
LEMMA CacheSoundNext ==
    ASSUME rcache' \in Seq(Entry),
           \A e \in Entry : (\E k \in DOMAIN rcache' : rcache'[k] = e)
                              => IndevEntry(e)' \/ RouteEntry(e)'
    PROVE  CacheSound'
<1> SUFFICES ASSUME NEW k \in DOMAIN rcache'
             PROVE  IndevEntry(rcache[k])' \/ RouteEntry(rcache[k])'
  BY DEF CacheSound
<1>1. PICK e \in Entry : e = rcache'[k]
  OBVIOUS
<1>2. IndevEntry(e)' \/ RouteEntry(e)'
  BY <1>1
<1> QED
  BY <1>1, <1>2 DEF IndevEntry, RouteEntry, FirstMatch, Live

\* The cache before a step, entry by entry.
LEMMA CacheSoundNow ==
    ASSUME IInv
    PROVE  /\ rcache \in Seq(Entry)
           /\ \A k \in DOMAIN rcache :
                rcache[k] \in Entry /\ (IndevEntry(rcache[k]) \/ RouteEntry(rcache[k]))
<1>1. rcache \in Seq(Entry)
  BY DEF IInv, TypeOK, Entry
<1> QED
  BY <1>1 DEF IInv, CacheSound

\* A lookup keeps the invariant, if it is sound.
LEMMA LookupKeeps ==
    ASSUME IInv, NEW dir \in {"in", "out"}, NEW res, NEW fresh,
           LookupSound(dir, res, fresh), Lookup(dir, res, fresh)
    PROVE  IInv'
<1>1. UNCHANGED <<devs, interfaces, ifindex_counter, routes, freed, nextRoute, added>>
  BY DEF Lookup, tables
<1>2. /\ Via(res) \in Fate /\ Via(fresh) \in Fate
      /\ dead' \in BOOLEAN
      /\ last' = [dir |-> dir, got |-> Via(res), fresh |-> Via(fresh)]
  BY DEF LookupSound, Lookup
<1>3. rcache' \in Seq(Entry)
      /\ \A k \in DOMAIN rcache' :
           \/ \E i \in DOMAIN rcache : rcache'[k] = rcache[i]
           \/ rcache'[k] = res.rt /\ (IndevEntry(res.rt) \/ RouteEntry(res.rt))
  <2>1. rcache \in Seq(Entry)
    BY CacheSoundNow
  <2>2. CASE res.cached
    <3>1. /\ rcache' = <<res.rt>> \o rcache
          /\ res.rt \in Entry /\ (IndevEntry(res.rt) \/ RouteEntry(res.rt))
      BY <2>2 DEF Lookup, LookupSound
    <3>2. <<res.rt>> \in Seq(Entry) /\ Len(<<res.rt>>) = 1 /\ <<res.rt>>[1] = res.rt
      BY <3>1
    <3>3. /\ rcache' \in Seq(Entry) /\ Len(rcache') = 1 + Len(rcache)
          /\ \A k \in 1 .. 1 + Len(rcache) :
               rcache'[k] = IF k <= 1 THEN res.rt ELSE rcache[k - 1]
      BY <2>1, <3>1, <3>2, ConcatProperties
    <3>4. \A k \in DOMAIN rcache' :
             rcache'[k] = res.rt \/ \E i \in DOMAIN rcache : rcache'[k] = rcache[i]
      <4> SUFFICES ASSUME NEW k \in DOMAIN rcache', rcache'[k] # res.rt
                   PROVE  \E i \in DOMAIN rcache : rcache'[k] = rcache[i]
        OBVIOUS
      <4>1. k - 1 \in DOMAIN rcache /\ rcache'[k] = rcache[k - 1]
        BY <2>1, <3>3
      <4> QED
        BY <4>1
    <3> QED
      BY <3>1, <3>3, <3>4
  <2>3. CASE ~res.cached
    <3>1. rcache' = rcache
      BY <2>3 DEF Lookup
    <3> QED
      BY <2>1, <3>1
  <2> QED
    BY <2>2, <2>3
<1>4. CacheSound'
  <2>1. ASSUME NEW e \in Entry, NEW k \in DOMAIN rcache', rcache'[k] = e
        PROVE  IndevEntry(e)' \/ RouteEntry(e)'
    <3>1. IndevEntry(e) \/ RouteEntry(e)
      BY <1>3, <2>1, CacheSoundNow
    <3> QED
      BY <1>1, <3>1 DEF IndevEntry, RouteEntry, FirstMatch, Live
  <2> QED
    BY <1>3, <2>1, CacheSoundNext
<1>5. EntryHasHandler'
  <2>1. Via(res).how = "routed" => res.how \in {"hit", "new"}
    BY DEF Via, LookupSound
  <2>2. Via(res).input = res.rt.input /\ Via(res).output = res.rt.output
    BY DEF Via
  <2> QED
    BY <1>2, <2>1, <2>2 DEF EntryHasHandler, LookupSound
<1>6. WildHasACause'
  <2>1. dead' => Cause
    BY DEF Lookup, LookupSound
  <2> QED
    BY <1>1, <2>1 DEF WildHasACause, Cause, Live
<1>7. RemovalKeepsCacheTrue'
  BY <1>1, <1>2 DEF LookupSound, RemovalKeepsCacheTrue, CacheTransparent
<1>8. RoutesSound'
  BY <1>1 DEF IInv, RoutesSound, Live
<1>9. TypeOK'
  <2>1. last' \in [dir : {"none", "in", "out"}, got : Fate, fresh : Fate]
    BY <1>2
  <2> QED
    BY <1>1, <1>2, <1>3, <2>1 DEF IInv, TypeOK, Entry
<1> QED
  BY <1>1, <1>4, <1>5, <1>6, <1>7, <1>8, <1>9 DEF IInv

\* A packet from the network (ip_rcv_finish) keeps the invariant.
LEMMA ReceiveKeeps ==
    ASSUME IInv, NEW dst \in Addr, NEW src \in Host, NEW iif \in 1..MaxIf,
           Receive(dst, src, iif)
    PROVE  IInv'
<1>1. Lookup("in", RouteInput(rcache, dst, src, iif), RouteInput(<<>>, dst, src, iif))
  BY DEF Receive
<1> QED
  BY <1>1, RouteInputSound, LookupKeeps

\* A packet of the simulated host (ip_rcv_local) keeps the invariant.
LEMMA SendLocalKeeps ==
    ASSUME IInv, NEW dst \in Addr, NEW src \in Host, SendLocal(dst, src)
    PROVE  IInv'
<1>1. Lookup("out", RouteOutput(rcache, dst, src), RouteOutput(<<>>, dst, src))
  BY DEF SendLocal
<1> QED
  BY <1>1, RouteOutputSound, LookupKeeps

\* create_device keeps the invariant: what was live stays live, what was on the list
\* stays at its place.
LEMMA IfUpKeeps ==
    ASSUME IInv, NEW nm \in Name, NEW c \in UpConf, IfUp(nm, c)
    PROVE  IInv'
<1> DEFINE r == [id |-> nextRoute, net |-> c.net, dev |-> ifindex_counter, user |-> FALSE]
<1>1. /\ devs' = [i \in DOMAIN devs \cup {ifindex_counter} |->
                    IF i = ifindex_counter THEN [name |-> nm, addr |-> c.addr] ELSE devs[i]]
      /\ interfaces' = Append(interfaces, ifindex_counter)
      /\ ifindex_counter' = ifindex_counter + 1
      /\ ifindex_counter <= MaxIf /\ nextRoute <= MaxRoute
      /\ routes' = Append(routes, r)
      /\ nextRoute' = nextRoute + 1
      /\ dead' = AppendIsWild /\ added' = TRUE /\ last' = NoLookup
      /\ freed' = freed /\ rcache' = rcache
  BY DEF IfUp
<1>2. /\ ifindex_counter \in 1..MaxIf /\ ifindex_counter' \in 1..(MaxIf + 1)
      /\ nextRoute \in 1..MaxRoute /\ nextRoute' \in 1..(MaxRoute + 1)
      /\ c.addr \in Addr /\ c.net \in SUBSET Addr
      /\ MaxIf \in Nat /\ MaxRoute \in Nat
  BY <1>1, RoutingAssumption DEF IInv, TypeOK
<1>3. /\ DOMAIN devs' = DOMAIN devs \cup {ifindex_counter}
      /\ DOMAIN devs' \subseteq 1..MaxIf
      /\ \A i \in DOMAIN devs' : devs'[i] \in [name : Name, addr : Addr]
  BY <1>1, <1>2 DEF IInv, TypeOK
<1>4. r \in Route
  BY <1>2 DEF Route
<1> HIDE DEF r
<1>5. /\ routes' \in Seq(Route) /\ Len(routes') = Len(routes) + 1
      /\ \A j \in DOMAIN routes : j \in DOMAIN routes' /\ routes'[j] = routes[j]
      /\ routes'[Len(routes) + 1] = r
  BY <1>1, <1>4, RouteFields, AppendProperties DEF IInv
<1>6. /\ interfaces' \in Seq(DOMAIN devs') /\ Len(interfaces') = Len(interfaces) + 1
  <2>1. interfaces \in Seq(DOMAIN devs')
    BY <1>3 DEF IInv, TypeOK
  <2>2. ifindex_counter \in DOMAIN devs'
    BY <1>3
  <2> QED
    BY <1>1, <2>1, <2>2, AppendProperties
<1>7. Len(interfaces') < ifindex_counter' /\ Len(interfaces') <= MaxIf
  <2>1. Len(interfaces) \in Nat /\ Len(interfaces) < ifindex_counter
    BY DEF IInv, TypeOK
  <2> QED
    BY <1>1, <1>2, <1>6, <2>1
<1>8. RoutesSound'
  <2> SUFFICES ASSUME NEW j \in DOMAIN routes', ~routes'[j].user
               PROVE  routes'[j].dev \in DOMAIN devs'
    BY <1>1 DEF RoutesSound, Live
  <2>1. CASE j = Len(routes) + 1
    BY <1>3, <1>5, <2>1 DEF r
  <2>2. CASE j \in DOMAIN routes
    BY <1>3, <1>5, <2>2 DEF IInv, RoutesSound, Live
  <2>3. j \in DOMAIN routes \/ j = Len(routes) + 1
    <3>1. routes \in Seq(Route)
      BY RouteFields DEF IInv
    <3> QED
      BY <1>5, <3>1
  <2> QED
    BY <2>1, <2>2, <2>3
<1>9. CacheSound'
  <2>1. ASSUME NEW e \in Entry, NEW k \in DOMAIN rcache', rcache'[k] = e
        PROVE  IndevEntry(e)' \/ RouteEntry(e)'
    <3>1. IndevEntry(e) \/ RouteEntry(e)
      BY <1>1, <2>1, CacheSoundNow
    <3>2. IndevEntry(e) => IndevEntry(e)'
      BY <1>1, <1>3 DEF IndevEntry, Live
    <3>3. RouteEntry(e) => RouteEntry(e)'
      BY <1>1, <1>5 DEF RouteEntry
    <3> QED
      BY <3>1, <3>2, <3>3
  <2>2. rcache' \in Seq(Entry)
    BY <1>1, CacheSoundNow
  <2> QED
    BY <2>1, <2>2, CacheSoundNext
<1>10. WildHasACause'
  BY <1>1 DEF WildHasACause, AppendIsWild
<1>11. TypeOK'
  <2>1. last' \in [dir : {"none", "in", "out"}, got : Fate, fresh : Fate]
    BY <1>1, CommandIsNoLookup
  <2>2. dead' \in BOOLEAN
    BY <1>1 DEF AppendIsWild
  <2> QED
    BY <1>1, <1>2, <1>3, <1>5, <1>6, <1>7, <2>1, <2>2 DEF IInv, TypeOK, Route
<1> QED
  BY <1>1, <1>7, <1>8, <1>9, <1>10, <1>11, CommandIsNoLookup DEF IInv

\* A device that could not be made keeps it: a spent ifindex is all that is left.
LEMMA IfUpFailsKeeps ==
    ASSUME IInv, NEW nm \in Name, IfUpFails(nm)
    PROVE  IInv'
<1>1. /\ ifindex_counter' = ifindex_counter + 1 /\ ifindex_counter <= MaxIf
      /\ last' = NoLookup /\ dead = FALSE
      /\ UNCHANGED <<devs, interfaces, routes, freed, nextRoute, rcache, added, dead>>
  BY DEF IfUpFails
<1>2. TypeOK'
  <2>1. last' \in [dir : {"none", "in", "out"}, got : Fate, fresh : Fate]
    BY <1>1, CommandIsNoLookup
  <2>2. ifindex_counter' \in 1..(MaxIf + 1)
    BY <1>1, RoutingAssumption DEF IInv, TypeOK
  <2> QED
    BY <1>1, <2>1, <2>2 DEF IInv, TypeOK
<1>3. RoutesSound' /\ WildHasACause'
  BY <1>1 DEF IInv, RoutesSound, WildHasACause, Live
<1>4. CacheSound'
  BY <1>1 DEF IInv, CacheSound, IndevEntry, RouteEntry, FirstMatch, Live
<1>5. Len(interfaces') < ifindex_counter'
  BY <1>1, RoutingAssumption DEF IInv, TypeOK
<1> QED
  BY <1>1, <1>2, <1>3, <1>4, <1>5, CommandIsNoLookup DEF IInv

\* set_device keeps the invariant: a new address, and `added' with it.
LEMMA IfSetKeeps ==
    ASSUME IInv, NEW nm \in Name, NEW a \in Addr, IfSet(nm, a)
    PROVE  IInv'
<1> DEFINE x == InterfaceByName(nm)
<1>1. /\ devs' = [devs EXCEPT ![x].addr = a]
      /\ added' = TRUE /\ last' = NoLookup /\ dead = FALSE
      /\ UNCHANGED <<interfaces, ifindex_counter, routes, freed, nextRoute, rcache, dead>>
  BY DEF IfSet
<1>2. x \in DOMAIN devs
  BY NamedIsLive DEF IfSet, IInv, Live
<1> HIDE DEF x
<1>3. /\ DOMAIN devs' = DOMAIN devs
      /\ \A i \in DOMAIN devs' : devs'[i] \in [name : Name, addr : Addr]
  BY <1>1, <1>2 DEF IInv, TypeOK
<1>4. TypeOK'
  <2>1. last' \in [dir : {"none", "in", "out"}, got : Fate, fresh : Fate]
    BY <1>1, CommandIsNoLookup
  <2> QED
    BY <1>1, <1>3, <2>1 DEF IInv, TypeOK
<1>5. RoutesSound' /\ WildHasACause'
  BY <1>1, <1>3 DEF IInv, RoutesSound, WildHasACause, Live
<1>6. CacheSound'
  BY <1>1, <1>3 DEF IInv, CacheSound, IndevEntry, RouteEntry, Live
<1>7. Len(interfaces') < ifindex_counter'
  BY <1>1 DEF IInv
<1> QED
  BY <1>1, <1>4, <1>5, <1>6, <1>7, CommandIsNoLookup DEF IInv

\* Freeing owners takes their entries out of the cache and no others.
LEMMA UncacheLeaves ==
    ASSUME IInv, NEW owners
    PROVE  /\ Uncache(rcache, owners) \in Seq(Entry)
           /\ \A k \in DOMAIN Uncache(rcache, owners) : \E i \in DOMAIN rcache :
                Uncache(rcache, owners)[k] = rcache[i] /\ rcache[i].owner \notin owners
<1> DEFINE K == {i \in DOMAIN rcache : rcache[i].owner \notin owners}
<1>1. rcache \in Seq(Entry)
  BY CacheSoundNow
<1>2. K \in SUBSET DOMAIN rcache
  OBVIOUS
<1>3. Uncache(rcache, owners) = Kept(rcache, K)
  BY DEF Uncache
<1>4. \A i \in K : i \in DOMAIN rcache /\ rcache[i].owner \notin owners
  OBVIOUS
<1> HIDE DEF K
<1>5. /\ Kept(rcache, K) \in Seq(Entry)
      /\ \A k \in DOMAIN Kept(rcache, K) : \E i \in K : Kept(rcache, K)[k] = rcache[i]
  BY <1>1, <1>2, KeptEntries
<1> QED
  BY <1>3, <1>4, <1>5

\* What deleting routes by their numbers leaves: the others, in their order.
LeftOver(left, rts, ids) ==
    /\ left \in Seq(Route)
    /\ \A k \in DOMAIN left : \E i \in DOMAIN rts :
         left[k] = rts[i] /\ rts[i].id \notin ids
    /\ \A i \in DOMAIN rts : rts[i].id \notin ids =>
         \E k \in DOMAIN left :
            /\ left[k] = rts[i]
            /\ \A l \in DOMAIN left : l < k =>
                 \E j \in DOMAIN rts : j < i /\ left[l] = rts[j]

\* list_del of the routes with the numbers ids leaves the others, in their order.
LEMMA RoutesLeft ==
    ASSUME TypeOK, NEW ids
    PROVE  LeftOver(Kept(routes, {i \in DOMAIN routes : routes[i].id \notin ids}), routes, ids)
<1> DEFINE K == {i \in DOMAIN routes : routes[i].id \notin ids}
           left == Kept(routes, K)
<1>1. routes \in Seq(Route)
  BY RouteFields
<1>2. K \in SUBSET DOMAIN routes
  OBVIOUS
<1>3. \A i : i \in K <=> i \in DOMAIN routes /\ routes[i].id \notin ids
  OBVIOUS
<1> SUFFICES LeftOver(left, routes, ids)
  OBVIOUS
<1> HIDE DEF K
<1>4. /\ left \in Seq(Route)
      /\ \A k \in DOMAIN left : \E i \in K : left[k] = routes[i]
      /\ \A i \in K : \E k \in DOMAIN left :
           /\ left[k] = routes[i]
           /\ \A l \in DOMAIN left : l < k => \E j \in K : j < i /\ left[l] = routes[j]
  BY <1>1, <1>2, KeptEntries
<1> HIDE DEF left
<1>5. \A k \in DOMAIN left : \E i \in DOMAIN routes :
         left[k] = routes[i] /\ routes[i].id \notin ids
  BY <1>3, <1>4
<1>6. ASSUME NEW i \in DOMAIN routes, routes[i].id \notin ids
      PROVE  \E k \in DOMAIN left :
                /\ left[k] = routes[i]
                /\ \A l \in DOMAIN left : l < k =>
                     \E j \in DOMAIN routes : j < i /\ left[l] = routes[j]
  <2>1. PICK k \in DOMAIN left :
           /\ left[k] = routes[i]
           /\ \A l \in DOMAIN left : l < k => \E j \in K : j < i /\ left[l] = routes[j]
    BY <1>3, <1>4, <1>6
  <2>2. \A l \in DOMAIN left : l < k =>
          \E j \in DOMAIN routes : j < i /\ left[l] = routes[j]
    BY <1>3, <2>1, Zenon
  <2> QED
    BY <2>1, <2>2
<1> QED
  BY <1>4, <1>5, <1>6 DEF LeftOver

\* ifconfig down keeps the invariant.
LEMMA IfDownKeeps ==
    ASSUME IInv, NEW nm \in Name, IfDown(nm)
    PROVE  IInv'
<1> DEFINE x == InterfaceByName(nm)
           mine == {j \in DOMAIN routes : routes[j].dev = x /\ ~routes[j].user}
           own == {routes[i].id : i \in mine}
           owners == {[kind |-> "indev", id |-> x]}
                       \cup {[kind |-> "route", id |-> i] : i \in own}
           K == {i \in DOMAIN interfaces : interfaces[i] # x}
<1>1. /\ interfaces' = Kept(interfaces, K)
      /\ devs' = [i \in DOMAIN devs \ {x} |-> devs[i]]
      /\ routes' = Kept(routes, {i \in DOMAIN routes : routes[i].id \notin own})
      /\ rcache' = Uncache(rcache, owners)
      /\ dead' = UnlinkIsWild(own) /\ last' = NoLookup
      /\ ifindex_counter' = ifindex_counter /\ freed' = freed
      /\ nextRoute' = nextRoute /\ added' = added
  BY DEF IfDown
<1>2. \A j \in DOMAIN routes : routes[j].dev = x /\ ~routes[j].user => routes[j].id \in own
  OBVIOUS
<1>3. /\ [kind |-> "indev", id |-> x] \in owners
      /\ \A i \in own : [kind |-> "route", id |-> i] \in owners
  OBVIOUS
<1>4. K \in SUBSET DOMAIN interfaces
      /\ \A i : i \in K <=> i \in DOMAIN interfaces /\ interfaces[i] # x
  OBVIOUS
<1> HIDE DEF x, own, owners, K
<1>5. /\ DOMAIN devs' = DOMAIN devs \ {x}
      /\ \A i \in DOMAIN devs' : devs'[i] = devs[i]
  BY <1>1
<1>6. /\ routes' \in Seq(Route)
      /\ \A k \in DOMAIN routes' : \E i \in DOMAIN routes :
           routes'[k] = routes[i] /\ routes[i].id \notin own
      /\ \A i \in DOMAIN routes : routes[i].id \notin own =>
           \E k \in DOMAIN routes' :
              /\ routes'[k] = routes[i]
              /\ \A l \in DOMAIN routes' : l < k =>
                   \E j \in DOMAIN routes : j < i /\ routes'[l] = routes[j]
  <2>1. LeftOver(routes', routes, own)
    BY <1>1, RoutesLeft DEF IInv
  <2> QED
    BY <2>1 DEF LeftOver
<1>7. /\ rcache' \in Seq(Entry)
      /\ \A k \in DOMAIN rcache' : \E i \in DOMAIN rcache :
           rcache'[k] = rcache[i] /\ rcache[i].owner \notin owners
  BY <1>1, UncacheLeaves
<1>8. /\ interfaces' \in Seq(DOMAIN devs') /\ Len(interfaces') <= Len(interfaces)
      /\ \A k \in DOMAIN interfaces' : \E i \in K : interfaces'[k] = interfaces[i]
      /\ \A i \in K : \E k \in DOMAIN interfaces' : interfaces'[k] = interfaces[i]
  <2>1. interfaces \in Seq(DOMAIN devs)
    BY DEF IInv, TypeOK
  <2>2. /\ interfaces' \in Seq(DOMAIN devs) /\ Len(interfaces') <= Len(interfaces)
        /\ \A k \in DOMAIN interfaces' : \E i \in K : interfaces'[k] = interfaces[i]
        /\ \A i \in K : \E k \in DOMAIN interfaces' : interfaces'[k] = interfaces[i]
    BY <1>1, <1>4, <2>1, KeptEntries
  <2>3. \A k \in DOMAIN interfaces' : interfaces'[k] \in DOMAIN devs'
    <3> SUFFICES ASSUME NEW k \in DOMAIN interfaces'
                 PROVE  interfaces'[k] \in DOMAIN devs \ {x}
      BY <1>5
    <3>1. PICK i \in K : interfaces'[k] = interfaces[i]
      BY <2>2
    <3> QED
      BY <1>4, <2>1, <3>1
  <2>4. interfaces' \in Seq(DOMAIN devs')
    BY <2>2, <2>3
  <2> QED
    BY <2>2, <2>4
<1>9. RoutesSound'
  <2>1. ASSUME NEW k \in DOMAIN routes'
        PROVE  /\ ~routes'[k].user => routes'[k].dev \in DOMAIN devs'
               /\ ~added => ~routes'[k].user
    <3>1. PICK i \in DOMAIN routes : routes'[k] = routes[i] /\ routes[i].id \notin own
      BY <1>6
    <3> QED
      BY <1>2, <1>5, <3>1 DEF IInv, RoutesSound, Live
  <2>2. ~added => freed = {}
    BY DEF IInv, RoutesSound
  <2> QED
    BY <1>1, <2>1, <2>2 DEF RoutesSound, Live
<1>10. CacheSound'
  <2>1. ASSUME NEW e \in Entry, NEW k \in DOMAIN rcache', rcache'[k] = e
        PROVE  IndevEntry(e)' \/ RouteEntry(e)'
    <3>1. (IndevEntry(e) \/ RouteEntry(e)) /\ e.owner \notin owners
      BY <1>7, <2>1, CacheSoundNow
    <3>2. e.owner = [kind |-> e.owner.kind, id |-> e.owner.id]
      <4>1. e.owner \in [kind : {"indev", "route"}, id : Nat]
        BY DEF Entry
      <4> QED
        BY <4>1
    <3>3. CASE IndevEntry(e)
      <4>1. e.owner.id # x
        BY <1>3, <3>1, <3>2, <3>3 DEF IndevEntry
      <4>2. e.owner.id \in DOMAIN devs'
        BY <1>5, <3>3, <4>1 DEF IndevEntry, Live
      <4>3. ~added => \E i \in DOMAIN interfaces' : interfaces'[i] = e.owner.id
        <5> SUFFICES ASSUME ~added
                     PROVE  \E i \in DOMAIN interfaces' : interfaces'[i] = e.owner.id
          OBVIOUS
        <5>1. PICK i \in DOMAIN interfaces : interfaces[i] = e.owner.id
          BY <3>3 DEF IndevEntry
        <5>2. i \in K
          BY <1>4, <4>1, <5>1
        <5> QED
          BY <1>8, <5>1, <5>2
      <4> QED
        BY <1>1, <1>5, <3>3, <4>2, <4>3 DEF IndevEntry, Live
    <3>4. CASE RouteEntry(e)
      <4>1. e.owner.id \notin own
        BY <1>3, <3>1, <3>2, <3>4 DEF RouteEntry
      <4>2. PICK j \in DOMAIN routes :
              /\ routes[j].id = e.owner.id /\ routes[j].dev = e.dev
              /\ ~added => FirstMatch(e.dst, j)
        BY <3>4 DEF RouteEntry
      <4>3. PICK m \in DOMAIN routes' :
              /\ routes'[m] = routes[j]
              /\ \A l \in DOMAIN routes' : l < m =>
                   \E i \in DOMAIN routes : i < j /\ routes'[l] = routes[i]
        BY <1>6, <4>1, <4>2
      <4>4. ~added => FirstMatch(e.dst, m)'
        <5> SUFFICES ASSUME ~added PROVE FirstMatch(e.dst, m)'
          OBVIOUS
        <5>1. FirstMatch(e.dst, j)
          BY <4>2
        <5>2. e.dst \in routes'[m].net
          BY <4>3, <5>1 DEF FirstMatch
        <5>3. ASSUME NEW l \in DOMAIN routes', l < m
              PROVE  e.dst \notin routes'[l].net
          BY <4>3, <5>1, <5>3 DEF FirstMatch
        <5> QED
          BY <5>2, <5>3 DEF FirstMatch
      <4>5. ~added => \A k1 \in DOMAIN interfaces' : devs'[interfaces'[k1]].addr # e.dst
        <5> SUFFICES ASSUME ~added, NEW k1 \in DOMAIN interfaces'
                     PROVE  devs'[interfaces'[k1]].addr # e.dst
          OBVIOUS
        <5>1. PICK i \in K : interfaces'[k1] = interfaces[i]
          BY <1>8
        <5>2. interfaces'[k1] \in DOMAIN devs'
          BY <1>8
        <5>3. devs'[interfaces'[k1]] = devs[interfaces[i]]
          BY <1>5, <5>1, <5>2
        <5> QED
          BY <1>4, <3>4, <5>1, <5>3 DEF RouteEntry
      <4>6. routes'[m].id = e.owner.id /\ routes'[m].dev = e.dev
        BY <4>2, <4>3
      <4> QED
        BY <1>1, <3>4, <4>3, <4>4, <4>5, <4>6 DEF RouteEntry
    <3> QED
      BY <3>1, <3>3, <3>4
  <2> QED
    BY <1>7, <2>1, CacheSoundNext
<1>11. WildHasACause'
  BY <1>1 DEF WildHasACause, UnlinkIsWild
<1>12. TypeOK'
  <2>1. last' \in [dir : {"none", "in", "out"}, got : Fate, fresh : Fate]
    BY <1>1, CommandIsNoLookup
  <2>2. dead' \in BOOLEAN
    BY <1>1 DEF UnlinkIsWild
  <2>3. Len(interfaces') <= MaxIf
    BY <1>8, RoutingAssumption DEF IInv, TypeOK
  <2>4. /\ DOMAIN devs' \subseteq 1..MaxIf
        /\ \A i \in DOMAIN devs' : devs'[i] \in [name : Name, addr : Addr]
    BY <1>5 DEF IInv, TypeOK
  <2> QED
    BY <1>1, <1>6, <1>7, <1>8, <2>1, <2>2, <2>3, <2>4 DEF IInv, TypeOK, Route, Entry
<1>13. Len(interfaces') < ifindex_counter'
  BY <1>1, <1>8 DEF IInv, TypeOK
<1> QED
  BY <1>1, <1>9, <1>10, <1>11, <1>12, <1>13, CommandIsNoLookup DEF IInv

\* A walk over freed memory ends everything; the tables stay as they are.
LEMMA WildSearchKeeps ==
    ASSUME IInv, NEW net, SearchIsWild(net), dead' = TRUE, last' = NoLookup,
           UNCHANGED <<devs, interfaces, ifindex_counter, routes, freed, nextRoute, rcache,
                       added>>
    PROVE  IInv'
<1>1. TypeOK'
  <2>1. last' \in [dir : {"none", "in", "out"}, got : Fate, fresh : Fate]
    BY CommandIsNoLookup
  <2> QED
    BY <2>1 DEF IInv, TypeOK
<1>2. RoutesSound'
  BY DEF IInv, RoutesSound, Live
<1>3. CacheSound'
  BY DEF IInv, CacheSound, IndevEntry, RouteEntry, FirstMatch, Live
<1>4. WildHasACause'
  BY DEF SearchIsWild, WildHasACause
<1> QED
  BY <1>1, <1>2, <1>3, <1>4, CommandIsNoLookup DEF IInv

\* route add keeps the invariant: every route moves on by one place.
LEMMA RouteAddKeeps ==
    ASSUME IInv, NEW net \in Net, NEW nm \in Name, RouteAdd(net, nm)
    PROVE  IInv'
<1> DEFINE x == InterfaceByName(nm)
           r == [id |-> nextRoute, net |-> net, dev |-> x, user |-> TRUE]
<1>1. CASE SearchIsWild(net) /\ dead' = TRUE /\ UNCHANGED <<routes, nextRoute, added>>
  BY <1>1, WildSearchKeeps DEF RouteAdd
<1>2. CASE /\ InterfaceByName(nm) # 0
           /\ routes' = <<r>> \o routes /\ nextRoute' = nextRoute + 1
           /\ added' = TRUE /\ UNCHANGED dead
  <2>1. /\ dead = FALSE /\ nextRoute <= MaxRoute /\ last' = NoLookup
        /\ UNCHANGED <<devs, interfaces, ifindex_counter, freed, rcache>>
    BY DEF RouteAdd
  <2>2. x \in DOMAIN devs
    BY <1>2, NamedIsLive DEF IInv, Live
  <2>3. /\ nextRoute \in 1..MaxRoute /\ nextRoute' \in 1..(MaxRoute + 1)
        /\ x \in 1..MaxIf /\ net \in SUBSET Addr
    BY <1>2, <2>1, <2>2, RoutingAssumption DEF IInv, TypeOK
  <2> HIDE DEF x
  <2>4. r \in Route
    BY <2>3 DEF Route
  <2>5. r.user = TRUE
    OBVIOUS
  <2> HIDE DEF r
  <2>6. routes \in Seq(Route) /\ Len(routes) \in Nat
    BY RouteFields DEF IInv
  <2>7. /\ routes' \in Seq(Route) /\ Len(routes') = 1 + Len(routes)
        /\ \A k \in 1 .. 1 + Len(routes) :
             routes'[k] = IF k <= 1 THEN r ELSE routes[k - 1]
    <3>1. <<r>> \in Seq(Route) /\ Len(<<r>>) = 1 /\ <<r>>[1] = r
      BY <2>4
    <3> QED
      BY <1>2, <2>6, <3>1, ConcatProperties
  <2>8. /\ \A k \in DOMAIN routes' :
             routes'[k] = r \/ \E j \in DOMAIN routes : routes'[k] = routes[j]
        /\ \A j \in DOMAIN routes : \E k \in DOMAIN routes' : routes'[k] = routes[j]
    <3>1. ASSUME NEW k \in DOMAIN routes'
          PROVE  routes'[k] = r \/ \E j \in DOMAIN routes : routes'[k] = routes[j]
      <4>1. k = 1 \/ (k # 1 /\ k - 1 \in DOMAIN routes)
        BY <2>6, <2>7
      <4>2. k \in 1 .. 1 + Len(routes)
        BY <2>6, <2>7
      <4>3. k # 1 => routes'[k] = routes[k - 1]
        BY <2>6, <2>7, <4>2
      <4> QED
        BY <2>7, <4>1, <4>2, <4>3
    <3>2. ASSUME NEW j \in DOMAIN routes
          PROVE  \E k \in DOMAIN routes' : routes'[k] = routes[j]
      <4>1. j + 1 \in DOMAIN routes' /\ j + 1 \in 1 .. 1 + Len(routes) /\ (j + 1) - 1 = j
        BY <2>6, <2>7
      <4>2. routes'[j + 1] = routes[j]
        BY <2>6, <2>7, <4>1
      <4> QED
        BY <4>1, <4>2
    <3> QED
      BY <3>1, <3>2
  <2>9. RoutesSound'
    <3> SUFFICES ASSUME NEW k \in DOMAIN routes', ~routes'[k].user
                 PROVE  routes'[k].dev \in DOMAIN devs'
      BY <1>2 DEF RoutesSound, Live
    <3>1. PICK j \in DOMAIN routes : routes'[k] = routes[j]
      BY <2>5, <2>8
    <3> QED
      BY <2>1, <3>1 DEF IInv, RoutesSound, Live
  <2>10. CacheSound'
    <3>1. ASSUME NEW e \in Entry, NEW k \in DOMAIN rcache', rcache'[k] = e
          PROVE  IndevEntry(e)' \/ RouteEntry(e)'
      <4>1. IndevEntry(e) \/ RouteEntry(e)
        BY <2>1, <3>1, CacheSoundNow
      <4>2. IndevEntry(e) => IndevEntry(e)'
        BY <1>2, <2>1 DEF IndevEntry, Live
      <4>3. RouteEntry(e) => RouteEntry(e)'
        BY <1>2, <2>1, <2>8 DEF RouteEntry
      <4> QED
        BY <4>1, <4>2, <4>3
    <3>2. rcache' \in Seq(Entry)
      BY <2>1, CacheSoundNow
    <3> QED
      BY <3>1, <3>2, CacheSoundNext
  <2>11. WildHasACause'
    BY <1>2, <2>1 DEF WildHasACause
  <2>12. TypeOK'
    <3>1. last' \in [dir : {"none", "in", "out"}, got : Fate, fresh : Fate]
      BY <2>1, CommandIsNoLookup
    <3> QED
      BY <1>2, <2>1, <2>3, <2>7, <3>1 DEF IInv, TypeOK, Route
  <2> QED
    BY <2>1, <2>9, <2>10, <2>11, <2>12, CommandIsNoLookup DEF IInv
<1> QED
  BY <1>1, <1>2 DEF RouteAdd

\* route del keeps the invariant.
LEMMA RouteDelKeeps ==
    ASSUME IInv, NEW net \in Net, RouteDel(net)
    PROVE  IInv'
<1> DEFINE q == FirstIn(SameNet(net))
           id == routes[q].id
           owners == {[kind |-> "route", id |-> id]}
<1>1. CASE SearchIsWild(net) /\ dead' = TRUE /\ UNCHANGED <<routes, freed, rcache>>
  BY <1>1, WildSearchKeeps DEF RouteDel
<1>2. CASE /\ SameNet(net) # {}
           /\ rcache' = Uncache(rcache, owners)
           /\ IF routes[q].user
              THEN freed' = freed \cup {id} /\ UNCHANGED <<routes, dead>>
              ELSE /\ routes' = Kept(routes, {i \in DOMAIN routes : routes[i].id # id})
                   /\ dead' = UnlinkIsWild({id})
                   /\ UNCHANGED freed
  <2>1. /\ dead = FALSE /\ last' = NoLookup
        /\ UNCHANGED <<devs, interfaces, ifindex_counter, nextRoute, added>>
    BY DEF RouteDel
  <2>2. q \in DOMAIN routes
    <3>1. SameNet(net) \subseteq DOMAIN routes /\ DOMAIN routes \subseteq Nat
      BY RouteFields DEF SameNet, IInv
    <3>2. q \in SameNet(net)
      BY <1>2, <3>1, FirstInIsFirst
    <3> QED
      BY <3>1, <3>2, Zenon
  <2>3. routes[q] \in Route
    BY <2>2, RouteFields DEF IInv
  <2> HIDE DEF q
  <2>4. id \in 1..MaxRoute /\ routes[q].user \in BOOLEAN
    BY <2>3 DEF Route
  <2>5. /\ rcache' \in Seq(Entry)
        /\ \A k \in DOMAIN rcache' : \E i \in DOMAIN rcache :
             rcache'[k] = rcache[i] /\ rcache[i].owner \notin owners
    BY <1>2, UncacheLeaves
  <2>6. ASSUME NEW e \in Entry, NEW k \in DOMAIN rcache', rcache'[k] = e
        PROVE  /\ IndevEntry(e) \/ RouteEntry(e)
               /\ RouteEntry(e) => e.owner.id # id
    <3>1. (IndevEntry(e) \/ RouteEntry(e)) /\ e.owner \notin owners
      BY <2>5, <2>6, CacheSoundNow
    <3>2. e.owner = [kind |-> e.owner.kind, id |-> e.owner.id]
      <4>1. e.owner \in [kind : {"indev", "route"}, id : Nat]
        BY DEF Entry
      <4> QED
        BY <4>1
    <3> QED
      BY <3>1, <3>2 DEF RouteEntry
  <2>7. last' \in [dir : {"none", "in", "out"}, got : Fate, fresh : Fate]
    BY <2>1, CommandIsNoLookup
  <2> HIDE DEF owners
  <2>8. CASE routes[q].user
    <3>1. freed' = freed \cup {id} /\ UNCHANGED <<routes, dead>> /\ added
      BY <1>2, <2>2, <2>8 DEF IInv, RoutesSound
    <3> HIDE DEF id
    <3>2. TypeOK'
      BY <2>1, <2>4, <2>5, <2>7, <3>1 DEF IInv, TypeOK, Entry
    <3>3. RoutesSound' /\ WildHasACause'
      BY <2>1, <3>1 DEF IInv, RoutesSound, WildHasACause, Live
    <3>4. CacheSound'
      <4>1. ASSUME NEW e \in Entry, NEW k \in DOMAIN rcache', rcache'[k] = e
            PROVE  IndevEntry(e)' \/ RouteEntry(e)'
        <5>1. IndevEntry(e) => IndevEntry(e)'
          BY <2>1 DEF IndevEntry, Live
        <5>2. RouteEntry(e) /\ e.owner.id # id => RouteEntry(e)'
          BY <2>1, <3>1 DEF RouteEntry, FirstMatch
        <5> QED
          BY <2>6, <4>1, <5>1, <5>2
      <4> QED
        BY <2>5, <4>1, CacheSoundNext
    <3> QED
      BY <2>1, <3>2, <3>3, <3>4, CommandIsNoLookup DEF IInv
  <2>9. CASE ~routes[q].user
    <3>1. /\ routes' = Kept(routes, {i \in DOMAIN routes : routes[i].id \notin {id}})
          /\ dead' = UnlinkIsWild({id}) /\ freed' = freed
      BY <1>2, <2>9
    <3>2. LeftOver(routes', routes, {id})
      BY <3>1, RoutesLeft DEF IInv
    <3> HIDE DEF id
    <3>3. /\ routes' \in Seq(Route)
          /\ \A k \in DOMAIN routes' : \E i \in DOMAIN routes :
               routes'[k] = routes[i] /\ routes[i].id # id
          /\ \A i \in DOMAIN routes : routes[i].id # id =>
               \E k \in DOMAIN routes' :
                  /\ routes'[k] = routes[i]
                  /\ \A l \in DOMAIN routes' : l < k =>
                       \E j \in DOMAIN routes : j < i /\ routes'[l] = routes[j]
      BY <3>2 DEF LeftOver
    <3>4. TypeOK'
      <4>1. dead' \in BOOLEAN
        BY <3>1 DEF UnlinkIsWild
      <4> QED
        BY <2>1, <2>5, <2>7, <3>1, <3>3, <4>1 DEF IInv, TypeOK, Entry, Route
    <3>5. WildHasACause'
      BY <3>1 DEF WildHasACause, UnlinkIsWild
    <3>6. RoutesSound'
      <4>1. ASSUME NEW k \in DOMAIN routes'
            PROVE  /\ ~routes'[k].user => routes'[k].dev \in DOMAIN devs'
                   /\ ~added => ~routes'[k].user
        <5>1. PICK i \in DOMAIN routes : routes'[k] = routes[i]
          BY <3>3
        <5> QED
          BY <2>1, <5>1 DEF IInv, RoutesSound, Live
      <4>2. ~added => freed = {}
        BY DEF IInv, RoutesSound
      <4> QED
        BY <2>1, <3>1, <4>1, <4>2 DEF RoutesSound, Live
    <3>7. CacheSound'
      <4>1. ASSUME NEW e \in Entry, NEW k \in DOMAIN rcache', rcache'[k] = e
            PROVE  IndevEntry(e)' \/ RouteEntry(e)'
        <5>1. IndevEntry(e) => IndevEntry(e)'
          BY <2>1 DEF IndevEntry, Live
        <5>2. ASSUME RouteEntry(e), e.owner.id # id
              PROVE  RouteEntry(e)'
          <6>1. PICK j \in DOMAIN routes :
                  /\ routes[j].id = e.owner.id /\ routes[j].dev = e.dev
                  /\ ~added => FirstMatch(e.dst, j)
            BY <5>2 DEF RouteEntry
          <6>2. PICK m \in DOMAIN routes' :
                  /\ routes'[m] = routes[j]
                  /\ \A l \in DOMAIN routes' : l < m =>
                       \E i \in DOMAIN routes : i < j /\ routes'[l] = routes[i]
            BY <3>3, <5>2, <6>1
          <6>3. ~added => FirstMatch(e.dst, m)'
            <7> SUFFICES ASSUME ~added PROVE FirstMatch(e.dst, m)'
              OBVIOUS
            <7>1. FirstMatch(e.dst, j)
              BY <6>1
            <7>2. e.dst \in routes'[m].net
              BY <6>2, <7>1 DEF FirstMatch
            <7>3. ASSUME NEW l \in DOMAIN routes', l < m
                  PROVE  e.dst \notin routes'[l].net
              BY <6>2, <7>1, <7>3 DEF FirstMatch
            <7> QED
              BY <7>2, <7>3 DEF FirstMatch
          <6>4. routes'[m].id = e.owner.id /\ routes'[m].dev = e.dev
            BY <6>1, <6>2
          <6> QED
            BY <2>1, <3>1, <5>2, <6>2, <6>3, <6>4 DEF RouteEntry
        <5> QED
          BY <2>6, <4>1, <5>1, <5>2
      <4> QED
        BY <2>5, <4>1, CacheSoundNext
    <3> QED
      BY <2>1, <3>4, <3>5, <3>6, <3>7, CommandIsNoLookup DEF IInv
  <2> QED
    BY <2>4, <2>8, <2>9
<1> QED
  BY <1>1, <1>2 DEF RouteDel

-----------------------------------------------------------------------------
\* The tables that core_init makes satisfy the invariant.
LEMMA InitHolds == Init => IInv
<1> SUFFICES ASSUME Init PROVE IInv
  OBVIOUS
<1>1. /\ Boot \in Seq([name : Name, addr : Addr, net : SUBSET Addr])
      /\ DOMAIN Boot = 1 .. Len(Boot) /\ Len(Boot) \in Nat
      /\ Len(Boot) <= MaxIf /\ Len(Boot) <= MaxRoute /\ MaxIf \in Nat /\ MaxRoute \in Nat
  BY RoutingAssumption
<1>2. \A i \in DOMAIN Boot : /\ Boot[i] \in [name : Name, addr : Addr, net : SUBSET Addr]
                             /\ i \in 1..MaxIf /\ i \in 1..MaxRoute
  <2>1. \A i \in DOMAIN Boot : Boot[i] \in [name : Name, addr : Addr, net : SUBSET Addr]
    BY <1>1, ElementOfSeq
  <2>2. \A i \in DOMAIN Boot : i \in 1..MaxIf /\ i \in 1..MaxRoute
    BY <1>1
  <2> QED
    BY <2>1, <2>2
<1>3. DOMAIN devs = DOMAIN Boot /\ \A i \in DOMAIN Boot : devs[i] \in [name : Name, addr : Addr]
  BY <1>2 DEF Init
<1>4. interfaces \in Seq(DOMAIN devs) /\ Len(interfaces) = Len(Boot)
  BY <1>1, <1>3 DEF Init
<1>5. \A i \in DOMAIN Boot : [id |-> i, net |-> Boot[i].net, dev |-> i, user |-> FALSE] \in Route
  BY <1>2 DEF Route
<1>6. /\ routes \in Seq(Route) /\ DOMAIN routes = DOMAIN Boot
      /\ \A i \in DOMAIN Boot : routes[i].user = FALSE /\ routes[i].dev = i
  BY <1>1, <1>5 DEF Init
<1>7. last \in [dir : {"none", "in", "out"}, got : Fate, fresh : Fate]
      /\ EntryHasHandler /\ RemovalKeepsCacheTrue
  <2> DEFINE f == [how |-> "none", dev |-> 0, input |-> "none", output |-> "none"]
  <2>1. last = [dir |-> "none", got |-> f, fresh |-> f]
    BY DEF Init, NoLookup, Via, Found, NoRt, Rtable
  <2>2. f \in Fate
    BY DEF Fate, Handlers
  <2> HIDE DEF f
  <2> QED
    BY <2>1, <2>2 DEF EntryHasHandler, RemovalKeepsCacheTrue, CacheTransparent
<1>8. TypeOK
  <2>1. rcache \in Seq(Entry) /\ freed \subseteq 1..MaxRoute
        /\ added \in BOOLEAN /\ dead \in BOOLEAN
    <3>1. <<>> \in Seq(Entry)
      OBVIOUS
    <3> QED
      BY <3>1 DEF Init
  <2>2. ifindex_counter \in 1..(MaxIf + 1) /\ nextRoute \in 1..(MaxRoute + 1)
    BY <1>1 DEF Init
  <2>3. DOMAIN devs \subseteq 1..MaxIf /\ Len(interfaces) <= MaxIf
    BY <1>1, <1>2, <1>3, <1>4
  <2> QED
    BY <1>3, <1>4, <1>6, <1>7, <2>1, <2>2, <2>3 DEF TypeOK, Entry, Route
<1>9. RoutesSound /\ CacheSound /\ WildHasACause /\ Len(interfaces) < ifindex_counter
  BY <1>1, <1>3, <1>4, <1>6 DEF Init, RoutesSound, CacheSound, WildHasACause, Live
<1> QED
  BY <1>7, <1>8, <1>9 DEF IInv

\* Every step keeps the invariant.
LEMMA NextKeeps == IInv /\ [Next]_vars => IInv'
<1> SUFFICES ASSUME IInv, [Next]_vars PROVE IInv'
  OBVIOUS
<1>1. CASE Packets
  BY <1>1, ReceiveKeeps, SendLocalKeeps DEF Packets
<1>2. CASE Ifconfig
  <2>1. \A c \in UpConf : c.addr \in Addr
    BY RoutingAssumption
  <2> QED
    BY <1>2, <2>1, IfUpKeeps, IfUpFailsKeeps, IfSetKeeps, IfDownKeeps DEF Ifconfig
<1>3. CASE RouteCmd
  BY <1>3, RouteAddKeeps, RouteDelKeeps DEF RouteCmd
<1>4. CASE UNCHANGED vars
  <2>1. UNCHANGED <<devs, interfaces, ifindex_counter, routes, freed, nextRoute, rcache,
                    added, last, dead>>
    BY <1>4 DEF vars
  <2>2. TypeOK' /\ Len(interfaces') < ifindex_counter'
    BY <2>1 DEF IInv, TypeOK
  <2>3. RoutesSound' /\ WildHasACause' /\ EntryHasHandler' /\ RemovalKeepsCacheTrue'
    BY <2>1 DEF IInv, RoutesSound, WildHasACause, EntryHasHandler, RemovalKeepsCacheTrue,
                CacheTransparent, Live
  <2>4. CacheSound'
    BY <2>1 DEF IInv, CacheSound, IndevEntry, RouteEntry, FirstMatch, Live
  <2> QED
    BY <2>2, <2>3, <2>4 DEF IInv
<1> QED
  BY <1>1, <1>2, <1>3, <1>4 DEF Next

\* The invariant holds in every state.
LEMMA IInvAlways == Spec => []IInv
BY InitHolds, NextKeeps, PTL DEF Spec

\* Whatever the order in which interfaces and routes come and go (ifconfig, route), every
\* cache entry has a live owner, no device's route outlives it, and an entry found by
\* ip_route_input or __ip_route_output_key has the function its packet needs.
THEOREM TablesAlwaysFit == Spec => []TablesFit
<1>1. IInv => TablesFit
  <2> SUFFICES ASSUME IInv PROVE TablesFit
    OBVIOUS
  <2>1. \A i \in DOMAIN rcache :
          LET o == rcache[i].owner
          IN  IF o.kind = "indev" THEN Live(o.id)
              ELSE o.id \notin freed /\ \E j \in DOMAIN routes : routes[j].id = o.id
    <3> SUFFICES ASSUME NEW i \in DOMAIN rcache
                 PROVE  LET o == rcache[i].owner
                        IN  IF o.kind = "indev" THEN Live(o.id)
                            ELSE o.id \notin freed
                                 /\ \E j \in DOMAIN routes : routes[j].id = o.id
      OBVIOUS
    <3> QED
      BY CacheSoundNow DEF IndevEntry, RouteEntry
  <2>2. \A j \in DOMAIN routes : ~routes[j].user => Live(routes[j].dev)
    BY DEF IInv, RoutesSound
  <2> QED
    BY <2>1, <2>2 DEF IInv, TablesFit, NothingOutlivesItsOwner
<1> QED
  BY <1>1, IInvAlways, PTL

\* Freed memory is only used after the loopback interface went down, a route added by
\* hand was deleted, or the interface of such a route went down.
THEOREM WildAlwaysHasACause == Spec => []WildHasACause
<1>1. IInv => WildHasACause
  BY DEF IInv
<1> QED
  BY <1>1, IInvAlways, PTL

\* Until an interface, an address or a route is added, each lookup gives what an empty
\* cache had given, whatever was taken away.
THEOREM RemovalAlwaysKeepsCacheTrue == Spec => []RemovalKeepsCacheTrue
<1>1. IInv => RemovalKeepsCacheTrue
  BY DEF IInv
<1> QED
  BY <1>1, IInvAlways, PTL
=============================================================================
