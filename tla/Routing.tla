------------------------------ MODULE Routing -------------------------------
(***************************************************************************)
(* Interfaces, the IPv4 routing table and the route cache: the ifconfig    *)
(* and route commands (tools/ifconfig.c, tools/route.c) and the lookups of *)
(* core/ipv4/ipv4.c.                                                       *)
(*                                                                         *)
(* Ownership follows the talloc tree.  A device owns its in_device, which  *)
(* owns the route created with the device and the cache entries for local  *)
(* addresses; a route owns the cache entries made from it.  Routes added   *)
(* by hand are owned by nobody and, unlike the others, have no destructor  *)
(* that takes them off the list when they are freed.                       *)
(*                                                                         *)
(* A destination network is the set of addresses it matches.               *)
(***************************************************************************)
EXTENDS Integers, Sequences, SequencesExt, Lists

CONSTANTS
    Name,       \* interface names
    Addr,       \* addresses of hosts and interfaces
    Host,       \* those packets come from
    Net,        \* networks that commands name: sets of addresses
    Boot,       \* the interfaces core_init creates, [name, addr, net]
    UpConf,     \* arguments of ifconfig: [addr, net]
    MaxIf,      \* bound: interfaces ever created
    MaxRoute,   \* bound: routes ever created
    MaxCache    \* bound: cache entries

ASSUME RoutingAssumption ==
    /\ Net \subseteq SUBSET Addr /\ Host \subseteq Addr
    /\ Boot \in Seq([name : Name, addr : Addr, net : SUBSET Addr]) /\ Boot # <<>>
    /\ UpConf \subseteq [addr : Addr, net : SUBSET Addr]
    /\ MaxIf \in Nat /\ MaxRoute \in Nat /\ MaxCache \in Nat
    /\ Len(Boot) <= MaxIf /\ Len(Boot) <= MaxRoute

VARIABLES
    devs,       \* the live devices: ifindex -> [name, addr]
    interfaces, \* the list of devices, by ifindex
    ifindex_counter,
    routes,     \* the list of routes
    freed,      \* routes that were freed and are still on the list
    nextRoute,  \* identity of the next route
    rcache,     \* the route cache, newest entry first
    added,      \* history: an interface, address or route was added
    last,       \* history: the lookup just made, and what an empty cache had given
    dead        \* freed memory was used

vars == <<devs, interfaces, ifindex_counter, routes, freed, nextRoute, rcache,
          added, last, dead>>
tables == <<devs, interfaces, ifindex_counter, routes, freed, nextRoute, added>>

loopback == 1

Live(ifx) == ifx \in DOMAIN devs

\* list_del of these routes writes into its neighbours, list_add_tail into
\* the last entry: one that has been freed is written to.
UnlinkIsWild(ids) ==
    \E i, j \in DOMAIN routes :
        /\ routes[i].id \in ids /\ routes[j].id \in freed
        /\ j = i + 1 \/ i = j + 1

AppendIsWild == routes # <<>> /\ routes[Len(routes)].id \in freed

\* interface_by_name: 0 stands for NULL.
InterfaceByName(nm) ==
    LET named == {i \in DOMAIN interfaces : devs[interfaces[i]].name = nm}
    IN  IF named = {} THEN 0
        ELSE interfaces[CHOOSE i \in named : \A j \in named : i <= j]

\* struct rtable; `owner' is the talloc parent: the in_device or the route
\* with that number.
Rtable(dst, src, iif, dev, input, output, kind, id) ==
    [dst |-> dst, src |-> src, iif |-> iif, dev |-> dev, input |-> input,
     output |-> output, owner |-> [kind |-> kind, id |-> id]]

\* Mutant: entries stay in the cache.
Uncache_Nothing(cache, owners) == cache

\* talloc_free of owners: the destructor of each cache entry unlinks it.
Uncache(cache, owners) ==
    Kept(cache, {i \in DOMAIN cache : cache[i].owner \notin owners})

-----------------------------------------------------------------------------
(* Lookups. *)

NoRt == Rtable(0, 0, 0, 0, "none", "none", "none", 0)

\* What a lookup comes to: a "hit" in the cache, a "new" entry, "none" found,
\* or "wild" when it walks over freed memory; `cached' says that the entry
\* joins the cache.
Found(how, rt, cached) == [how |-> how, rt |-> rt, cached |-> cached]

FirstIn(S) == CHOOSE i \in S : \A j \in S : i <= j

\* The walk along `routes': it reads every entry up to the first that matches.
Matching(dst) == {i \in DOMAIN routes : routes[i].net # {} /\ dst \in routes[i].net}

WalkIsWild(dst) ==
    \E i \in DOMAIN routes :
        /\ routes[i].id \in freed
        /\ Matching(dst) # {} => i <= FirstIn(Matching(dst))

LocalDevs(dst) == {i \in DOMAIN interfaces : devs[interfaces[i]].addr = dst}

\* The part of a lookup behind the cache: local addresses, then the routes.
\* `dev' is the interface found, `id' the route it was found by.
Search(dst) ==
    IF LocalDevs(dst) # {}
    THEN [how |-> "local", dev |-> interfaces[FirstIn(LocalDevs(dst))], id |-> 0]
    ELSE IF WalkIsWild(dst) THEN [how |-> "wild", dev |-> 0, id |-> 0]
    ELSE IF Matching(dst) = {} THEN [how |-> "none", dev |-> 0, id |-> 0]
    ELSE LET r == routes[FirstIn(Matching(dst))]
         IN  [how |-> IF Live(r.dev) THEN "route" ELSE "wild", dev |-> r.dev, id |-> r.id]

\* Mutant: the incoming interface is not compared.
Hits_AnyIif(cache, dst, src, iif) ==
    {i \in DOMAIN cache : cache[i].dst = dst /\ cache[i].src = src}

\* The entries of the cache that a lookup accepts; iif is 0 for a packet of the
\* simulated host.
Hits(cache, dst, src, iif) ==
    {i \in DOMAIN cache :
        cache[i].dst = dst /\ cache[i].src = src /\ cache[i].iif = iif}

\* A lookup: the first hit in the cache, or the entry that Search gives rise to.
\* Only a route's entry or, where `keep' says so, a local one joins the cache.
LookupBy(hits, cache, t, local, routed, keep) ==
    CASE hits # {} -> Found("hit", cache[FirstIn(hits)], FALSE)
      [] hits = {} /\ t.how = "local" -> Found("new", local, keep)
      [] hits = {} /\ t.how = "route" -> Found("new", routed, TRUE)
      [] OTHER -> Found(t.how, NoRt, FALSE)

\* ip_route_input.  Entries for local addresses are not cached; the entry of a
\* forwarded packet is filed under the OUTGOING interface.
RouteInput(cache, dst, src, iif) ==
    LET t == Search(dst)
    IN  LookupBy(Hits(cache, dst, src, iif), cache, t,
            Rtable(dst, src, t.dev, loopback, "local", "none", "indev", t.dev),
            Rtable(dst, src, t.dev, t.dev, "forward", "output", "route", t.id), FALSE)

\* __ip_route_output_key, for a flow without interfaces.  (A lookup that failure
\* injection fails with -ENOMEM changes nothing.)
RouteOutput(cache, dst, src) ==
    LET t == Search(dst)
    IN  LookupBy(Hits(cache, dst, src, 0), cache, t,
            Rtable(dst, src, 0, loopback, "local", "output", "indev", t.dev),
            Rtable(dst, src, 0, t.dev, "none", "output", "route", t.id), TRUE)

\* What becomes of the packet: the device and the functions it is given to.
Via(res) == [how |-> IF res.how \in {"hit", "new"} THEN "routed" ELSE res.how,
             dev |-> res.rt.dev, input |-> res.rt.input, output |-> res.rt.output]

NoLookup == [dir |-> "none", got |-> Via(Found("none", NoRt, FALSE)),
             fresh |-> Via(Found("none", NoRt, FALSE))]

\* A lookup: the entry made joins the cache and the packet uses the device.
Lookup(dir, res, fresh) ==
    /\ dead = FALSE
    /\ res.cached => Len(rcache) < MaxCache
    /\ rcache' = IF res.cached THEN <<res.rt>> \o rcache ELSE rcache
    /\ last' = [dir |-> dir, got |-> Via(res), fresh |-> Via(fresh)]
    /\ dead' = \/ res.how = "wild"
               \/ res.how \in {"hit", "new"} /\ ~Live(res.rt.dev)
    /\ UNCHANGED tables

\* A packet from the network: ip_rcv_finish.
Receive(dst, src, iif) ==
    /\ Live(iif)
    /\ Lookup("in", RouteInput(rcache, dst, src, iif), RouteInput(<<>>, dst, src, iif))

\* A packet of the simulated host: ip_rcv_local.
SendLocal(dst, src) ==
    Lookup("out", RouteOutput(rcache, dst, src), RouteOutput(<<>>, dst, src))

-----------------------------------------------------------------------------
(* ifconfig *)

\* create_device and add_route_for_device.
IfUp(nm, c) ==
    /\ dead = FALSE /\ ifindex_counter <= MaxIf /\ nextRoute <= MaxRoute
    /\ InterfaceByName(nm) = 0
    /\ devs' = [i \in DOMAIN devs \cup {ifindex_counter} |->
                  IF i = ifindex_counter THEN [name |-> nm, addr |-> c.addr] ELSE devs[i]]
    /\ interfaces' = Append(interfaces, ifindex_counter)
    /\ ifindex_counter' = ifindex_counter + 1
    /\ routes' = Append(routes, [id |-> nextRoute, net |-> c.net,
                                 dev |-> ifindex_counter, user |-> FALSE])
    /\ nextRoute' = nextRoute + 1
    /\ dead' = AppendIsWild
    /\ added' = TRUE
    /\ last' = NoLookup
    /\ UNCHANGED <<freed, rcache>>

\* A bad argument: the half-made device is freed, its ifindex is spent.
IfUpFails(nm) ==
    /\ dead = FALSE /\ ifindex_counter <= MaxIf
    /\ InterfaceByName(nm) = 0
    /\ ifindex_counter' = ifindex_counter + 1
    /\ last' = NoLookup
    /\ UNCHANGED <<devs, interfaces, routes, freed, nextRoute, rcache, added, dead>>

\* set_device on an interface that is up: only the address changes.
IfSet(nm, a) ==
    /\ dead = FALSE
    /\ InterfaceByName(nm) # 0
    /\ devs' = [devs EXCEPT ![InterfaceByName(nm)].addr = a]
    /\ added' = TRUE
    /\ last' = NoLookup
    /\ UNCHANGED <<interfaces, ifindex_counter, routes, freed, nextRoute, rcache, dead>>

\* ifconfig ... down: freeing the device frees its own route and everything
\* cached from that route or for its addresses.
IfDown(nm) ==
    LET ifx == InterfaceByName(nm)
        own == {routes[i].id : i \in {j \in DOMAIN routes :
                    routes[j].dev = ifx /\ ~routes[j].user}}
        owners == {[kind |-> "indev", id |-> ifx]}
                    \cup {[kind |-> "route", id |-> i] : i \in own}
    IN  /\ dead = FALSE
        /\ ifx # 0
        /\ interfaces' = Kept(interfaces, {i \in DOMAIN interfaces : interfaces[i] # ifx})
        /\ devs' = [i \in DOMAIN devs \ {ifx} |-> devs[i]]
        /\ routes' = Kept(routes, {i \in DOMAIN routes : routes[i].id \notin own})
        /\ rcache' = Uncache(rcache, owners)
        /\ dead' = UnlinkIsWild(own)
        /\ last' = NoLookup
        /\ UNCHANGED <<ifindex_counter, freed, nextRoute, added>>

-----------------------------------------------------------------------------
(* route *)

SameNet(net) == {i \in DOMAIN routes : routes[i].net = net}

\* find_matching_route, or the loop of `route del': the walk to the first
\* entry with this network touches a freed one.
SearchIsWild(net) ==
    \E i \in DOMAIN routes :
        /\ routes[i].id \in freed
        /\ SameNet(net) # {} => i <= FirstIn(SameNet(net))

\* route add: in front of the list; the cache is left alone.
RouteAdd(net, nm) ==
    /\ dead = FALSE /\ nextRoute <= MaxRoute
    /\ \/ /\ SearchIsWild(net)
          /\ dead' = TRUE
          /\ UNCHANGED <<routes, nextRoute, added>>
       \/ /\ ~SearchIsWild(net) /\ SameNet(net) = {} /\ InterfaceByName(nm) # 0
          /\ routes' = <<[id |-> nextRoute, net |-> net,
                          dev |-> InterfaceByName(nm), user |-> TRUE]>> \o routes
          /\ nextRoute' = nextRoute + 1
          /\ added' = TRUE
          /\ UNCHANGED dead
    /\ last' = NoLookup
    /\ UNCHANGED <<devs, interfaces, ifindex_counter, freed, rcache>>

\* route del: the entry is freed, with what was cached from it; the destructor
\* of a device's route unlinks it, a route added by hand stays on the list.
RouteDel(net) ==
    /\ dead = FALSE
    /\ \/ /\ SearchIsWild(net)
          /\ dead' = TRUE
          /\ UNCHANGED <<routes, freed, rcache>>
       \/ /\ ~SearchIsWild(net) /\ SameNet(net) # {}
          /\ LET r == routes[FirstIn(SameNet(net))]
             IN  /\ rcache' = Uncache(rcache, {[kind |-> "route", id |-> r.id]})
                 /\ IF r.user
                    THEN freed' = freed \cup {r.id} /\ UNCHANGED <<routes, dead>>
                    ELSE /\ routes' = Kept(routes, {i \in DOMAIN routes : routes[i].id # r.id})
                         /\ dead' = UnlinkIsWild({r.id})
                         /\ UNCHANGED freed
    /\ last' = NoLookup
    /\ UNCHANGED <<devs, interfaces, ifindex_counter, nextRoute, added>>

-----------------------------------------------------------------------------
Init ==
    /\ devs = [i \in DOMAIN Boot |-> [name |-> Boot[i].name, addr |-> Boot[i].addr]]
    /\ interfaces = [i \in DOMAIN Boot |-> i]
    /\ ifindex_counter = Len(Boot) + 1
    /\ routes = [i \in DOMAIN Boot |-> [id |-> i, net |-> Boot[i].net, dev |-> i,
                                        user |-> FALSE]]
    /\ freed = {}
    /\ nextRoute = Len(Boot) + 1
    /\ rcache = <<>>
    /\ added = FALSE
    /\ last = NoLookup
    /\ dead = FALSE

Packets ==
    \E dst \in Addr, src \in Host :
        \/ \E iif \in 1..MaxIf : Receive(dst, src, iif)
        \/ SendLocal(dst, src)

Ifconfig ==
    \E nm \in Name :
        \/ \E c \in UpConf : IfUp(nm, c) \/ IfSet(nm, c.addr)
        \/ IfUpFails(nm)
        \/ IfDown(nm)

RouteCmd ==
    \E net \in Net : RouteDel(net) \/ \E nm \in Name : RouteAdd(net, nm)

Next == Packets \/ Ifconfig \/ RouteCmd

Spec == Init /\ [][Next]_vars

-----------------------------------------------------------------------------
(* Properties. *)

Handlers == {"none", "local", "forward", "output"}
Fate == [how : {"routed", "none", "wild"}, dev : Nat, input : Handlers, output : Handlers]

TypeOK ==
    /\ DOMAIN devs \subseteq 1..MaxIf
    /\ \A i \in DOMAIN devs : devs[i] \in [name : Name, addr : Addr]
    /\ interfaces \in Seq(DOMAIN devs) /\ Len(interfaces) <= MaxIf
    /\ ifindex_counter \in 1..(MaxIf + 1)
    /\ routes \in Seq([id : 1..MaxRoute, net : SUBSET Addr, dev : 1..MaxIf, user : BOOLEAN])
    /\ freed \subseteq 1..MaxRoute
    /\ nextRoute \in 1..(MaxRoute + 1)
    /\ rcache \in Seq([dst : Addr, src : Addr, iif : 0..MaxIf, dev : 1..MaxIf,
                       input : Handlers, output : Handlers,
                       owner : [kind : {"indev", "route"}, id : Nat]])
    /\ added \in BOOLEAN
    /\ last \in [dir : {"none", "in", "out"}, got : Fate, fresh : Fate]
    /\ dead \in BOOLEAN

\* Whatever the order in which interfaces and routes come and go, freeing a
\* device or a route takes along what was made from it: the cache holds no
\* entry of a device that is gone or of a route that was freed, and no route
\* of a device outlives it.  (talloc parents, destroy_route, destroy_rtable.)
NothingOutlivesItsOwner ==
    /\ \A i \in DOMAIN rcache :
         LET o == rcache[i].owner
         IN  IF o.kind = "indev" THEN Live(o.id)
             ELSE o.id \notin freed /\ \E j \in DOMAIN routes : routes[j].id = o.id
    /\ \A j \in DOMAIN routes : ~routes[j].user => Live(routes[j].dev)

\* dst_input and dst_output assert that the entry has the function they call,
\* although the cache mixes entries made for packets that come in, which may
\* have no output, with entries made for local ones, which may have no input.
EntryHasHandler ==
    /\ last.dir = "in" /\ last.got.how = "routed" => last.got.input # "none"
    /\ last.dir = "out" /\ last.got.how = "routed" => last.got.output # "none"

\* Tables and cache fit together after every order of additions and removals: what
\* is in them has a live owner, and an entry that is found has the function its
\* packet needs.
TablesFit == TypeOK /\ NothingOutlivesItsOwner /\ EntryHasHandler

\* The cache is invisible: a packet takes the way that the tables give now.
CacheTransparent == last.got = last.fresh

\* Taking interfaces and routes away never makes the cache stale, in whatever
\* order; only adding a route, an interface or an address can.
RemovalKeepsCacheTrue == ~added => CacheTransparent

\* Freed memory is only ever used after one of three things: the loopback
\* interface went down, a route added by hand was deleted, or the interface
\* of such a route went down.
WildHasACause ==
    dead => \/ ~Live(loopback)
            \/ freed # {}
            \/ \E j \in DOMAIN routes : routes[j].user /\ ~Live(routes[j].dev)

\* "route del network will delete the route": a deleted route is no longer in
\* the table.  TLC refutes it: a route made by `route add' has no destructor.
RouteDelDeletes == \A j \in DOMAIN routes : routes[j].id \notin freed
=============================================================================
