------------------------------ MODULE Packets -------------------------------
(***************************************************************************)
(* The way of a packet through the simulated host (core/ipv4/ipv4.c), the  *)
(* five netfilter hooks it passes, the queue of packets that a hook has    *)
(* put aside (core/core.c, tools/queue.c) and the one-shot hooks of the    *)
(* hook command (tools/hook.c).                                            *)
(*                                                                         *)
(* Everything runs inside of a command, gen_ip or queue.  The packets under*)
(* way are a stack, because an expired packet makes the host send an ICMP  *)
(* packet before it is freed.  The traversal of the hooks and nf_reinject  *)
(* belong to the kernel's netfilter.c, and modules register hooks of their *)
(* own: both are external.  Which route a packet gets is the subject of    *)
(* Routing; here a lookup gives any device or local address there is, or   *)
(* comes upon what `route add' has left on the list: a route made by hand  *)
(* is still there when it, or its device, has been freed.                  *)
(***************************************************************************)
EXTENDS Integers, Sequences, SequencesExt

CONSTANTS
    NPacket,        \* bound: packets ever made
    NDev,           \* the devices are 1..NDev, 1 is the loopback device
    Unsteady,       \* the devices that scripts take down or delete the route of
    ByHand,         \* the devices that scripts add a route for, one at a time
    ModulePrio,     \* priorities of the modules' hooks
    ModuleVerdicts, \* verdicts, other than NF_ACCEPT, they return
    ShotPrio,       \* priorities given to the hook command
    ShotHook,       \* hooks given to the hook command
    MaxShots,       \* bound: hooks ever made with the hook command
    MaxIds          \* bound: queue ids

ASSUME PacketsAssumption ==
    /\ NPacket \in Nat \ {0} /\ NDev \in Nat \ {0}
    /\ ModulePrio \subseteq Nat \ {0} /\ ShotPrio \subseteq Nat \ {0}
    /\ ModulePrio \cap ShotPrio = {}
    /\ Unsteady \subseteq 1..NDev /\ ByHand \subseteq 1..NDev
    /\ MaxShots \in Nat /\ MaxIds \in Nat

Packet == 1..NPacket
Dev == 1..NDev
loopback == 1
Hook == {"PRE_ROUTING", "LOCAL_IN", "FORWARD", "LOCAL_OUT", "POST_ROUTING"}
Verdict == {"NF_DROP", "NF_ACCEPT", "NF_STOLEN", "NF_QUEUE", "NF_REPEAT"}

ASSUME HooksAssumption ==
    /\ ShotHook \subseteq Hook
    /\ ModuleVerdicts \subseteq {"NF_DROP", "NF_STOLEN", "NF_QUEUE"}

VARIABLES
    pk,         \* the packets, see Skb
    stack,      \* the packets under way, the innermost last
    nfsim_queue,\* the queue
    queueid,
    shots,      \* the hooks of the hook command
    nshots,     \* how many were ever made
    up,         \* the devices that are up
    routed,     \* the devices whose own route is in the table
    hand,       \* the devices with a route added by hand
    lost,       \* those whose route by hand was freed and is still listed
    cmd,        \* the command being run, and the item `queue' has reinjected
    dead        \* "no", "stale" (a freed device or route was used), "empty" (a
                \* packet was taken from an empty queue), "item" (a freed queue
                \* item was unlinked) or "free" (a bad pointer was freed)

vars == <<pk, stack, nfsim_queue, queueid, shots, nshots, up, routed,
          hand, lost, cmd, dead>>
tables == <<up, routed, hand, lost>>
config == <<shots, nshots, up, routed, hand, lost>>

\* A place among the hooks at one point: priority, then order of registration;
\* n is 0 for a hook of a module.
Place == [prio : Nat, n : Int]
Start == [prio |-> 0, n |-> 0]
Before(a, b) == a.prio < b.prio \/ (a.prio = b.prio /\ a.n < b.n)

\* struct sk_buff.  pc: "hooks" in front of the hooks at `hook', behind `from';
\* "okfn" they have accepted it; "dying" its time is up.  dev: skb->dev, 0 for
\* NULL.  dst: the device of skb->dst, owner: the device whose fall frees it, gone:
\* it was freed.  exposed is history: a device or a route went while it was queued.
Skb == [fate : {"unborn", "path", "queued", "sent", "local", "dropped", "stolen"},
        pc : {"hooks", "okfn", "dying"}, hook : Hook, from : Place,
        dev : Dev \cup {0}, dst : Dev \cup {0}, owner : Dev \cup {0},
        local : BOOLEAN, gone : BOOLEAN, exposed : BOOLEAN]

Unborn == [fate |-> "unborn", pc |-> "hooks", hook |-> "PRE_ROUTING", from |-> Start,
           dev |-> 0, dst |-> 0, owner |-> 0, local |-> FALSE, gone |-> FALSE,
           exposed |-> FALSE]

\* A packet that has come to its end: nothing but that matters any more.
Late(fate) == [Unborn EXCEPT !.fate = fate]

NoCommand == [op |-> "none", item |-> 0]

Depth == Len(stack)
Cur == stack[Depth]
Freed == {"sent", "local", "dropped"}

Running(pc) == dead = "no" /\ stack # <<>> /\ pk[Cur].pc = pc
Prompt == dead = "no" /\ cmd = NoCommand

-----------------------------------------------------------------------------
(* Hooks. *)

\* What the hooks at h behind the place `from' can say: the first one-shot hook
\* that does not accept decides, unless a hook in front of it does.  Failure
\* injection makes any hook drop the packet (call_elem_hook).
Outcomes(h, from) ==
    LET behind == {s \in shots : s.hook = h /\ Before(from, s.place)}
        blocking == {s \in behind : s.verdict # "NF_ACCEPT"}
    IN  {[v |-> s.verdict, by |-> s.place] :
             s \in {b \in blocking : \A c \in blocking : ~Before(c.place, b.place)}}
        \cup {[v |-> m, by |-> p] : m \in ModuleVerdicts,
                 p \in {q \in [prio : ModulePrio, n : {0}] :
                          Before(from, q) /\ \A b \in blocking : Before(q, b.place)}}
        \cup {[v |-> "NF_DROP", by |-> s.place] : s \in behind}
        \cup {[v |-> "NF_ACCEPT", by |-> Start] : x \in {y \in {0} : blocking = {}}}

\* enqueue_packet
Item(p, by) == [id |-> queueid, skb |-> p, hook |-> pk[p].hook, by |-> by]

Enqueue(p, by) ==
    /\ queueid < MaxIds
    /\ nfsim_queue' = Append(nfsim_queue, Item(p, by))
    /\ queueid' = queueid + 1

\* NF_HOOK: the hooks have spoken.  A dropped packet is freed, a stolen one is
\* the thief's; an accepted one goes on with okfn.
HooksSay ==
    /\ Running("hooks")
    /\ \E o \in Outcomes(pk[Cur].hook, pk[Cur].from) :
         \/ /\ o.v = "NF_ACCEPT"
            /\ pk' = [pk EXCEPT ![Cur].pc = "okfn"]
            /\ UNCHANGED <<stack, nfsim_queue, queueid>>
         \/ /\ o.v \in {"NF_DROP", "NF_STOLEN"}
            /\ pk' = [pk EXCEPT ![Cur] =
                        Late(IF o.v = "NF_DROP" THEN "dropped" ELSE "stolen")]
            /\ stack' = Front(stack)
            /\ UNCHANGED <<nfsim_queue, queueid>>
         \/ /\ o.v = "NF_QUEUE"
            /\ Enqueue(Cur, o.by)
            /\ pk' = [pk EXCEPT ![Cur].fate = "queued"]
            /\ stack' = Front(stack)
    /\ UNCHANGED <<config, cmd, dead>>

-----------------------------------------------------------------------------
(* The functions the hooks accept a packet for. *)

AtHook(p, h) == [p EXCEPT !.pc = "hooks", !.hook = h, !.from = Start]

\* The end of the packet on top.
Ended(fate) ==
    /\ pk' = [pk EXCEPT ![Cur] = Late(fate)]
    /\ stack' = Front(stack)
    /\ UNCHANGED dead

\* A freed device or route is used.
Stale == dead' = "stale" /\ UNCHANGED <<pk, stack>>

\* A freed route is on the list, or a route whose device was freed.
Dangling == lost # {} \/ ~(hand \subseteq up)

\* A lookup or another walk along the routes: it reads the entries up to the one
\* it wants, and the device of that one (ip_route_input, __ip_route_output_key).
WalkIsStale == Dangling /\ Stale

\* Mutant: destroy_route leaves the route of a device on the list.
Lookups_Any ==
    [dst : {loopback}, owner : up, local : {TRUE}, gone : {FALSE}]
        \cup {[dst |-> d, owner |-> d, local |-> FALSE, gone |-> FALSE] : d \in Dev}

\* What a walk can find that meets nothing freed: a local address, which leads to
\* the loopback device, or a route, the device's own or one by hand, which nobody
\* owns; __ip_route_output_key and ip_route_input may also fail.
Lookups ==
    [dst : {loopback}, owner : up, local : {TRUE}, gone : {FALSE}]
        \cup {[dst |-> d, owner |-> d, local |-> FALSE, gone |-> FALSE] : d \in routed}
        \cup {[dst |-> d, owner |-> 0, local |-> FALSE, gone |-> FALSE] : d \in hand \cap up}

WithDst(p, r) ==
    [p EXCEPT !.dst = r.dst, !.owner = r.owner, !.local = r.local, !.gone = r.gone]

\* ip_rcv_finish and, for a packet that is not for this host, ip_forward up to
\* its hook: the time of the packet may be up.
IpRcvFinish ==
    /\ Running("okfn") /\ pk[Cur].hook = "PRE_ROUTING"
    /\ \/ pk[Cur].dev \notin up /\ Stale
       \/ pk[Cur].dev \in up /\ WalkIsStale
       \/ pk[Cur].dev \in up /\ Ended("dropped")
       \/ /\ pk[Cur].dev \in up
          /\ \E r \in Lookups :
               LET p == WithDst(pk[Cur], r)
               IN  \E q \in (IF r.local THEN {AtHook(p, "LOCAL_IN")}
                             ELSE {AtHook(p, "FORWARD"), [p EXCEPT !.pc = "dying"]}) :
                     pk' = [pk EXCEPT ![Cur] = q]
          /\ UNCHANGED <<stack, dead>>
    /\ UNCHANGED <<config, nfsim_queue, queueid, cmd>>

\* The time of a packet is up: icmp_send may give up for many reasons, or send
\* a packet of its own, which gets its device when it goes out ...
IcmpSend(q, r) ==
    /\ Running("dying") /\ pk[Cur].from = Start
    /\ pk[q].fate = "unborn" /\ \A p \in 1..(q - 1) : pk[p].fate # "unborn"
    /\ pk' = [pk EXCEPT
                ![Cur].from = [prio |-> 1, n |-> 0],
                ![q] = [WithDst(AtHook(Unborn, "LOCAL_OUT"), r) EXCEPT !.fate = "path"]]
    /\ stack' = Append(stack, q)
    /\ UNCHANGED <<config, nfsim_queue, queueid, cmd, dead>>

\* ... for which it finds the route itself.
IcmpStale ==
    /\ Running("dying") /\ pk[Cur].from = Start
    /\ WalkIsStale
    /\ UNCHANGED <<config, nfsim_queue, queueid, cmd>>

\* Mutant: ip_forward does not return.
Expired_GoesOn ==
    /\ Running("dying")
    /\ pk' = [pk EXCEPT ![Cur] = [AtHook(pk[Cur], "FORWARD") EXCEPT !.fate = "dropped"]]
    /\ UNCHANGED <<stack, dead>>
    /\ UNCHANGED <<config, nfsim_queue, queueid, cmd>>

\* The expired packet is freed.
Expired ==
    /\ Running("dying")
    /\ Ended("dropped")
    /\ UNCHANGED <<config, nfsim_queue, queueid, cmd>>

\* Mutant: the packet is sent back to where it came from.
DstOutput_Back ==
    /\ Running("okfn") /\ pk[Cur].hook \in {"FORWARD", "LOCAL_OUT"}
    /\ pk' = [pk EXCEPT ![Cur] = AtHook(pk[Cur], "LOCAL_OUT")]
    /\ UNCHANGED <<stack, dead>>
    /\ UNCHANGED <<config, nfsim_queue, queueid, cmd>>

\* dst_output, ip_output and ip_finish_output.
DstOutput ==
    /\ Running("okfn") /\ pk[Cur].hook \in {"FORWARD", "LOCAL_OUT"}
    /\ \/ pk[Cur].gone /\ Stale
       \/ /\ ~pk[Cur].gone
          /\ pk' = [pk EXCEPT ![Cur] =
                      [AtHook(@, "POST_ROUTING") EXCEPT !.dev = pk[Cur].dst]]
          /\ UNCHANGED <<stack, dead>>
    /\ UNCHANGED <<config, nfsim_queue, queueid, cmd>>

\* nf_send counts the packet in the device and frees it.
NfSend ==
    /\ Running("okfn") /\ pk[Cur].hook = "POST_ROUTING"
    /\ \/ pk[Cur].dev \notin up /\ Stale
       \/ pk[Cur].dev \in up /\ Ended("sent")
    /\ UNCHANGED <<config, nfsim_queue, queueid, cmd>>

NfSendLocal ==
    /\ Running("okfn") /\ pk[Cur].hook = "LOCAL_IN"
    /\ Ended("local")
    /\ UNCHANGED <<config, nfsim_queue, queueid, cmd>>

-----------------------------------------------------------------------------
(* gen_ip and hook. *)

\* send_packet: a packet for ip_rcv ...
GenIp(p, d) ==
    /\ Prompt /\ d \in up
    /\ pk[p].fate = "unborn" /\ \A q \in 1..(p - 1) : pk[q].fate # "unborn"
    /\ pk' = [pk EXCEPT ![p] = [Unborn EXCEPT !.fate = "path", !.dev = d]]
    /\ stack' = <<p>>
    /\ cmd' = [op |-> "gen_ip", item |-> 0]
    /\ UNCHANGED <<config, nfsim_queue, queueid, dead>>

\* ... or for ip_rcv_local, which finds the route first.
GenIpLocal(p, r) ==
    /\ Prompt
    /\ pk[p].fate = "unborn" /\ \A q \in 1..(p - 1) : pk[q].fate # "unborn"
    /\ pk' = [pk EXCEPT ![p] = [WithDst(AtHook(Unborn, "LOCAL_OUT"), r) EXCEPT
                                  !.fate = "path", !.dev = r.dst]]
    /\ stack' = <<p>>
    /\ cmd' = [op |-> "gen_ip", item |-> 0]
    /\ UNCHANGED <<config, nfsim_queue, queueid, dead>>

\* Bad arguments, no such interface or no route: nothing enters.  Without hooks to
\* clear it would be no step.
GenIpFails ==
    /\ Prompt /\ shots # {}
    /\ cmd' = [op |-> "gen_ip", item |-> 0]
    /\ UNCHANGED <<pk, stack, config, nfsim_queue, queueid, dead>>

\* hook_post_cleanup: the hooks are unregistered, and freed with free although
\* they come from talloc.
GenIpEnds ==
    /\ dead = "no" /\ cmd.op = "gen_ip" /\ stack = <<>>
    /\ shots' = {}
    /\ cmd' = NoCommand
    /\ dead' \in IF shots = {} THEN {"no"} ELSE {"no", "free"}
    /\ UNCHANGED <<pk, stack, nfsim_queue, queueid, nshots, tables>>

HookCmd(h, prio, v) ==
    /\ Prompt /\ nshots < MaxShots
    /\ shots' = shots \cup {[hook |-> h, verdict |-> v,
                             place |-> [prio |-> prio, n |-> nshots + 1]]}
    /\ nshots' = nshots + 1
    /\ UNCHANGED <<pk, stack, nfsim_queue, queueid, tables, cmd, dead>>

-----------------------------------------------------------------------------
(* queue *)

\* Without a number the front of the queue is taken, unseen.
QueueEmpty ==
    /\ Prompt /\ nfsim_queue = <<>>
    /\ dead' = "empty"
    /\ UNCHANGED <<pk, stack, nfsim_queue, queueid, config, cmd>>

\* nf_reinject: a packet whose hook is gone is dropped; NF_ACCEPT goes on
\* behind that hook, NF_REPEAT asks it again.
Reinject(i, v) ==
    /\ Prompt /\ i \in DOMAIN nfsim_queue
    /\ LET it == nfsim_queue[i]
           p == it.skb
           there == it.by.n = 0 \/ \E s \in shots : s.place = it.by
           w == IF there THEN v ELSE "NF_DROP"
       IN  /\ cmd' = [op |-> "queue", item |-> it.id]
           /\ \/ /\ w \in {"NF_DROP", "NF_STOLEN"}
                 /\ pk' = [pk EXCEPT ![p] =
                             Late(IF w = "NF_DROP" THEN "dropped" ELSE "stolen")]
                 /\ UNCHANGED <<stack, nfsim_queue, queueid>>
              \/ /\ w \in {"NF_ACCEPT", "NF_REPEAT"}
                 /\ pk' = [pk EXCEPT ![p].fate = "path",
                             ![p].from = IF w = "NF_ACCEPT" THEN it.by
                                         ELSE [it.by EXCEPT !.n = @ - 1]]
                 /\ stack' = <<p>>
                 /\ UNCHANGED <<nfsim_queue, queueid>>
              \/ /\ w = "NF_QUEUE"
                 /\ Enqueue(p, it.by)
                 /\ UNCHANGED <<pk, stack>>
    /\ UNCHANGED <<config, dead>>

\* Mutant: the reinjected item stays.
QueueEnds_Keeps ==
    /\ dead = "no" /\ cmd.op = "queue" /\ stack = <<>>
    /\ cmd' = NoCommand
    /\ UNCHANGED <<pk, stack, nfsim_queue, queueid, config, dead>>

\* The queue command unlinks the item it has reinjected.  It belongs to the
\* packet: when that was freed, the item was too.
QueueEnds ==
    /\ dead = "no" /\ cmd.op = "queue" /\ stack = <<>>
    /\ LET i == CHOOSE j \in DOMAIN nfsim_queue : nfsim_queue[j].id = cmd.item
       IN  /\ nfsim_queue' = RemoveAt(nfsim_queue, i)
           /\ dead' \in IF pk[nfsim_queue[i].skb].fate \in Freed THEN {"no", "item"}
                        ELSE {"no"}
    /\ cmd' = NoCommand
    /\ UNCHANGED <<pk, stack, queueid, config>>

-----------------------------------------------------------------------------
(* ifconfig down and route, see Routing. *)

\* The routes of the packets `freed' are freed under the packets that wait.
Withdraw(freed) ==
    pk' = [p \in Packet |->
             [pk[p] EXCEPT !.gone = @ \/ p \in freed,
                           !.exposed = @ \/ pk[p].fate = "queued"]]

\* The destructor of a device's route writes into its neighbours on the list.
UnlinkMayBeWild == dead' \in IF lost = {} THEN {"no"} ELSE {"no", "stale"}

\* A route added by hand outlives its device.
IfDown(d) ==
    /\ Prompt /\ d \in up
    /\ Withdraw({p \in Packet : pk[p].owner = d})
    /\ up' = up \ {d} /\ routed' = routed \ {d}
    /\ UnlinkMayBeWild
    /\ UNCHANGED <<stack, nfsim_queue, queueid, shots, nshots, hand, lost, cmd>>

RouteDel(d) ==
    /\ Prompt /\ d \in routed
    /\ Withdraw({p \in Packet : pk[p].owner = d /\ ~pk[p].local})
    /\ routed' = routed \ {d}
    /\ UnlinkMayBeWild
    /\ UNCHANGED <<stack, nfsim_queue, queueid, shots, nshots, up, hand, lost, cmd>>

\* route add: find_matching_route reads the whole list.
RouteAdd(d) ==
    /\ Prompt /\ d \in up \ hand /\ lost = {}
    /\ hand' = hand \cup {d}
    /\ UNCHANGED <<pk, stack, nfsim_queue, queueid, shots, nshots, up, routed, lost, cmd, dead>>

\* route del of a route added by hand: it has no destructor and stays listed.
RouteDelByHand(d) ==
    /\ Prompt /\ d \in hand
    /\ Withdraw({p \in Packet : pk[p].owner = 0 /\ pk[p].dst = d})
    /\ hand' = hand \ {d} /\ lost' = lost \cup {d}
    /\ UNCHANGED <<stack, nfsim_queue, queueid, shots, nshots, up, routed, cmd, dead>>

\* The commands that walk along the routes: route, and gen_ip for this host.
CommandIsStale ==
    /\ Prompt
    /\ WalkIsStale
    /\ UNCHANGED <<config, nfsim_queue, queueid, cmd>>

-----------------------------------------------------------------------------
Init ==
    /\ pk = [p \in Packet |-> Unborn]
    /\ stack = <<>> /\ nfsim_queue = <<>> /\ queueid = 0
    /\ shots = {} /\ nshots = 0
    /\ up = Dev /\ routed = Dev /\ hand = {} /\ lost = {}
    /\ cmd = NoCommand
    /\ dead = "no"

Places == [prio : ModulePrio \cup ShotPrio \cup {0}, n : 0..MaxShots]

\* The steps inside of a command.
Step ==
    \/ HooksSay \/ IpRcvFinish \/ DstOutput \/ NfSend \/ NfSendLocal
    \/ \E q \in Packet, r \in Lookups : IcmpSend(q, r)
    \/ IcmpStale \/ Expired
    \/ GenIpEnds \/ QueueEnds

Next ==
    \/ Step
    \/ \E p \in Packet, d \in Dev : GenIp(p, d)
    \/ \E p \in Packet, r \in Lookups : GenIpLocal(p, r)
    \/ GenIpFails
    \/ \E h \in ShotHook, prio \in ShotPrio, v \in {"NF_ACCEPT", "NF_DROP", "NF_QUEUE"} :
          HookCmd(h, prio, v)
    \/ QueueEmpty
    \/ \E i \in 1..NPacket, v \in Verdict : Reinject(i, v)
    \/ \E d \in Unsteady : IfDown(d) \/ RouteDel(d)
    \/ \E d \in ByHand : RouteAdd(d) \/ RouteDelByHand(d)
    \/ CommandIsStale

Spec == Init /\ [][Next]_vars

\* A command that was started runs; nobody has to type the next one.
FairSpec == Spec /\ WF_vars(Step)

-----------------------------------------------------------------------------
(* Properties. *)

TypeOK ==
    /\ pk \in [Packet -> Skb]
    /\ stack \in Seq(Packet)
    /\ nfsim_queue \in Seq([id : 0..MaxIds, skb : Packet, hook : Hook, by : Places])
    /\ queueid \in 0..MaxIds
    /\ shots \subseteq [hook : ShotHook, verdict : Verdict, place : Places]
    /\ nshots \in 0..MaxShots
    /\ up \subseteq Dev /\ routed \subseteq up
    /\ hand \subseteq Dev /\ lost \subseteq Dev
    /\ cmd \in [op : {"none", "gen_ip", "queue"}, item : 0..MaxIds]
    /\ dead \in {"no", "stale", "empty", "item", "free"}

\* No packet is lost and none is held twice: between commands the queue holds
\* exactly the packets that wait, each once, in the order in which they came,
\* and every other packet has come to its end, also after a reinjected packet
\* was queued again or an ICMP packet was queued in the middle of another.
EveryPacketAccounted ==
    /\ TypeOK
    /\ Prompt =>
        /\ {nfsim_queue[i].skb : i \in DOMAIN nfsim_queue}
              = {p \in Packet : pk[p].fate = "queued"}
        /\ \A i, j \in DOMAIN nfsim_queue :
              i < j => /\ nfsim_queue[i].id < nfsim_queue[j].id
                       /\ nfsim_queue[i].skb # nfsim_queue[j].skb
        /\ \A p \in Packet : pk[p].fate # "path"

\* The routes are looked at by commands, for a packet that has come in and for the
\* ICMP packet about one that has expired.
LookingUp ==
    \/ stack = <<>>
    \/ pk[Cur].hook = "PRE_ROUTING" \/ pk[Cur].pc = "dying"

\* As long as the loopback device stays up, freed devices and routes are used on two
\* occasions only: by a packet that was waiting in the queue when `ifconfig down' or
\* `route del' came; and by a walk along the routes when a route added by hand, or
\* the device of one, was freed (it stays on the list, route.c).  A packet that has
\* its route and has not waited uses nothing freed, whatever is on the list.
StaleHasACause ==
    dead = "stale" =>
        \/ loopback \notin up
        \/ Dangling /\ LookingUp
        \/ stack # <<>> /\ pk[Cur].exposed

\* The packets as Fates sees them.
Abstract == INSTANCE Fates WITH fate <- [p \in Packet |-> pk[p].fate]

\* Whatever hooks, scripts and interfaces do, a packet has one life: it is
\* never sent after it was dropped, nor delivered twice (kfree_skb).
OneLife == Abstract!Spec

\* A command comes to its end, with all the packets it has set in motion.
CommandsEnd == (cmd # NoCommand) ~> (cmd = NoCommand \/ dead # "no" \/ queueid = MaxIds)
=============================================================================
