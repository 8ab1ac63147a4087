# TLA+ specifications of nfsim

nfsim runs netfilter kernel code in user space. A script of commands
(`ifconfig`, `route`, `gen_ip`, `iptables`, `time`, `expect`, ...) drives a
simulated IPv4 host; with `--failtest` the simulator forks at every place where
kernel code could fail and tries the failing branch as well. A netfilter test
suite trusts the verdict of such a run, so what has to be right is the
simulator's own bookkeeping: which processes exist and who reports, which timers
fire and when, who may use which memory, and when a script counts as passed.

Paths below are relative to the repository.

## 1. Inventory

| Component | Source | State | Operations | Module |
|---|---|---|---|---|
| failure injection | core/failtest.c | `decisions`, `fails`, `excessive_fails`, `failpath`, the tree of forked processes | `should_i_fail`, `should_i_fail_once`, `do_failpath` | FailTest |
| timers, clock | kernelenv/kernelenv.c, tools/time.c | `jiffies`, `__timers`, `__running_timers`, `timer->use` | `add_timer`, `del_timer`, `increment_time`, `do_running_timers`, `schedule`, `time` | Timers |
| user programs | core/message.c, core/fakesockopt.c, tools/iptables.c | sockets, pipes, program and simulator processes | start, system call, user copy, fork request, exit status | Sockopt |
| interfaces, routes | tools/ifconfig.c, tools/route.c, core/ipv4/ipv4.c | `interfaces`, `routes`, `rcache`, the talloc tree below them | `ifconfig`, `route`, `ip_route_input`, `__ip_route_output_key` | Routing |
| command interpreter, log | core/tui.c, core/log.c | the current commands, `tui_abort_on_fail` | `tui_do_command`, `process_line`, the command hooks, `nfsim_log` | Script |
| expectations | core/expect.c | the list of `struct expect`, the command stack | `expect_cmd`, `expect_log_hook`, `expect_post_command` | Script |
| TCP sessions | tools/tcpsession.c | the session, the sequence numbers of its two ends | OPEN, SEND, CLOSE, RESET, LENCHANGE, ABANDON, `tcp_send` | Wire; Script for the nested commands |
| hooks, verdicts, queue | core/core.c, tools/queue.c, tools/hook.c | `nf_hooks`, the queue of packets, hook overrides | `nf_hook_slow`, `enqueue_packet`, `nf_reinject`, `queue`, `hook` | Packets, Fates |
| packet path, fragments | core/ipv4/ipv4.c | the packet under way, `fraglist` | `ip_rcv`, `ip_forward`, `ip_defrag` ... | Packets; Routing for the route; Wire for reassembly |
| packet generators, checksums | tools/gen_ip.c, core/ipv4/ipv4.c | none | `gen_ip`, `do_csum`, `csum_partial`, `csum_fold` | Wire, Checksum |
| socket buffers | kernelenv/kernelenv.c | head, data, tail, end, the master copy | `skb_*`, `nfsim_check_packet`, `nfsim_update_skb` | Skb, PacketBytes |
| module loader | tools/module.c, core/core.c | loaded modules, use counts, the leak check | `insmod`, `rmmod`, `-a`, `try_module_get`, `module_put` | Modules (the timer run of `rmmod` is in Timers) |
| notifier chains | kernelenv/kernelenv.c | the list, the fields that mark its blocks | register, unregister, call | Notifier, in Modules |
| proc tree, slab caches | kernelenv/ | entries and tables; object counts | `create_proc_entry`, `register_sysctl_table`, `kmem_cache_*` | ProcTree, in Modules |
| seq_file | core/seq_file.c | buffer, rest, index, position | `seq_read`, `seq_lseek`, `traverse` | SeqFile |
| talloc | core/talloc.c | the allocation tree | alloc, free, steal, reference, unlink, realloc, destructors | Talloc |
| locks, bottom halves | kernelenv/ | lock words, the preemption counts | lock, unlock and their checks | not modelled |
| fields, info, strace, echo, version, config | tools/, core/field.c | almost none | printing | not modelled |
| IPv6 | core/ipv6/ | none | stubs | not modelled |

How they interact. A line of the script becomes a call of `tui_do_command`,
which runs the pre-command hooks, the handler and the post-command hooks: first
the one that runs pretended-running timers, then the one of `hook`, then the one
that judges expectations (helpers register at the head of the list in the order
in which they are linked). A handler may call kernel code, which arms timers,
queues packets, allocates memory and calls `should_i_fail`. `iptables` starts a
real program with a preloaded library that turns its socket options into
messages; when failure injection forks the simulator inside such a call, the
program is asked to fork too. All log lines pass through the expectations.

What is hard here is not parallelism inside of the simulator, which is one
thread, but: forks in the middle of anything; two processes that talk over
sockets while each of them forks, crashes or exits; callbacks that edit the list
that is being walked; memory that is owned by one thing and pointed to by
another; a clock that wraps; commands that run commands. The list of hazards in
PROJECT.json gives the line at which each of them bites and the property that
would notice.

## 2. Modules

Each module declares its bounds as constants; `MC*.tla` and the `.cfg` files give
them values. In the modules, an operator with the name of another one and a
suffix (`DoFailpath_Short`) is a deliberately wrong variant: replacing the
original by it must break the property it is listed with. They show that the
properties notice such mistakes and belong to no specification.

### Lists

`Kept` is deletion from a linked list as the list macros of core/list.h do it: the entries at
some places, in their order. Timers, Routing and Modules use it.

### FailTest: failure injection

The live processes form a stack, because a parent sleeps in `waitpid` while its
child runs: `procs[1]` is the process the user started, only the last one moves.
A process is its globals (`decisions`, `fails`, `excessive_fails`, `failpoints`,
`failpath`) and the answers its code under test was given. The code under test
is external, but deterministic: `prog` is the function from the answers so far to
its next move, made up while it is run and kept afterwards, so that a run of TLC
ranges over all programs. `ShouldIFail` and `ShouldIFailOnce` are the two entry
points with their early returns; `Inject` is the fork; `ReapGood` and `ReapBad`
are what the parent does when `waitpid` returns. When the first run has printed a
path, `StartReplay` starts the same program with `--failpath`.
The text of a path is abstracted to the sequence of its decisions; that
`should_i_fail_once` searches it with `strstr` is kept as the relation `Within`
(the name of one place occurs in the name of another) and the rule that only the
first occurrence is looked at.

### Timers: timers and the clock

`timers` and `running` are the two lists; `at` and `walk` say where control is,
with the saved next element of the loop in progress. Callbacks are external: from
one, as from a command, any timer may be armed or deleted. `del_timer` may be
failed once for each of its call sites, in which case the timer is pretended to
run on another CPU and moves to `running`. `use` keeps the difference between a
NULL and a dangling `timer->use`. Following an element that has left the list is
undefined behaviour and ends the run (`dead = "wild"`), as does unlinking an entry
that is in no list (`"double"`). Clock and `int` argument keep their widths, as
`LongSpan` and `IntSpan`. `TimeAdvance` takes negative numbers too, as `time +-n` does;
`MaxBack` bounds how far they set the clock back in a run, `back` counts it. `faked` holds
the timers that a deletion made to fail has left running, `meddled` says that a callback
has deleted a timer.

### Sockopt: user programs

`sim[n]` and `prog[n]` are simulator n and its program, `toProg`, `toSim` and
`out` what is unread in sockets and pipe n. A write to a socket nobody holds the
other end of is lost; `ProgEndOpen` counts the holders, including a descriptor
inside an unread fork message. One action for each wake-up of `select`, each
message, each return of `waitpid`. Kernel code may copy, fail a copy point, crash;
programs may print, call, exit, and fault while they serve a copy.

### Routing: interfaces, routes, route cache

`devs` are the devices that are allocated, `interfaces` the list, `routes` the
table in order, `rcache` the cache. Each cache entry names its talloc parent, so
freeing a device or a route says what goes along (`Uncache`). A route added by
hand has no destructor and stays on the list when it is freed (`freed`). Any use
of freed memory sets `dead`. `RouteInput` and `RouteOutput` are the two lookups,
`Search` what they do behind the cache. A network is the set of addresses it
matches. `last` records what the last lookup gave and what it would have given
with an empty cache.

### Packets and Fates: the packet path, the hooks, the queue

`pk[p]` is `struct sk_buff` p: where it is (`fate`, `pc`, `hook`, and the place `from`
behind which the hooks still have to be asked), its device and its route. `stack`
holds the packets under way: an expired packet waits in `ip_forward` while the ICMP
packet it caused travels. `HooksSay` is the end of `NF_HOOK`; `IpRcvFinish`,
`DstOutput`, `NfSend` and `NfSendLocal` are the functions hooks accept a packet for.
`GenIp` and `GenIpLocal` put a packet in, `GenIpEnds` clears the one-shot hooks that
`HookCmd` made, `Reinject` and `QueueEnds` are the two halves of the queue command.
The traversal of the hooks and `nf_reinject` are kernel code that is not in the
repository: `Outcomes` and `Reinject` say what nfsim relies on (order by priority;
a packet whose hook is gone is dropped; NF_REPEAT asks the same hook again). Modules'
hooks return any of `ModuleVerdicts`, failure injection makes any hook drop.
A lookup gives any local address or route there is; which one is the subject of
Routing, and `IfDown` and `RouteDel` free what they free there. `hand` are the devices with
a route that `route add` has made, `lost` those whose route `route del` has freed: such a
route has no destructor and stays on the list, also when its device goes, and a walk along
the list may then read freed memory (`WalkIsStale`) or get past it. `ByHand` bounds the devices
routes are added for. `dead` says how a run
ended in undefined behaviour: a freed device or route was used (`"stale"`), the
front of an empty queue was taken (`"empty"`), a freed queue item was unlinked
(`"item"`), talloc'd memory was given to `free` (`"free"`); the last two may also go
well.

Fates is what a script may rely on: a packet enters once, may wait any number of
times, and comes to one end. `OneLife` says that Packets implements it, with
`fate <- [p \in Packet |-> pk[p].fate]`.

### Script: commands and expectations

`stack` is the stack of `tui_do_command` calls, `expect` the list of expectations,
newest first, with the number of the line each has matched. The loop of
`expect_post_command` is taken element by element because it logs in its middle,
and what it logs can match the expectations that remain. `tcp_send` is the one
command that runs others. Handlers are external: they log lines, succeed or fail.
The pattern language is the relation `Matches`. `runs` and `asked` are histories.

### Talloc: the allocator

`mem[p]` is the header in front of block p, with the code's own links: siblings in a
doubly linked list of which only the first knows the parent, handles of references,
the destructor and whether it is running. `stack` holds the calls of `talloc_free`
under way. Destructors are callers: inside of one, any block may be allocated, freed,
stolen, unlinked, moved or referred to (`CallerNext`). `FreeChild`, `Abandon`,
`ChildFreed`, `FreeEnds` are the rounds of `talloc_free_children` and the end of
`talloc_free`. An address is not used again. Two rules bind the callers: they build
no cycle (`KeptBy`), and what is done to a block whose free is past its destructor, and the
stealing of one that is being freed or holds one that is, is recorded in `misused`, because
the library does not survive it.

### Skb and PacketBytes: socket buffers

One packet: `buf` is the memory between head and end, offsets count from head, `extra`
and `writable` are the hidden master copy that nfsim compares it with. Uninitialised
head- and tailroom is a nondeterministic choice. `Store` is a write of the code under
test, anywhere in the linear part; `stained` remembers which of them were forbidden.
PacketBytes is what a packet is to its user: bytes and the place of the network header.
`LayoutHidden` says that Skb implements it, with `bytes <- Contents(skb)`, and which step of
it each routine takes (`AsAsked`): reading, linearizing, expanding and making writable none
at all, a store the write of its byte, `skb_put(n)` that of n bytes at the end, and so on.

The definitions of Skb, Wire and SeqFile that every module has carry a prefix (`SkbSpec`,
`WireSpec`, `SeqSpec`), because the proofs about them share a module with those of Modules.

### Modules, Notifier, ProcTree: the loader and what modules leave behind

Notifier is the chain of `register_inetaddr_notifier`, threaded through memory of the
modules; ProcTree the directories of /proc that modules write to. Modules composes them
with the loader: `at` says whose code runs (an init function, an exit function, a
callback), and while it does that module may register, unregister, create, remove,
allocate, get and put, up to `MaxChanges` times. `ReadDir` and `EndOfDir` are the passes of
`load_all_modules`; `Sweep` is `unload_all_modules`, for `rmmod -a` and at exit, where
`check_allocations` gives the verdict. `owes` is the history of what was registered and
not given back, `careful` says that rmmod was not used on a module that others need. The
files of modules in /proc/net have different names, and what a path begins with is no name
of a file; the files of their sysctl tables may share one. Two restrictions: a module that
went and left something behind is not loaded again (`Spent`), since what it left would have
to be told from what its second life makes; and the block of a module that was unloaded
stays readable, where a walk in the code would run into memory that `dlclose` has unmapped. No
property depends on either.

### SeqFile: reading /proc through seq_file

A byte of text is the pair of its record and its place in it; `Upto` is the text of the
first records of a table. `seq_file` is `struct seq_file` with the bytes that wait in its
buffer. `Collect` is what `seq_read` does behind the
flush, with the doubling of the buffer, `traverse` and `seq_lseek` the seek. Records may
be empty, longer than the buffer or fail in `show`; between two calls the table may
change. The buffer doubles without end in the code; here a record is shorter than 256
pages, so that eight times (`Doublings`) are enough.

### Checksum and Wire: packets as bytes

Checksum is the arithmetic of `do_csum` and its callers on bytes of base `Base`, with the
width of a long and the byte order as constants, and `InternetSum` as the reference. Wire
uses it for the packets of `gen_ip` and the patched header of `ip_forward`; has the list of
fragments of `ip_defrag` (one pair of hosts, a datagram of `MaxData` bytes cut in any way);
and the two ends of tcpsession. The box under test is external: `shift` is how a box that
changes the length of data as LENCHANGE announced it has to shift the numbers. A send can
fail before its packet is made (`tcp_send_fails`) and, since the post-command hook of the
nested `gen_ip` judges expectations, after it has gone out (`tcp_send_fails_late`); either way
the session counts nothing.

## 3. Runs

Sizes are those of TLC's distinct states.

| Run | Checks | Bounds |
|---|---|---|
| failtest | TypeOK, EveryCombinationTried, ReportedOnce, FailuresCounted, ReplayReproduces, Terminates | all programs of up to 3 failure points over an ordinary and a once-only place; 0.9 million |
| timers | ListsSound, ArmingsAnswered, NeverAstray, BackwardsOnlyWhenTold, CommandsEnd | 2 timers, 2 deletion sites, clock of 10 jiffies, set back by up to 2; 1.5 million |
| sockopt | InStep, StatusIsTrue, EverybodyExits, no deadlock | 3 simulators, 2 calls, 1 copy; 165 thousand |
| routing | TablesFit, WildHasACause, RemovalKeepsCacheTrue | 3 interfaces at boot, a fourth later, 5 routes, 1 cache entry; 0.7 million |
| packets | EveryPacketAccounted, StaleHasACause, OneLife, CommandsEnd | 2 packets, lo and one device that comes down, 1 route by hand over it, 1 module hook, 1 one-shot hook behind it, 2 queue ids; 1.0 million |
| script | PassMeansFulfilled, FailureMeansExpected, ExpectationsCleared | 5 commands, 2 patterns, 2 logged lines; 9.9 million |
| talloc | TreeSound, FreedLast, FreesEnd | 4 blocks, frees nested 3 deep, 2 calls by a destructor, 1 steal; 465 thousand |
| skb | AlarmIsTrue, LayoutHidden, NeverLessWritable | bytes of 2 values, packets of up to 3, rooms of up to 1; 119 thousand |
| modules | LoaderSound, LeakCheckIsTrue, EventReachesAll, LoadAllComplete, CommandsEnd | 3 modules, 3 notifier blocks, 2 commands, 2 changes in each function; 327 thousand |
| seqfile | ReadsTheText, EofIsTheEnd, no deadlock | tables of up to 4 records, pages of 2 bytes, 4 reads and seeks; 113 thousand |
| wire | ChecksumsHold, SessionInStep, NothingHeldBack | base 8, 5 bytes of data, 3 places for fragments; 4 commands; 25 thousand |
| wire_defrag | ReassembledWhole is violated | the same |

Why the bounds are enough for the interesting cases.

- failtest: three points are enough for a once-only place to be asked twice with
  another one between, for a report from the third level of forks and for the
  warning about ignored failures. For the last, `Excessive`, 2 in the code, is 1 in
  this run. A barf is left out of `Outcomes`; a parent treats it like a signal, and
  the replay barfs by itself when it meets the wrong place.
- timers: the order across the wrap only makes sense while expiry times that are
  compared lie within half of the clock's range. A timer is at most 4 jiffies ahead, the
  largest delay and what the clock is set back, below 10 / 2; with HZ = 100 and 32 bits the
  same condition says 248 days. `Delays` has no 0: see section 6. Two timers are enough for
  what the properties say until a callback deletes a timer; beyond that see `meddled` in
  section 5.
- sockopt: three simulators give a fork inside a forked simulator and two forks,
  one after the other, of the same one. `PipeCap` is 2, so that pipes fill up but
  a line about a forked copy always finds room; see section 6 for 1.
- routing: a lookup uses one cache entry, and no step treats an entry in
  dependence of another one, so one entry at a time shows every staleness. It does
  not show the order of entries, and the properties do not depend on it.
- packets: two packets are a forwarded one and the ICMP packet it causes, or one that
  waits while another travels; two ids let both wait, or one be queued again while its
  first item is still in the queue. (With three ids and no routes by hand, where one is
  requeued behind the other, TLC finds no error either.) One route by hand is enough to be
  freed with `route del`, or to lose its device, or both. The loopback device stays up in this
  run (`Unsteady`).
- script: five commands hold two expectations, then tcpsession with its nested
  expect and gen_ip.
- talloc: four blocks are a parent with two children and a reference, so that a child
  is abandoned to its referrer while a sibling is still to be freed, or a destructor
  frees its own sibling. A handle of a reference counts as a block.
- skb: three bytes give a linear byte that is writable, one that is not, and one that
  is not linear.
- modules: the one that needs another can come first in the directory, which takes
  three passes; two of the modules share the name of their sysctl file, one makes its
  /proc file by a path. `MaxCommands` counts commands; the end of the script comes on top.
- seqfile: with pages of 2 bytes records of 0, 1, 2 and 4 bytes fit, fit exactly and make
  the buffer grow once or twice.
- wire: all sums of shorts of up to five bytes drawn from 0, 1 and 7 pass through every
  carry, odd length and alignment; initial sequence numbers lie just below the wrap; four
  fragments overrun the list of three.

Deadlock is checked for Sockopt, where everybody waits on everybody, and SeqFile. The
other systems may stop: nobody types a next command, the simulator has exited, or a
bound has been reached.

Fairness. FailTest: weak fairness of the next step; the running process is
scheduled by the operating system and `waitpid` returns. Sockopt: weak fairness of
each simulator and each program, for the same reason; nothing is assumed about
what they choose, a program that calls forever is excluded by the bound on calls.
Timers: weak fairness of the loops and of the return of a callback, strong fairness
of the return of a command's handler: a handler may call `schedule` again and again
and yet returns when it keeps getting control. Packets: weak
fairness of the steps inside of a command. Talloc: weak fairness of the library's own
loop and strong fairness of the return of a destructor, which may call the library
before. Modules: weak fairness of the loader and of the return of modules' functions.
Wire: weak fairness of `tcp_send`, which no property needs. No fairness is put on the
next command.

What the passing runs show. Exploration by fork tries both answers of every
failure point it meets and prints one error, once, with the path to it; without
names that contain each other the path replays. A timer fires once for each
arming; timers that are due fire, also when `time +-n` has set the clock back under them, and
walks over the lists go wrong only where a
callback deletes timers or a deletion that was made to fail left `use` dangling. Packets are never
lost, doubled or revived between hooks, queue and ICMP replies, and use freed memory only
when they have waited in the queue or meet a route added by hand that has gone. Simulator and
program stay in step under forks and crashes and all end. The talloc tree takes
cache entries and routes along with what they were made from; freed memory is used
only after one of three things a script can do. An exit status of 0 under `-e`
means what a test suite takes it to mean. talloc's links describe one forest at every
moment a destructor can look, and its loops end. A packet keeps its bytes however it is
moved, and the alarm about a forbidden write is never false and never late. Modules are
unloaded before what they need, and the leak check is right about everything it counts.
A read of /proc gives the text, in whole records. tcpsession expects what a correct box
sends, whatever fails in between, with one exception: when the send of data whose change of
length was announced fails late, it goes on waiting for a change that has been made.

## 4. What the violation shows

`gather_frag` builds the datagram on a copy of the fragment that came first, made with
`skb_copy_expand`, and appends the gathered data behind that fragment's own data; the
length in the header counts the gathered data alone. So a reader of the datagram sees the
first fragment's data, followed by the beginning of the datagram. The comments say "Copy
header and data." (ipv4.c:530) and "Except we're not a fragment, and we're longer."
(ipv4.c:539). `NothingHeldBack` is the part that holds: the datagram is put together when
the last piece is there, and its length is right.

## 5. Proofs

TLAPS checks theorems about every module but Talloc and Checksum, for every value of the
constants. The proofs about a module stand in `<Module>_proofs`, those about Modules (with
Notifier and ProcTree), Skb, Wire and SeqFile in Kernel_proofs. They follow the same plan:
an invariant `IInv` with `Init => IInv`, `IInv /\ [Next]_vars => IInv'` (one lemma for each
action or group of actions) and `IInv => P` for each property P. No property below but
TypeOK is inductive as it stands. Before it was proved, every invariant was checked by TLC
as an `INVARIANT` of the component's run, with the bounds of section 3.

| Theorem | States | Beyond the constants' types it needs |
|---|---|---|
| FailTest: TypeCorrect, ErrorsReportedOnce, FailuresAlwaysCounted, EveryCombinationAlwaysTried | `Spec => []P` for TypeOK, ReportedOnce, FailuresCounted, EveryCombinationTried | each name occurs in itself |
| FailTest: ReplayAlwaysReproduces | `Spec => []ReplayReproduces` | `Exact` |
| Timers: NeverLedAstray | `Spec => []NeverAstray` | |
| Timers: ArmingsAlwaysAnswered, ListsStaySound, BackwardsAlwaysTold | `Spec => []ArmingsAnswered`, `Spec => []ListsSound`, `Spec => BackwardsOnlyWhenTold` | `Horizon(D)` for some D |
| Sockopt: AlwaysInStep, StatusAlwaysTrue | `Spec => []InStep`, `Spec => []StatusIsTrue` | |
| Routing: TablesAlwaysFit, WildAlwaysHasACause, RemovalAlwaysKeepsCacheTrue | `Spec => []P` for TablesFit, WildHasACause, RemovalKeepsCacheTrue | the interfaces at boot fit into the bounds |
| Packets: EveryPacketAlwaysAccounted, StaleAlwaysHasACause | `Spec => []EveryPacketAccounted`, `Spec => []StaleHasACause` | modules and `hook` use different priorities |
| Packets: PacketsHaveOneLife | `Spec => OneLife`: Packets implements Fates | the same |
| Script: ExpectationsAlwaysCleared | `Spec => []ExpectationsCleared` | |
| Script: PassAlwaysMeansFulfilled, FailureAlwaysMeansExpected | `Spec => []PassMeansFulfilled`, `Spec => []FailureMeansExpected` | `NoSelf` |
| Modules: EventAlwaysReachesAll, LoadAllAlwaysComplete | `Spec => EventReachesAll`, `Spec => LoadAllComplete` | finitely many modules and blocks |
| Modules: LoaderAlwaysSound, LeakCheckAlwaysTrue | `Spec => []LoaderSound`, `Spec => []LeakCheckIsTrue` | the names of the files in /proc/net differ |
| Skb: AlarmIsAlwaysTrue, WritableNeverLost | `SkbSpec => []AlarmIsTrue`, `SkbSpec => NeverLessWritable` | |
| Skb: LayoutAlwaysHidden | `SkbSpec => LayoutHidden`: Skb implements PacketBytes, each routine by its own step | |
| Wire: SessionAlwaysInStep, NothingEverHeldBack | `WireSpec => []SessionInStep`, `WireSpec => []NothingHeldBack` | |
| SeqFile: ReadsAlwaysTheText, EofIsAlwaysTheEnd | `SeqSpec => []ReadsTheText`, `SeqSpec => []EofIsTheEnd` | records are shorter than 256 pages |

The hypotheses.

- `Exact`: the name of a once-only place occurs in no other place's name. Without it
  ReplayReproduces is false (section 6, `strstr`).
- `Horizon(D)`: timers are armed at least 1 jiffy ahead and are never more than D ahead,
  `MaxBack` included; D together with a step of the clock (or another D) is at most half of
  the clock's span, and a step fits into the `int` that `increment_time` takes. `time_after`
  is no order beyond that. It is sufficient, for any number of timers: the two timers of the
  run get by with a shorter span (D = 4 would ask for 16), and with a span of 20, delays up
  to 3 and D = 5 TLC finds no error either. With 32 bits and HZ = 100 it is a horizon of
  months.
- `meddled`: a callback has deleted timers. ListsSound, ArmingsAnswered, NeverAstray and
  BackwardsOnlyWhenTold all make this exception, where they speak of order, of what runs and
  of the walks. It is needed: with five timers, callbacks that delete and re-arm lead
  `increment_time` past timers that are due for several commands, until they are more than
  half of the span behind.
- `NoSelf`: no script expects something of the `expect` command. Otherwise TLC refutes
  PassMeansFulfilled (section 6, `expect expect`).

The inductive invariants and why they are needed.

- FailTest. `Stack`: when a dead child is reaped, the new top of the stack must be a process
  that still waits, or a second report could follow. FailuresCounted needs the stack to be
  described as well, since a parent's counters are changed when its child comes back.
  EveryCombinationTried and ReplayReproduces speak of the end of a run; `Ways` is what holds
  on the way there. Each process stands on a path through the program (`Traced`); its
  decisions are exactly the questions on that path that fork, in their order (`Aligned`);
  each process is the failing side of the question at which its parent waits (`ChildOf`);
  a branch that was not taken yet belongs to a process that waits (`Tried`); the path printed
  is that of the culprit (`Printed`). `Following` says that a replay stands on the culprit's
  path and has read exactly the decisions up to there.
- Timers. `LInv` is about the lists and the walks over them and holds on every clock: as
  long as no callback has deleted timers, the saved next element of a walk is in the list
  walked, and only failure injection puts a timer on `__running_timers`. `CInv(D)` is about
  the order: seen from `jiffies`, `__timers` ascends (`InOrder`), reaches at most as far ahead as
  delays and the steps back so far allow (`Reach`) and
  is behind only while `increment_time` walks (`InWindow`), and what the walk has passed is not
  due (`PassedNotDue`). From it the wrap of the clock disappears: `Off` is an ordinary number.
- Sockopt. `Talk(n, ...)` lists the states simulator n and program n can be in together,
  given what is on its way between them and `Bond(n)`: whether the request to fork the program
  is still unread, or the program it was copied from still waits for it. `Links` says how
  simulators, requests and waiting programs belong together. InStep alone is lost in a fork,
  which changes two sockets and two pairs of processes at once.
- Routing. `CacheSound` is what each cache entry was made from, and that the tables would
  give the same today as long as nothing was added: its in_device still has the address, or
  its route is the first that matches. Removals keep this because they keep the order of
  what is left.
- Packets. EveryPacketAccounted speaks of the prompt. During a command the packets under
  way are those on the stack, each once (`UnderWay`), and the queue holds the packets that
  wait beside the item that was reinjected and is not unlinked yet (`Held`); that exactly this
  item is unlinked needs ascending ids (`Ordered`). `Fresh` says that a packet that never
  waited has a device and a route that are there, whichever kind of route it found. The refinement shows for each action that it is a step of
  Fates or a stutter, with the same invariant.
- Script. While an expectation is on the list, the only run of its command since it was made
  is one that is still being run (`Pending`), and it is marked exactly when that run has
  logged the pattern (`Waiting`); once it is off the list its verdict is settled (`Verdicts`).
  `StackSound`: two commands at most are under way, and in front of the place where the
  post-command hook stands there is no expectation on its command.

- Modules. `LoaderInv` has a part for each concern. `ChainInv`: from `inetaddr_chain` the
  next pointers lead through a sequence without repetitions, and `fields` marks just its
  blocks; Notifier computes the chain by following pointers, so that each insertion and
  deletion is shown to do to that sequence what `InsertAt` and `RemoveAt` do. `WalkInv`: as
  long as nothing was changed behind a block that has left, the walk stands behind some place
  of the chain, also when its own block is gone, and has told just the steady blocks up to
  there. When a callback has taken several blocks out, the walk may pass through blocks that
  left; `Strays` bounds them to blocks of the module whose callback runs, which is loaded.
  `ScanInv`: a pass of `load_all_modules` that has loaded nothing so far has tried all it has
  read. `BooksInv`: while rmmod is used with care, use counts are numbers of references,
  what is needed was loaded before, and the module whose init or exit function runs is free
  to go. `Ledger`: what exists is what is owed, directory by directory. `EndInv`: why and
  where a run has ended, which LoaderSound and LeakCheckIsTrue are about.
- Skb. AlarmIsTrue says how the bytes of the packet and its master copy differ; it is kept
  together with `Sound`: data and writable part lie inside of the buffers, the header pointer
  stays within reach of the data, and a packet that can still be put to has its data up to the
  tail. One lemma for each routine shows that, and which step of PacketBytes it takes.
- Wire. `InTune`: what one end acknowledges next is what the other has sent, shifted as
  announced, modulo the size of a sequence number, and the session knows the change the
  script has announced. Inside of a command that sends twice or three times it holds between
  the sends, or the second one would not be expected right. `FragInv`: what waits are cuts of
  one datagram that leave a gap.
- SeqFile. Both properties look at what was handed out, and the next read depends on what
  waits in the buffer. `Neat`: both together are whole records. `InPlace`: as long as the
  table stays as it is they are its text from `base` on, up to the record `Reached` (by a seek
  behind the end, nothing). That `Upto`, a recursive function, is defined at all is shown
  without induction: among the numbers of records for which there is no such function there
  would be a least one.

Lists_proofs carries what the proofs about lists need: `Kept(s, K)`, the places K of a list in
their order, is what `list_del` leaves, and `InsertAt` is what `list_add` gives. That a set of
places has a k-th one is an induction over places. The library's induction theorems are out of
reach, since they take an operator; `Least`, that a set of numbers has a least element, says
the same about sets and follows from `WFMin`. Counters that count the members of a list and
the histories of FailTest are handled in the same way.

Only model-checked, and why:

- liveness, which is out of the prover's reach: Terminates, EverybodyExits, FreesEnd and the
  three CommandsEnd; likewise that Sockopt and SeqFile never deadlock;
- TreeSound and FreedLast of Talloc: they speak of what is reached along links of any length
  (lists, parents, references), and a destructor may change any of them in the middle of a
  walk. Kernel_proofs does this for one chain with one walk over it; here it would take an
  invariant about every list and every call of `talloc_free` under way at once. Trying it
  showed on larger instances that callers have to leave alone what is being freed (`Steal`),
  and the run's bounds are now such that this matters;
- ChecksumsHold of Wire: its sums over bytes are RECURSIVE operators, and that rounds of
  carries and byte swaps commute with the sum is an induction over the data;
- ReassembledWhole of Wire, which is false (section 4).

## 6. Observations

Where a comment or a help text says more than the code does, the modules state the
stronger formula next to the one that holds, marked as refuted; as an `INVARIANT` of the
module's configuration TLC shows the counterexample.

- `failtest.c:59-60` says the printed path "can be replayed". `should_i_fail_once`
  looks for its place in the path with `strstr`, and at the first occurrence only;
  after file.c:123 it does not see that file.c:12 was already asked (ReplayReproduces,
  when `Within` relates two places).
- `module.c:315`, "Make sure \"running\" timers are actually run": one walk with a
  saved next pointer misses a timer that a callback puts at the head
  (Timers, UnloadRunsRunningTimers).
- `message.c:283`, "expect a reply": the status of a forked program that died while
  serving a copy arrives there instead and is stored through NULL (Sockopt,
  NoStatusInsideCopy).
- `route.c:253`, "will delete the route": the freed route stays on the list when it
  was added by hand (Routing, RouteDelDeletes).
- `expect.c:136`, "Only allow each pattern to match once": one line fulfils all
  equal expectations (Script, MatchedOnce).
- `tcpsession.c:142`, "Don't have it abort, do that at top level": an unmet
  expectation of `tcp_send` aborts inside of the nested gen_ip (Script,
  NestedNeverAborts).
- `ipv4.c:346`: when the ttl expires, `ip_forward` has changed the header without
  `nfsim_update_skb`, and `icmp_send` copies from the packet: nfsim raises the alarm about
  its own change (Skb, AlarmIsNeverOurs).

Further observations.

- `ipv4.c:346`: a packet generated with TTL=0 is forwarded with 255 and a checksum that
  does not fit; ChecksumsHold leaves it out.
- `do_csum` shifts an odd last byte as a big-endian host has to; on a little-endian one
  odd lengths give a sum that is consistent with itself but not the Internet checksum.
- Fragments are told apart by addresses and protocol, not by the IP id; the 21st fragment
  of a list ends the simulator.
- `tcpsession.c:168`: when `gen_ip` fails after the packet has gone out, the sequence numbers
  stay as they were, and so does a change of length that the box has already made.
- `tcpsession.c:314`: LENCHANGE without a session stores through NULL. A change that is
  still announced at CLOSE or RESET is expected of the FIN but not counted.
- `kernelenv.c:338`: `skb_realloc_headroom` passes the difference of the rooms where
  `skb_copy_expand` wants the new room; `skb_linearize` copies headroom that may lie behind
  a short buffer; a linear packet that is made writable becomes less writable.
- `proc_stuff.c:239`: an entry made by a path keeps the path as its name; removing it ends
  the simulator. Two sysctl files of one name: the first table to go removes the other's
  entry, and the second reads freed memory.
- `module.c:326`: at exit, a module in use stops the unloading; the run returns 0 and the
  leak check is not made. `kmem_cache_destroy` frees objects without a word.
- `notifier_call_chain`: a callback that unregisters its own block and then changes the
  chain leaves the walk with a stale next pointer; EventReachesAll names the case.
- `seq_read`: a record that does not fit, behind an empty one, ends the file early
  (EofIsTheEnd names the case). `nfsim_proc_cat` reads once, up to 16383 bytes.
- `timer_pending` (kernelenv.c:921) says timers run at the expiry time; one armed
  with delay 0 waits for the next move of the clock. No code in the repository
  arms one, so `Delays` leaves it out.
- `fakesockopt.c:186`: a program prints a line when its copy has ended, into a pipe
  that its simulator does not read while it sleeps in `waitpid`. With `PipeCap = 1`
  TLC finds the deadlock; a real pipe holds some two thousand such lines.
- `route.c:172`: `route add`, `ifconfig up` and a new address leave the route cache
  as it is, and entries of before win. RemovalKeepsCacheTrue is the part that holds.
- `time.c:50` says "Backwards time travel not implemented"; `time +infinity` without
  pending timers sets the clock to 0, since `find_last_timer` returns 0, and `time +-n`
  (time.c:47-48) sets it back by n seconds, with timers pending. BackwardsOnlyWhenTold says that
  these are the two cases.
- `queue.c:34`: `queue` without arguments prints the queue and returns 0, false, so
  the command counts as failed. `queue.c:49`: with a verdict and an empty queue it
  takes the list head for an item. `queue.c:63` unlinks an item that went with its
  packet.
- `hook.c:90` releases the one-shot hooks with `free`, `hook.c:110` allocates them with
  `talloc`. A packet that such a hook has queued during gen_ip finds its hook gone and
  is dropped whatever verdict `queue` is given.
- A packet in the queue keeps pointers to its device and route; after `ifconfig down`
  reinjecting it reads freed memory. So does any walk along the routes when a route added
  by hand or its device has gone. StaleHasACause says that nothing else does.
- `ipv4.c:443`: the cache entry of a forwarded packet is filed under the outgoing interface
  and is never found again, so the cache grows with every packet; `MaxCache` bounds it here.
- `message.c:284`: the end of the socket is not told from the answer to a user copy, and
  `copy_from_user` then reports success with nothing copied. `core.h:226`: `complete_read`
  reads on for ever at the end of a socket, when a program dies between the header and the
  data of one write.
- `expect expect` judges an expectation in the very command that makes it, so that
  it can never be met; `Expectable` leaves `expect` out.

## 7. Not modelled

Parsing and printing; the contents of user copies, the descriptor passing
below `recv_fd` and /proc through fakesockopt; reading and splitting lines,
backquotes, readline; allocation failures inside of nfsim's own handlers (kernel code
sees them through FailTest); talloc's reports and its tracking of the NULL context, which
nfsim does not enable; the integer parsing of sysctl files (`do_proc_dointvec`) and the page
protocol of `proc_file_read`; the contents of ICMP errors and `gen_err`; jhash, bit operations
and string helpers.

Locks and bottom halves: nfsim has one thread, a lock is a counter, and each routine
ends the run by itself when the counter is wrong; a model would repeat these tests.
IPv6 is a stub. The small commands print or set a flag that changes what is printed.

## 8. What could come next

The invariants that are left to TLC are TreeSound, FreedLast and ChecksumsHold; section 5 says
what their proofs would need. On the side of the models, the parts that section 7 names are
left, of which `gen_err` with the contents of ICMP errors and the page protocol of
`proc_file_read` have state worth a model.
