------------------------------- MODULE Timers -------------------------------
(***************************************************************************)
(* Kernel timers as the simulator runs them (kernelenv/kernelenv.c) and    *)
(* the `time' command that moves the clock (tools/time.c).                 *)
(*                                                                         *)
(* Timers wait in __timers, ordered by expiry.  increment_time walks the   *)
(* list and calls the callback of every timer that is due.  A del_timer    *)
(* that failure injection picks pretends that the timer is being run by    *)
(* another CPU: it returns 0 and moves the timer to __running_timers,      *)
(* which do_running_timers empties, after every command, when a module is  *)
(* unloaded and when the kernel code calls schedule().  Both walks save    *)
(* the next element BEFORE they call a callback, and callbacks add and     *)
(* delete timers.                                                          *)
(*                                                                         *)
(* Timers are owned by the netfilter code under test.  It is external: a   *)
(* client arms a timer that is not armed, deletes one that is, and is      *)
(* called back; from a callback it may arm any timer, its own too, and     *)
(* delete any.                                                             *)
(***************************************************************************)
EXTENDS Lists, SequencesExt

CONSTANTS
    Timer,      \* the timers, struct timer_list
    ListHead,   \* the address of a list head, not a timer
    DelSite,    \* places that call del_timer: should_i_fail_once names
    FailTest,   \* is failure injection on
    Delays,     \* how far in the future clients arm timers, in jiffies
    HZ,         \* jiffies per second
    LongSpan,   \* number of values of an unsigned long (even)
    IntSpan,    \* number of values of an unsigned int
    MaxAdvance, \* bound: how far `time n' and `time +n' move the clock
    MaxBack     \* bound: how far the `time +-n' of a run set it back, together

ASSUME TimersAssumption ==
    /\ ListHead \notin Timer
    /\ FailTest \in BOOLEAN
    /\ Delays \subseteq Nat
    /\ HZ \in Nat \ {0}
    /\ LongSpan \in Nat \ {0} /\ IntSpan \in 1 .. LongSpan
    /\ LongSpan % 2 = 0
    /\ MaxAdvance \in 0..(LongSpan - 1) /\ MaxBack \in 0..(LongSpan - 1)

VARIABLES
    jiffies,    \* the clock
    back,       \* history: how far `time +-n' have set it back so far
    timers,     \* __timers
    running,    \* __running_timers
    expires,    \* timer->expires
    use,        \* timer->use: "null", "held", or "freed" when it dangles
    decided,    \* del_timer sites should_i_fail_once has already asked about
    owed,       \* history: armed by its client, neither fired nor deleted since
    at,         \* where control is, see Control
    walk,       \* the walk in progress: its list, its saved next element and
                \* what it returns to
    faked,      \* history: timers a del_timer that was made to fail left running
    meddled,    \* history: a callback has deleted a timer
    dead        \* "no", "wild" (a walk led astray), "double" (an entry that
                \* is in no list was unlinked) or "barf"

vars == <<jiffies, back, timers, running, expires, use, decided, owed, at, walk,
          faked, meddled, dead>>
lists == <<timers, running, expires, use, decided, owed, faked, meddled>>

\* "prompt": between two commands; "command": a command runs kernel code;
\* "walk": in the loop of increment_time or do_running_timers; "callback": in
\* a callback it called; "fini": module_unload is about to call mod->fini;
\* "end": the time command is about to return.
Control == {"prompt", "command", "walk", "callback", "fini", "end"}

NoWalk ==
    [list |-> "none", next |-> ListHead, timer |-> ListHead, then |-> "prompt"]

-----------------------------------------------------------------------------
(* Arithmetic and lists. *)

\* time_after: the difference as a signed long is negative.
TimeAfter(a, b) == (b - a) % LongSpan >= LongSpan \div 2
TimeBefore(a, b) == TimeAfter(b, a)

In(t, s) == \E i \in DOMAIN s : s[i] = t

\* list_del of an entry of the list s.
Without(s, t) == Kept(s, { i \in DOMAIN s : s[i] # t })

\* The element after t in the list s, or its head.
NextOf(s, t) ==
    LET i == CHOOSE j \in DOMAIN s : s[j] = t
    IN  IF i = Len(s) THEN ListHead ELSE s[i + 1]

First(s) == IF s = <<>> THEN ListHead ELSE s[1]

\* Mutant: expiry times are compared as plain numbers.
AddPlace_Plain(t, e) ==
    LET later == {i \in DOMAIN timers : expires[timers[i]] > e}
    IN  IF later = {} THEN Len(timers) + 1
        ELSE CHOOSE i \in later : \A j \in later : i <= j

\* __add_timer's place: in front of the first timer that expires later.
AddPlace(t, e) ==
    LET later == {i \in DOMAIN timers : TimeAfter(expires[timers[i]], e)}
    IN  IF later = {} THEN Len(timers) + 1
        ELSE CHOOSE i \in later : \A j \in later : i <= j

-----------------------------------------------------------------------------
(* Operations of the kernel code, in a command or in a callback. *)

InKernelCode == at \in {"command", "callback"} /\ dead = "no"

AddTimer(t, d) ==
    /\ InKernelCode /\ ~owed[t]
    /\ LET e == (jiffies + d) % LongSpan
       IN  /\ expires' = [expires EXCEPT ![t] = e]
           /\ timers' = InsertAt(timers, AddPlace(t, e), t)
    /\ use' = [use EXCEPT ![t] = "held"]
    /\ owed' = [owed EXCEPT ![t] = TRUE]
    /\ UNCHANGED <<jiffies, back, running, decided, at, walk, faked, meddled, dead>>

\* Mutant: a deletion that succeeds leaves timer->use pointing to the freed string.
DelTimer_UseLeft(t, s) ==
    /\ InKernelCode /\ owed[t] /\ use[t] # "null"
    /\ decided' = IF FailTest THEN decided \cup {s} ELSE decided
    /\ timers' = Without(timers, t)
    /\ running' = Without(running, t)
    /\ use' = [use EXCEPT ![t] = "freed"]
    /\ owed' = [owed EXCEPT ![t] = FALSE]
    /\ meddled' = (meddled \/ at = "callback")
    /\ UNCHANGED <<jiffies, back, expires, at, walk, faked, dead>>

\* del_timer of a timer that is waiting or that is pretended to be running.
DelTimer(t, s) ==
    /\ InKernelCode /\ owed[t] /\ use[t] # "null"
    /\ \/ /\ FailTest /\ s \notin decided
          /\ decided' = decided \cup {s}
          /\ timers' = Without(timers, t)
          /\ running' = <<t>> \o Without(running, t)
          /\ faked' = faked \cup {t}
          /\ UNCHANGED <<use, owed>>
       \/ /\ decided' = IF FailTest THEN decided \cup {s} ELSE decided
          /\ timers' = Without(timers, t)
          /\ running' = Without(running, t)
          /\ use' = [use EXCEPT ![t] = "null"]
          /\ owed' = [owed EXCEPT ![t] = FALSE]
          /\ UNCHANGED faked
    /\ meddled' = (meddled \/ at = "callback")
    /\ UNCHANGED <<jiffies, back, expires, at, walk, dead>>

\* del_timer of a timer that is not armed: nothing happens when its use is
\* NULL; a use that dangles makes it unlink an entry that is in no list.
DelIdleTimer(t) ==
    /\ InKernelCode /\ ~owed[t]
    /\ use[t] = "freed"
    /\ dead' = "double"
    /\ UNCHANGED <<jiffies, back, lists, at, walk>>

-----------------------------------------------------------------------------
(* The two walks. *)

Walk(l, then) ==
    /\ at' = "walk"
    /\ walk' = [list |-> l, then |-> then, timer |-> ListHead,
                next |-> First(IF l = "timers" THEN timers ELSE running)]

\* The list the walk is over.
Walked == IF walk.list = "timers" THEN timers ELSE running

\* The loop comes to its saved next element, an element of its list: it saves
\* the one after it, unlinks the timer and calls its callback.
\* increment_time stops at a timer that is not due and clears timer->use;
\* do_running_timers leaves it pointing to the string it freed.
Visit ==
    /\ at = "walk" /\ dead = "no"
    /\ In(walk.next, Walked)
    /\ walk.list = "timers" => ~TimeBefore(jiffies, expires[walk.next])
    /\ LET t == walk.next
       IN  /\ timers' = Without(timers, t)
           /\ running' = Without(running, t)
           /\ use' = [use EXCEPT ![t] = IF walk.list = "timers" THEN "null" ELSE "freed"]
           /\ owed' = [owed EXCEPT ![t] = FALSE]
           /\ walk' = [walk EXCEPT !.next = NextOf(Walked, t), !.timer = t]
    /\ at' = "callback"
    /\ UNCHANGED <<jiffies, back, expires, decided, faked, meddled, dead>>

CallbackReturns ==
    /\ at = "callback" /\ dead = "no"
    /\ at' = "walk"
    /\ walk' = [walk EXCEPT !.timer = ListHead]
    /\ UNCHANGED <<jiffies, back, lists, dead>>

\* The saved next element has left the list: its entry is poisoned or leads
\* through another list, and following it is undefined.
VisitStale ==
    /\ at = "walk" /\ dead = "no"
    /\ walk.next # ListHead /\ ~In(walk.next, Walked)
    /\ walk.list = "timers" => ~TimeBefore(jiffies, expires[walk.next])
    /\ dead' = "wild"
    /\ UNCHANGED <<jiffies, back, lists, at, walk>>

\* Mutant: the loop does not end at a timer that is not due.
WalkEnds_AtHead ==
    /\ at = "walk" /\ dead = "no"
    /\ walk.next = ListHead
    /\ at' = walk.then
    /\ walk' = NoWalk
    /\ UNCHANGED <<jiffies, back, lists, dead>>

WalkEnds ==
    /\ at = "walk" /\ dead = "no"
    /\ \/ walk.next = ListHead
       \/ /\ walk.next # ListHead /\ walk.list = "timers"
          /\ TimeBefore(jiffies, expires[walk.next])
    /\ at' = walk.then
    /\ walk' = NoWalk
    /\ UNCHANGED <<jiffies, back, lists, dead>>

-----------------------------------------------------------------------------
(* Commands. *)

\* tui_do_command: the handler of some command starts.
StartCommand ==
    /\ at = "prompt" /\ dead = "no"
    /\ at' = "command"
    /\ UNCHANGED <<jiffies, back, lists, walk, dead>>

\* The handler returns; the post-command hook run_timers.
EndCommand ==
    /\ at \in {"command", "end"} /\ dead = "no"
    /\ Walk("running", "prompt")
    /\ UNCHANGED <<jiffies, back, lists, dead>>

IncrementTime_NoWalk(inc) ==
    /\ jiffies' = (jiffies + (inc % IntSpan)) % LongSpan
    /\ at' = "end"
    /\ UNCHANGED <<lists, walk, dead>>

IncrementTime(inc) ==
    /\ jiffies' = (jiffies + (inc % IntSpan)) % LongSpan
    /\ Walk("timers", "end")
    /\ UNCHANGED <<lists, dead>>

\* time +n, where n may be negative: nobody looks.  As an unsigned int it is a long
\* way forwards, which is a way back on a clock that is no wider.
TimeAdvance(n) ==
    /\ at = "prompt" /\ dead = "no"
    /\ LET inc == (n * HZ) % IntSpan
       IN  \/ inc <= MaxAdvance /\ UNCHANGED back
           \/ /\ LongSpan - inc <= MaxBack - back
              /\ back' = back + (LongSpan - inc)
    /\ IncrementTime(n * HZ)

\* Mutant: a time in the past is accepted.
TimeSet_AnyTime(n) ==
    /\ at = "prompt" /\ dead = "no"
    /\ n # 0
    /\ n * HZ - jiffies <= MaxAdvance
    /\ IncrementTime(n * HZ - jiffies)
    /\ UNCHANGED back

\* time n: refused when it is 0 or in the past.
TimeSet(n) ==
    /\ at = "prompt" /\ dead = "no"
    /\ n # 0 /\ ~(n * HZ < jiffies)
    /\ n * HZ - jiffies <= MaxAdvance
    /\ IncrementTime(n * HZ - jiffies)
    /\ UNCHANGED back

\* time +infinity
FindLastTimer == IF timers = <<>> THEN 0 ELSE expires[timers[Len(timers)]]

TimeInfinity ==
    /\ at = "prompt" /\ dead = "no"
    /\ IncrementTime(FindLastTimer - jiffies)
    /\ UNCHANGED back

\* schedule(), called by kernel code that waits for a timer to finish.
Schedule ==
    /\ at = "command" /\ dead = "no"
    /\ \/ /\ running # <<>>
          /\ Walk("running", "command")
          /\ UNCHANGED dead
       \/ /\ running = <<>>
          /\ dead' = "barf"
          /\ UNCHANGED <<at, walk>>
    /\ UNCHANGED <<jiffies, back, lists>>

\* rmmod: module_unload runs the running timers and then calls mod->fini.
ModuleUnload ==
    /\ at = "command" /\ dead = "no"
    /\ Walk("running", "fini")
    /\ UNCHANGED <<jiffies, back, lists, dead>>

ModuleFini ==
    /\ at = "fini" /\ dead = "no"
    /\ at' = "command"
    /\ UNCHANGED <<jiffies, back, lists, walk, dead>>

-----------------------------------------------------------------------------
Init ==
    /\ jiffies = 0 /\ back = 0
    /\ timers = <<>> /\ running = <<>>
    /\ expires = [t \in Timer |-> 0]
    /\ use = [t \in Timer |-> "null"]
    /\ decided = {}
    /\ owed = [t \in Timer |-> FALSE]
    /\ at = "prompt"
    /\ walk = NoWalk
    /\ faked = {} /\ meddled = FALSE
    /\ dead = "no"

Seconds == 0..((LongSpan - 1) \div HZ)

Next ==
    \/ \E t \in Timer, d \in Delays : AddTimer(t, d)
    \/ \E t \in Timer, s \in DelSite : DelTimer(t, s)
    \/ \E t \in Timer : DelIdleTimer(t)
    \/ Visit \/ CallbackReturns \/ VisitStale \/ WalkEnds
    \/ StartCommand \/ EndCommand
    \/ \E n \in Seconds : TimeAdvance(n) \/ TimeAdvance(-n) \/ TimeSet(n)
    \/ TimeInfinity
    \/ Schedule \/ ModuleUnload \/ ModuleFini

Spec == Init /\ [][Next]_vars

\* A command that started runs: callbacks return, the loops go on, and a
\* handler that keeps getting control back returns in the end.  Nobody has to
\* type the next command.
FairSpec ==
    /\ Spec
    /\ WF_vars(Visit) /\ WF_vars(VisitStale) /\ WF_vars(WalkEnds)
    /\ WF_vars(CallbackReturns)
    /\ SF_vars(EndCommand) /\ WF_vars(ModuleFini)

-----------------------------------------------------------------------------
(* Properties. *)

TypeOK ==
    /\ jiffies \in 0..(LongSpan - 1) /\ back \in 0..MaxBack
    /\ timers \in Seq(Timer) /\ running \in Seq(Timer)
    /\ expires \in [Timer -> 0..(LongSpan - 1)]
    /\ use \in [Timer -> {"null", "held", "freed"}]
    /\ decided \subseteq DelSite
    /\ owed \in [Timer -> BOOLEAN]
    /\ at \in Control
    /\ walk \in [list : {"none", "timers", "running"},
                 next : Timer \cup {ListHead}, timer : Timer \cup {ListHead},
                 then : {"prompt", "command", "fini", "end"}]
    /\ faked \subseteq Timer /\ meddled \in BOOLEAN
    /\ dead \in {"no", "wild", "double", "barf"}

\* The first half of ArmingsAnswered: while its client waits for it a
\* timer is in exactly one of the two lists, once, and holds its use string;
\* after its callback or a deletion that returned 1 it is in none, so that it
\* cannot fire again.
OneFiringPerArming ==
    \A t \in Timer :
        /\ owed[t] <=> use[t] = "held"
        /\ owed[t] <=> In(t, timers) \/ In(t, running)
        /\ ~(In(t, timers) /\ In(t, running))
        /\ \A i, j \in DOMAIN timers : timers[i] = t /\ timers[j] = t => i = j
        /\ \A i, j \in DOMAIN running : running[i] = t /\ running[j] = t => i = j

\* __timers is in order of expiry, also across the wrap of the clock and after it was
\* set back: the loop of increment_time may stop at the first timer that is not due.
\* A callback that deletes timers may make that loop leave due ones behind, which the
\* clock then outruns.  A part of ListsSound.
TimersSorted ==
    ~meddled => \A i, j \in DOMAIN timers :
        i < j => ~TimeAfter(expires[timers[i]], expires[timers[j]])

\* The second half: "timers are guaranteed to be run at the expiry time"
\* (timer_pending), when a command is over no timer that is due is still waiting,
\* unless a callback deleted timers and led the loop of increment_time past it.
DueTimersRun ==
    at = "prompt" /\ ~meddled => \A t \in Timer :
        In(t, timers) => TimeBefore(jiffies, expires[t])

\* Every arming is answered exactly once, and in time: a timer somebody waits for
\* is in one of the two lists and in no other, one that was answered is in none,
\* and none that is due is left behind when a command is over (increment_time,
\* do_running_timers, __del_timer).
ArmingsAnswered == OneFiringPerArming /\ DueTimersRun

\* The timers that del_timer pretended to be running have run when the command
\* that deleted them is over: one walk over them is enough as long as the
\* callbacks it calls delete no timers.
NothingRunsAtPrompt == at = "prompt" /\ ~meddled => running = <<>>

\* "Make sure running timers are actually run" (module_unload): none is left
\* to call into the module when its fini is called.  TLC refutes it: a callback
\* run by module_unload may delete another timer.  What holds is the next one.
UnloadRunsRunningTimers == at = "fini" => running = <<>>

\* The same for callbacks that delete no timers.
UnloadRunsPlainTimers == ~meddled => UnloadRunsRunningTimers

\* The two lists are what the loops over them take them for, as long as no callback
\* deletes timers: __timers in order of expiry across the wrap of the clock and after
\* `time +-n', __running_timers empty whenever a command is over or a module's fini is
\* called (__add_timer, do_running_timers, module_unload).
ListsSound == TypeOK /\ TimersSorted /\ NothingRunsAtPrompt /\ UnloadRunsPlainTimers

\* Arming timers is harmless wherever it happens.  A walk only follows an entry that
\* has left its list when a callback deleted timers, and del_timer only unlinks an
\* entry that is in no list when a del_timer of that timer was made to fail before and
\* do_running_timers then left timer->use dangling.
NeverAstray ==
    /\ dead = "wild" => meddled
    /\ dead = "double" => \E t \in faked : use[t] = "freed"

\* "Backwards time travel not implemented" (time_cmd): the clock goes back in two cases
\* only: when `time +-n' says so, which nobody refuses, and by `time +infinity' with no
\* timer pending, which sets it to 0 - unless a callback deleted timers and left one
\* behind that was due.
BackwardsOnlyWhenTold ==
    [][TimeAfter(jiffies, jiffies') => timers = <<>> \/ meddled \/ back' > back]_vars

\* A command ends, however many callbacks it runs and whatever they re-arm.
CommandsEnd == (at # "prompt") ~> (at = "prompt" \/ dead # "no")
=============================================================================
