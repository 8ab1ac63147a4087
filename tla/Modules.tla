------------------------------- MODULE Modules ------------------------------
(***************************************************************************)
(* The module loader (tools/module.c) and what a kernel module does while  *)
(* it comes and goes: it registers notifier blocks, /proc files, sysctl    *)
(* tables and slab caches in its init function, holds references to other  *)
(* modules, and has to undo it all in its exit function, since at the end  *)
(* check_allocations() compares the number of blocks with that at the      *)
(* start (core.c).  The init and exit functions and the callbacks are code *)
(* of the modules: each may do any of this, or fail, before it returns.    *)
(***************************************************************************)
EXTENDS Notifier, ProcTree, Lists

CONSTANTS
    Module,     \* the .so files in module_path
    Needs,      \* [Module -> SUBSET Module]: whose symbols a module is linked against
    BlockOf,    \* [Block -> Module]: the module a notifier block belongs to
    Files,      \* the modules that make a file in /proc/net
    Tables,     \* the modules with a sysctl table
    Caches,     \* the modules with a slab cache
    MaxObjects, \* objects in a slab cache
    MaxChanges, \* registrations and the like in one run of module code
    MaxCommands \* commands typed

ASSUME ModuleAssumption ==
    /\ IsFiniteSet(Module) /\ Owner = Module /\ NULL \notin Module
    /\ Needs \in [Module -> SUBSET Module]
    /\ BlockOf \in [Block -> Module] /\ Block \cap {"file", "table", "cache"} = {}
    /\ Files \subseteq Module /\ Tables \subseteq Module /\ Caches \subseteq Module
    /\ MaxObjects \in Nat /\ MaxChanges \in Nat /\ MaxCommands \in Nat

VARIABLES
    modules,    \* the list, newest first
    use,        \* the use counts
    caches,     \* objects in the slab cache of a module, -1 for no cache
    at,         \* what runs: [do, mod, for]
    scan,       \* load_all_modules' pass: files to read, whether it tried and succeeded
    changes,    \* changes by the module code that runs
    commands,   \* commands so far
    holds,      \* history: <<m, o>>, m got a reference to o and has not put it
    owes,       \* history: what the modules registered and did not unregister
    careful,    \* history: rmmod was never used on a module others need or hold
    clash,      \* history: two files of one name were in the shared directory
    verdict     \* how the run ended

loaderVars == <<modules, use, at, scan, commands, careful, verdict>>
vars == <<chainVars, procVars, loaderVars, caches, changes, holds, owes, clash>>

Loaded == Range(modules)
Idle == [do |-> "prompt", mod |-> NULL, for |-> "user"]
NoScan == [files |-> {}, tried |-> FALSE, succeeded |-> FALSE]

\* What can be left behind, for each module.
Thing == { <<b, BlockOf[b]>> : b \in Block } \cup ({"file", "table", "cache"} \X Module)

TypeOK ==
    /\ ChainTypeOK /\ ProcTypeOK
    /\ modules \in Seq(Module) /\ IsInjective(modules)
    /\ use \in [Module -> Nat]
    /\ caches \in [Module -> -1 .. MaxObjects]
    /\ at.do \in {"prompt", "init", "fini", "event", "scan", "over"}
    /\ at.mod \in Module \cup {NULL} /\ at.for \in {"user", "all", "exit"}
    /\ scan.files \subseteq Module /\ scan.tried \in BOOLEAN /\ scan.succeeded \in BOOLEAN
    /\ holds \subseteq Module \X Module
    /\ owes \subseteq Thing
    /\ verdict \in {"none", "clean", "leak", "in use", "cannot remove",
                    "put too far", "unknown module", "crashed"}

Init ==
    /\ ChainInit /\ ProcInit
    /\ modules = << >> /\ use = [m \in Module |-> 0] /\ caches = [m \in Module |-> -1]
    /\ at = Idle /\ scan = NoScan /\ changes = 0 /\ commands = 0
    /\ holds = {} /\ owes = {} /\ careful = TRUE /\ clash = FALSE
    /\ verdict = "none"
-----------------------------------------------------------------------------
(* Code of the modules.                                                    *)

\* The module whose init function, exit function or callback runs.
Runs(m) ==
    \/ at.do \in {"init", "fini"} /\ at.mod = m
    \/ at.do = "event" /\ BlockOf[walk.at] = m

InCode(m) ==
    /\ Runs(m)
    /\ changes < MaxChanges
    /\ changes' = changes + 1

RegisterBlock(m, b) ==
    /\ InCode(m) /\ BlockOf[b] = m /\ at.do # "fini"
    /\ notifier_chain_register(b)
    /\ owes' = owes \cup {<<b, m>>}
    /\ UNCHANGED <<procVars, loaderVars, caches, holds, clash>>

UnregisterBlock(m, b) ==
    /\ InCode(m) /\ BlockOf[b] = m
    /\ notifier_chain_unregister(b)
    /\ owes' = owes \ {<<b, m>>}
    /\ UNCHANGED <<procVars, loaderVars, caches, holds, clash>>

CreateFile(m) ==
    /\ InCode(m) /\ at.do = "init" /\ m \in Files /\ <<"file", m>> \notin owes
    /\ create_proc_entry(m)
    /\ owes' = owes \cup {<<"file", m>>}
    /\ UNCHANGED <<chainVars, loaderVars, caches, holds, clash>>

RemoveFile(m) ==
    /\ InCode(m) /\ <<"file", m>> \in owes
    /\ IF CannotRemove(m)
       THEN /\ at' = [at EXCEPT !.do = "over"] /\ verdict' = "cannot remove"
            /\ UNCHANGED <<procVars, owes>>
       ELSE /\ remove_proc_entry(m)
            /\ owes' = owes \ {<<"file", m>>}
            /\ UNCHANGED <<at, verdict>>
    /\ UNCHANGED <<chainVars, modules, use, scan, commands, careful, caches, holds, clash>>

RegisterTable(m) ==
    /\ InCode(m) /\ at.do = "init" /\ m \in Tables /\ <<"table", m>> \notin owes
    /\ register_sysctl_table(m)
    /\ clash' = (clash \/ Match(proc["shared"], LeafName[m]) # 0)
    /\ owes' = owes \cup {<<"table", m>>}
    /\ UNCHANGED <<chainVars, loaderVars, caches, holds>>

UnregisterTable(m) ==
    /\ InCode(m) /\ <<"table", m>> \in owes
    /\ unregister_sysctl_table(m)
    /\ owes' = owes \ {<<"table", m>>}
    /\ UNCHANGED <<chainVars, loaderVars, caches, holds, clash>>

kmem_cache_create(m) ==
    /\ InCode(m) /\ at.do = "init" /\ m \in Caches /\ <<"cache", m>> \notin owes
    /\ caches' = [caches EXCEPT ![m] = 0]
    /\ owes' = owes \cup {<<"cache", m>>}
    /\ UNCHANGED <<chainVars, procVars, loaderVars, holds, clash>>

kmem_cache_alloc(m) ==
    /\ InCode(m) /\ caches[m] \in 0 .. MaxObjects - 1
    /\ caches' = [caches EXCEPT ![m] = @ + 1]
    /\ UNCHANGED <<chainVars, procVars, loaderVars, holds, owes, clash>>

kmem_cache_free(m) ==
    /\ InCode(m) /\ caches[m] > 0
    /\ caches' = [caches EXCEPT ![m] = @ - 1]
    /\ UNCHANGED <<chainVars, procVars, loaderVars, holds, owes, clash>>

\* The objects still in the cache go with it, being talloc'ed below it.
kmem_cache_destroy(m) ==
    /\ InCode(m) /\ caches[m] >= 0
    /\ caches' = [caches EXCEPT ![m] = -1]
    /\ owes' = owes \ {<<"cache", m>>}
    /\ UNCHANGED <<chainVars, procVars, loaderVars, holds, clash>>

\* try_module_get fails when told to by the failure injection; for the caller it is as
\* if it had not been called.
try_module_get(m, o) ==
    /\ InCode(m) /\ o \in Needs[m] /\ <<m, o>> \notin holds
    /\ IF o \notin Loaded
       THEN /\ at' = [at EXCEPT !.do = "over"] /\ verdict' = "unknown module"
            /\ UNCHANGED <<use, holds>>
       ELSE /\ use' = [use EXCEPT ![o] = @ + 1]
            /\ holds' = holds \cup {<<m, o>>}
            /\ UNCHANGED <<at, verdict>>
    /\ UNCHANGED <<chainVars, procVars, modules, scan, commands, careful, caches, owes, clash>>

module_put(m, o) ==
    /\ InCode(m) /\ <<m, o>> \in holds
    /\ holds' = holds \ {<<m, o>>}
    /\ IF o \notin Loaded \/ use[o] = 0
       THEN /\ at' = [at EXCEPT !.do = "over"] /\ UNCHANGED use
            /\ verdict' = IF o \notin Loaded THEN "unknown module" ELSE "put too far"
       ELSE /\ use' = [use EXCEPT ![o] = @ - 1]
            /\ UNCHANGED <<at, verdict>>
    /\ UNCHANGED <<chainVars, procVars, modules, scan, commands, careful, caches, owes, clash>>

ModuleCode ==
    \E m \in Module :
        \/ \E b \in Block : RegisterBlock(m, b) \/ UnregisterBlock(m, b)
        \/ CreateFile(m) \/ RemoveFile(m)
        \/ RegisterTable(m) \/ UnregisterTable(m)
        \/ kmem_cache_create(m) \/ kmem_cache_alloc(m)
        \/ kmem_cache_free(m) \/ kmem_cache_destroy(m)
        \/ \E o \in Module : try_module_get(m, o) \/ module_put(m, o)
-----------------------------------------------------------------------------
(* The loader.                                                             *)

Command ==
    /\ at = Idle
    /\ commands < MaxCommands
    /\ commands' = commands + 1

\* A module that went and left something behind is not loaded a second time: what it
\* left would be memory of both its lives.
Spent(m) == \/ (\E t \in owes : t[2] = m)
            \/ (\E o \in Module : <<m, o>> \in holds)

\* dlopen with RTLD_NOW resolves every symbol or fails.  External.
dlopen(m) == Needs[m] \subseteq Loaded /\ ~Spent(m)

load_mod_AtTheEnd(m) ==
    /\ modules' = Append(modules, m)
    /\ use' = [use EXCEPT ![m] = 0]

\* load_mod, once dlopen has succeeded.
load_mod(m) ==
    /\ modules' = <<m>> \o modules
    /\ use' = [use EXCEPT ![m] = 0]

\* talloc_free(mod) with destroy_mod.
Gone(m) == modules' = Kept(modules, { i \in DOMAIN modules : modules[i] # m })

\* A module that is loaded already, or that dlopen refuses, changes nothing.
insmod(m) ==
    /\ Command
    /\ m \notin Loaded /\ dlopen(m)
    /\ load_mod(m)
    /\ at' = [do |-> "init", mod |-> m, for |-> "user"]
    /\ changes' = 0
    /\ UNCHANGED <<chainVars, procVars, scan, careful, verdict, caches, holds, owes, clash>>

insmod_a ==
    /\ Command
    /\ at' = [do |-> "scan", mod |-> NULL, for |-> "all"]
    /\ scan' = [files |-> Module, tried |-> FALSE, succeeded |-> FALSE]
    /\ UNCHANGED <<chainVars, procVars, modules, use, careful, verdict, caches, changes, holds,
                   owes, clash>>

\* readdir gives the next file, in whatever order the file system has.
ReadDir(m) ==
    /\ at.do = "scan" /\ m \in scan.files
    /\ IF m \in Loaded
       THEN /\ scan' = [scan EXCEPT !.files = @ \ {m}]
            /\ UNCHANGED <<modules, use, at, changes>>
       ELSE /\ scan' = [scan EXCEPT !.files = @ \ {m}, !.tried = TRUE]
            /\ IF dlopen(m)
               THEN /\ load_mod(m) /\ changes' = 0
                    /\ at' = [at EXCEPT !.do = "init", !.mod = m]
               ELSE UNCHANGED <<modules, use, at, changes>>
    /\ UNCHANGED <<chainVars, procVars, commands, careful, verdict, caches, holds, owes, clash>>

EndOfDir_OnePass ==
    /\ at.do = "scan" /\ scan.files = {}
    /\ scan' = NoScan /\ at' = Idle
    /\ UNCHANGED <<chainVars, procVars, modules, use, commands, careful, verdict, caches, changes,
                   holds, owes, clash>>

EndOfDir_CountKept ==
    /\ at.do = "scan" /\ scan.files = {}
    /\ IF scan.succeeded
       THEN scan' = [scan EXCEPT !.files = Module, !.tried = FALSE] /\ UNCHANGED at
       ELSE scan' = NoScan /\ at' = Idle
    /\ UNCHANGED <<chainVars, procVars, modules, use, commands, careful, verdict, caches, changes,
                   holds, owes, clash>>

\* Another pass while the last one loaded something.
EndOfDir ==
    /\ at.do = "scan" /\ scan.files = {}
    /\ IF scan.succeeded
       THEN /\ scan' = [files |-> Module, tried |-> FALSE, succeeded |-> FALSE]
            /\ UNCHANGED at
       ELSE /\ scan' = NoScan /\ at' = Idle
    /\ UNCHANGED <<chainVars, procVars, modules, use, commands, careful, verdict, caches, changes,
                   holds, owes, clash>>

\* mod->init() returned 0.
InitSucceeds ==
    /\ at.do = "init"
    /\ IF at.for = "all"
       THEN /\ at' = [at EXCEPT !.do = "scan", !.mod = NULL]
            /\ scan' = [scan EXCEPT !.succeeded = TRUE]
       ELSE at' = Idle /\ UNCHANGED scan
    /\ changes' = 0
    /\ UNCHANGED <<chainVars, procVars, modules, use, commands, careful, verdict, caches, holds,
                   owes, clash>>

\* It failed: the module is freed, and load_all_modules gives up.
InitFails ==
    /\ at.do = "init"
    /\ Gone(at.mod)
    /\ at' = Idle /\ scan' = NoScan /\ changes' = 0
    /\ UNCHANGED <<chainVars, procVars, use, commands, careful, verdict, caches, holds, owes, clash>>

\* module_unload runs the timers that are due (modelled in Timers) and calls fini.
rmmod(m) ==
    /\ Command
    /\ m \in Loaded
    /\ at' = [do |-> "fini", mod |-> m, for |-> "user"]
    /\ careful' = (careful /\ \A o \in Module : /\ o \in Loaded => m \notin Needs[o]
                                             /\ <<o, m>> \notin holds)
    /\ changes' = 0
    /\ UNCHANGED <<chainVars, procVars, modules, use, scan, verdict, caches, holds, owes,
                   clash>>

\* unload_all_modules takes up its next module, or ends: for the command, or at the
\* end of main().  A module that is in use ends it.  tmp, the module behind the one
\* that was unloaded, is the first of the list by then.
Sweep(for, list) ==
    IF list = << >>
    THEN IF for = "exit"
         THEN /\ at' = [do |-> "over", mod |-> NULL, for |-> for]
              /\ proc_cleanup
              /\ UNCHANGED verdict
         ELSE at' = Idle /\ UNCHANGED <<procVars, verdict>>
    ELSE IF use[Head(list)] # 0
         THEN /\ at' = IF for = "exit" THEN [do |-> "over", mod |-> NULL, for |-> "user"] ELSE Idle
              /\ verdict' = IF for = "exit" THEN "in use" ELSE verdict
              /\ UNCHANGED procVars
         ELSE /\ at' = [do |-> "fini", mod |-> Head(list), for |-> for]
              /\ UNCHANGED <<procVars, verdict>>

rmmod_a ==
    /\ Command
    /\ Sweep("all", modules)
    /\ changes' = 0
    /\ UNCHANGED <<chainVars, modules, use, scan, careful, caches, holds, owes, clash>>

Exit ==
    /\ at = Idle
    /\ Sweep("exit", modules)
    /\ changes' = 0
    /\ UNCHANGED <<chainVars, modules, use, scan, commands, careful, caches, holds, owes,
                   clash>>

\* fini() returned (or there is none): destroy_mod, and on to the next module.
FiniReturns ==
    /\ at.do = "fini"
    /\ Gone(at.mod)
    /\ IF at.for = "user"
       THEN at' = Idle /\ UNCHANGED <<procVars, verdict>>
       ELSE Sweep(at.for, modules')
    /\ changes' = 0
    /\ UNCHANGED <<chainVars, use, scan, commands, careful, caches, holds, owes, clash>>

\* talloc_total_blocks(nfsim_tallocs), from the start on.
Blocks ==
    LET objects == { o \in Module \X (0 .. MaxObjects) : o[2] <= caches[o[1]] }
    IN  ProcBlocks + Cardinality({ b \in Block : fields[b] # 0 }) + Cardinality(objects)

\* check_allocations, after proc_cleanup.
check_allocations ==
    /\ at.do = "over" /\ at.for = "exit" /\ verdict = "none"
    /\ verdict' = IF Blocks # 0 THEN "leak" ELSE "clean"
    /\ UNCHANGED <<chainVars, procVars, modules, use, at, scan, commands, careful, caches,
                   changes, holds, owes, clash>>

\* ifconfig brings an address up or down, and the chain is called.  The code of a block
\* is there as long as its module is.
Event ==
    /\ Command
    /\ CallChain
    /\ at' = IF BlockOf[walk'.at] \in Loaded THEN [do |-> "event", mod |-> NULL, for |-> "user"]
             ELSE [do |-> "over", mod |-> NULL, for |-> "user"]
    /\ verdict' = IF at'.do = "over" THEN "crashed" ELSE verdict
    /\ changes' = 0
    /\ UNCHANGED <<procVars, modules, use, scan, careful, caches, holds, owes, clash>>

EventGoesOn ==
    /\ at.do = "event"
    /\ CallbackReturns
    /\ IF walk' = NoWalk
       THEN at' = Idle /\ changes' = 0 /\ UNCHANGED verdict
       ELSE IF BlockOf[walk'.at] \in Loaded
            THEN UNCHANGED <<at, verdict, changes>>
            ELSE at' = [at EXCEPT !.do = "over"] /\ verdict' = "crashed" /\ UNCHANGED changes
    /\ UNCHANGED <<procVars, modules, use, scan, commands, careful, caches, holds,
                   owes, clash>>

\* What goes on without the user.
Loader ==
    \/ \E m \in Module : ReadDir(m)
    \/ EndOfDir
    \/ InitSucceeds
    \/ InitFails
    \/ FiniReturns
    \/ check_allocations
    \/ EventGoesOn

Next ==
    \/ \E m \in Module : insmod(m) \/ rmmod(m)
    \/ insmod_a
    \/ rmmod_a
    \/ Event
    \/ Exit
    \/ ModuleCode
    \/ Loader

\* The functions of the modules return, the loader goes on.
Spec == Init /\ [][Next]_vars /\ WF_vars(Loader)
-----------------------------------------------------------------------------
Behind(i, j) == modules[j] \notin { m \in Module : modules[i] \in Needs[m] }

\* The simulator ends over a module's bookkeeping only for a reason: a reference goes
\* astray only after a careless rmmod, and a /proc file that is there cannot be removed
\* only if it was made by a path (proc_stuff.c:239 keeps the path as its name); and a
\* callback that is no longer there is called only if its module left it in the chain.
BarfHasACause ==
    /\ verdict \in {"put too far", "unknown module"} => ~careful
    /\ verdict = "cannot remove" => \E m \in ByPath : <<"file", m>> \in owes
    /\ verdict = "crashed" => <<walk.at, BlockOf[walk.at]>> \in owes

\* The loader's books: a use count is the number of references held, and no module is
\* listed behind one it needs, so that unload_all_modules, which goes from the front
\* (module.c:326, "Modules are listed in reverse order."), takes every module before
\* the ones it needs and never reaches a module in use whose user is still to be
\* unloaded - as long as rmmod is only used the way its help asks for.  The simulator
\* never dies over its own books.
LoaderSound ==
    /\ TypeOK
    /\ BarfHasACause
    /\ careful =>
        /\ \A i, j \in DOMAIN modules : i < j => Behind(i, j)
        /\ \A m \in Loaded : use[m] = Cardinality({ o \in Module : <<o, m>> \in holds })

\* load_all_modules, which tries again while it makes progress, ends with nothing left
\* that could have been loaded, and returns true (its last pass tried nothing) exactly
\* if everything is loaded.
LoadAllComplete ==
    [][ at.do = "scan" /\ at' = Idle
        => /\ \A m \in Module \ Loaded : ~dlopen(m)
           /\ scan.tried = (Loaded # Module) ]_vars

\* insmod -a, rmmod -a and an event come to an end.
CommandsEnd == (at.do \in {"scan", "init", "fini", "event"}) ~> (at.do \in {"prompt", "over"})

\* check_allocations says "Resource leak" exactly if a module left something behind:
\* a notifier block, a slab cache and, unless --ignore-proc-issues was given, a /proc
\* file or a sysctl table - in whatever order modules came and went that shared a
\* directory.  (A module that reads a freed entry, because another one used the name
\* of its file, may leave the entry.)
LeakCheckIsTrue ==
    LET excused == IF ignore_proc_issues THEN {"file", "table"} ELSE {}
    IN  at.do = "over" /\ verdict \in {"leak", "clean"} /\ ~clash
        => (verdict = "leak") = (\E t \in owes : t[1] \notin excused)
=============================================================================
