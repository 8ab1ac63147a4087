------------------------------ MODULE ProcTree ------------------------------
(***************************************************************************)
(* The simulated /proc (kernelenv/proc_stuff.c) as modules use it: files   *)
(* in /proc/net, made below a parent or by a path, and sysctl tables, each *)
(* with a directory below /proc/sys that tables of other modules may share *)
(* and a file in it.  Entries of a directory are found by name, first      *)
(* match, newest first; a table keeps pointers to its own entries.         *)
(***************************************************************************)
EXTENDS Integers, Sequences, SequencesExt, FiniteSets

CONSTANTS
    Owner,      \* the modules that make entries
    FileName,   \* [Owner -> name]: the file of a module in /proc/net
    LeafName,   \* [Owner -> name]: the file of its sysctl table
    ByPath,     \* the modules that make their file by a path ("net/name")
    ignore_proc_issues

Name == { FileName[m] : m \in Owner } \cup { LeafName[m] : m \in Owner } \cup {"shared"}

\* What proc_match compares a name with: the name of the entry, cut to namelen.
\* proc_create keeps the whole path but the length of its last part, so what is left
\* of "net/name" is the start of the path, and no name.
PathStart == "start of a path"

\* Two modules may have sysctl files of one name; their files in /proc/net differ.
ASSUME ProcAssumption ==
    /\ ByPath \subseteq Owner
    /\ ignore_proc_issues \in BOOLEAN
    /\ DOMAIN FileName = Owner /\ DOMAIN LeafName = Owner
    /\ IsInjective(FileName) /\ PathStart \notin Name

VARIABLES
    proc,       \* the subdir lists of net, sys and the shared directory
    tables      \* the modules whose sysctl table has a header

procVars == <<proc, tables>>

Dir == {"net", "sys", "shared"}

Entry == [key : Name \cup {PathStart}, owner : Owner]

ProcTypeOK ==
    /\ \A d \in Dir : \A i \in DOMAIN proc[d] : proc[d][i] \in Entry
    /\ tables \subseteq Owner

\* proc_init
ProcInit ==
    /\ proc = [d \in Dir |-> << >>]
    /\ tables = {}

\* Blocks below __proc_ctx: an entry with its name, and a header, are talloc'ed.
ProcBlocks ==
    2 * (Len(proc["net"]) + Len(proc["sys"]) + Len(proc["shared"])) + Cardinality(tables)

\* The first entry of a list with this name, 0 when there is none.
Match(list, name) ==
    LET hits == { i \in DOMAIN list : list[i].key = name }
    IN  IF hits = {} THEN 0 ELSE CHOOSE i \in hits : \A j \in hits : i <= j

\* proc_create and proc_register: the entry goes to the front.
Created(list, key, m) == <<[key |-> key, owner |-> m]>> \o list

\* The loop of remove_proc_entry.
Removed(list, name) ==
    IF Match(list, name) = 0 THEN list ELSE RemoveAt(list, Match(list, name))

\* When the failure injection makes it fail it returns NULL and changes nothing: for
\* the module it is as if it had not been called.  The same for register_sysctl_table,
\* which makes its entries with the injection suppressed.
create_proc_entry(m) ==
    /\ proc' = [proc EXCEPT !["net"] =
                    Created(@, IF m \in ByPath THEN PathStart ELSE FileName[m], m)]
    /\ UNCHANGED tables

\* remove_proc_entry finds no entry of the name and ends the simulator.
CannotRemove(m) == ~ignore_proc_issues /\ Match(proc["net"], FileName[m]) = 0

remove_proc_entry(m) ==
    /\ proc' = [proc EXCEPT !["net"] = Removed(@, FileName[m])]
    /\ UNCHANGED tables

\* register_proc_table: the directory is made unless it is there, the file always.
register_sysctl_table(m) ==
    /\ tables' = tables \cup {m}
    /\ proc' = [proc EXCEPT
                    !["sys"] = IF Match(@, "shared") = 0 THEN Created(@, "shared", m) ELSE @,
                    !["shared"] = Created(@, LeafName[m], m)]

\* The file a table points to was removed for a table with a file of the same name.
LeafGone(m) == \A i \in DOMAIN proc["shared"] : proc["shared"][i].owner # m

unregister_sysctl_table_DirKept(m) ==
    /\ tables' = tables \ {m}
    /\ proc' = [proc EXCEPT !["shared"] = Removed(@, LeafName[m])]

\* unregister_proc_table: the file, then the directory if it is empty by then.  When
\* the memory of the file was freed, the mode read from it may say anything: for a
\* directory (`garbled') the file is left alone.
unregister_sysctl_table(m) ==
    \E garbled \in (IF LeafGone(m) THEN BOOLEAN ELSE {FALSE}) :
        LET left == IF garbled THEN proc["shared"] ELSE Removed(proc["shared"], LeafName[m])
        IN  /\ tables' = tables \ {m}
            /\ proc' = [proc EXCEPT
                            !["shared"] = left,
                            !["sys"] = IF left = << >> THEN Removed(@, "shared") ELSE @]

\* proc_cleanup, at the end: everything is freed and made anew.
proc_cleanup ==
    IF ignore_proc_issues
    THEN proc' = [d \in Dir |-> << >>] /\ tables' = {}
    ELSE UNCHANGED procVars
=============================================================================
