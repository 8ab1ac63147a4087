------------------------------ MODULE FailTest ------------------------------
(***************************************************************************)
(* Failure injection, core/failtest.c: should_i_fail and                   *)
(* should_i_fail_once fork the whole simulator at every potential failure. *)
(* The child takes the failing branch while the parent sleeps in waitpid,  *)
(* so that the live processes form a stack: procs[1] is the process the    *)
(* user started, every later element is the child of the one before it and *)
(* only the last one runs.                                                 *)
(*                                                                         *)
(* The code under test is whatever calls should_i_fail.  It is             *)
(* deterministic: what it does next is a function of the answers it has    *)
(* been given, and `prog' is that function, discovered as it is run.       *)
(* A first run explores (--failtest); when it has printed a failure path,  *)
(* a second run of the same program replays that path (--failpath).        *)
(***************************************************************************)
EXTENDS Naturals, Sequences, FiniteSets

CONSTANTS
    Loc,        \* names of failure points (function names, file:line)
    OnceLoc,    \* those that ask with should_i_fail_once
    NoReport,   \* those --failtest-no-report matches
    Within,     \* <<l, m>> \in Within: the name l occurs as a substring of m
    MaxLine,    \* script lines are 1..MaxLine
    Suppress,   \* the values suppress_failtest takes: a subset of BOOLEAN
    Outcomes,   \* the ways the code under test may end: a subset of Exits
    Excessive,  \* what excessive_fails starts with: 2 in the code
    MaxCalls    \* bound: failure points one process passes before it exits

\* EXIT_SUCCESS, EXIT_FAILURE (barf), EXIT_SCRIPTFAIL (script_fail) or death
\* by a signal.
Exits == {"success", "failure", "scriptfail", "signal"}

ASSUME FailTestAssumption ==
    /\ OnceLoc \subseteq Loc
    /\ NoReport \subseteq Loc
    /\ Suppress \subseteq BOOLEAN
    /\ Outcomes \subseteq Exits
    /\ \A l \in Loc : <<l, l>> \in Within
    /\ MaxLine \in Nat \ {0}
    /\ MaxCalls \in Nat /\ Excessive \in Nat

VARIABLES
    mode,       \* "record" (--failtest), "replay" (--failpath) or "done"
    prog,       \* what the code under test does after each run of answers
    procs,      \* the stack of processes
    reports,    \* the failure paths printed so far
    culprit     \* history: the process whose bad exit was reported

vars == <<mode, prog, procs, reports, culprit>>

-----------------------------------------------------------------------------
(* What the code under test may do next. *)

\* A call of should_i_fail or should_i_fail_once; `sup' says whether
\* suppress_failtest is up at the time, `line' is tui_linenum.
CallOf ==
    [op : {"fail"}, loc : Loc \ OnceLoc, line : 1..MaxLine, sup : Suppress]
        \cup [op : {"once"}, loc : OnceLoc, line : 1..MaxLine, sup : Suppress]

ExitOf == [op : {"exit"}, how : Outcomes]

Statuses == Exits \cup {"silent"}

\* struct fail_decision
Decision == [loc : Loc, line : 1..MaxLine, failed : BOOLEAN]

\* One process.  failpath is the number of the next decision to replay, or 0
\* for the NULL pointer; hist lists the answers given to the code under test.
Process ==
    [hist : Seq(BOOLEAN), decisions : Seq(Decision), fails : Nat,
     excessive_fails : Nat, warned : BOOLEAN, failpoints : Nat,
     failpath : Nat, status : Statuses \cup {"running"}]

FreshProcess(fp) ==
    [hist |-> <<>>, decisions |-> <<>>, fails |-> 0,
     excessive_fails |-> Excessive,
     warned |-> FALSE, failpoints |-> 0, failpath |-> fp, status |-> "running"]

Top == Len(procs)
Cur == procs[Top]

\* The path given with --failpath: the one the first run printed.
OrigFailpath == reports[1].path

-----------------------------------------------------------------------------
(* Steps of the running process. *)

\* The caller gets its answer and goes on.
Answer(p, b) == [p EXCEPT !.hist = Append(@, b)]

\* Mutants of Die: a status no parent knows; EXIT_SILENT forgotten.
Die_Unknown(p, how) == [p EXCEPT !.status = "unknown"]
Die_Loud(p, how) == [p EXCEPT !.status = IF how = "silent" THEN "failure" ELSE how]

Die(p, how) == [p EXCEPT !.status = how]

\* Mutant: the end of the path comes one decision too early.
DoFailpath_Short(p, c) ==
    IF p.failpath >= Len(OrigFailpath)
    THEN Answer([p EXCEPT !.failpath = 0], FALSE)
    ELSE LET d == OrigFailpath[p.failpath]
         IN  IF d.loc = c.loc /\ d.line = c.line
             THEN Answer([p EXCEPT !.failpath = @ + 1], d.failed)
             ELSE Die(p, "failure")

\* do_failpath: take the next decision of the path.  A decision that was
\* recorded for another place or another line makes the process barf; past
\* the end of the path everything succeeds and failpath becomes NULL.
DoFailpath(p, c) ==
    IF p.failpath > Len(OrigFailpath)
    THEN Answer([p EXCEPT !.failpath = 0], FALSE)
    ELSE LET d == OrigFailpath[p.failpath]
         IN  IF d.loc = c.loc /\ d.line = c.line
             THEN Answer([p EXCEPT !.failpath = @ + 1], d.failed)
             ELSE Die(p, "failure")

\* Mutant: failures that are not to be reported count as well.
Child_CountsAll(p, c) ==
    [p EXCEPT !.failpoints = @ + 1,
              !.warned = @ \/ p.fails > p.excessive_fails,
              !.decisions = Append(@, [loc |-> c.loc, line |-> c.line,
                                       failed |-> TRUE]),
              !.fails = @ + 1,
              !.excessive_fails = IF c.op = "once" THEN @ + 1 ELSE @,
              !.hist = Append(@, TRUE)]

\* The child that should_i_fail forks: it fails at c.
Child(p, c) ==
    [p EXCEPT !.failpoints = @ + 1,
              !.warned = @ \/ p.fails > p.excessive_fails,
              !.decisions = Append(@, [loc |-> c.loc, line |-> c.line,
                                       failed |-> TRUE]),
              !.fails = IF c.loc \in NoReport THEN @ ELSE @ + 1,
              !.excessive_fails = IF c.op = "once" THEN @ + 1 ELSE @,
              !.hist = Append(@, TRUE)]

\* The parent as it enters waitpid; dec->failed is false from here on.
Waiting(p, c) ==
    [p EXCEPT !.failpoints = @ + 1,
              !.warned = @ \/ p.fails > p.excessive_fails,
              !.decisions = Append(@, [loc |-> c.loc, line |-> c.line,
                                       failed |-> FALSE])]

\* should_i_fail without a failure path: only --failtest forks.
Inject(c) ==
    IF mode = "record"
    THEN procs' = Append([procs EXCEPT ![Top] = Waiting(Cur, c)], Child(Cur, c))
    ELSE procs' = [procs EXCEPT
                     ![Top] = Answer([Cur EXCEPT !.failpoints = @ + 1], FALSE)]

ShouldIFail(c) ==
    /\ c.op = "fail"
    /\ \/ /\ c.sup
          /\ procs' = [procs EXCEPT ![Top] = Answer(Cur, FALSE)]
       \/ /\ ~c.sup /\ Cur.failpath # 0
          /\ procs' = [procs EXCEPT ![Top] = DoFailpath(Cur, c)]
       \/ /\ ~c.sup /\ Cur.failpath = 0
          /\ Inject(c)

\* should_i_fail_once asks a given place once in a run.  When a path is being
\* replayed it looks the place up with strstr: only the first decision whose
\* text contains the name is considered, and it counts when it lies before the
\* current position and is that very name.
AlreadyReplayed(p, l) ==
    LET hits == {i \in DOMAIN OrigFailpath : <<l, OrigFailpath[i].loc>> \in Within}
    IN  \E i \in hits : /\ \A j \in hits : i <= j
                        /\ i < p.failpath
                        /\ OrigFailpath[i].loc = l

\* Mutant: any decision counts.
AlreadyDecided_Any(p, l) == p.decisions # <<>>

AlreadyDecided(p, l) == \E i \in DOMAIN p.decisions : p.decisions[i].loc = l

ShouldIFailOnce(c) ==
    /\ c.op = "once"
    /\ \/ /\ \/ c.sup
             \/ Cur.failpath # 0 /\ AlreadyReplayed(Cur, c.loc)
             \/ Cur.failpath = 0 /\ AlreadyDecided(Cur, c.loc)
          /\ procs' = [procs EXCEPT ![Top] = Answer(Cur, FALSE)]
       \/ /\ ~c.sup /\ Cur.failpath # 0 /\ ~AlreadyReplayed(Cur, c.loc)
          /\ procs' = [procs EXCEPT ![Top] = DoFailpath(Cur, c)]
       \/ /\ ~c.sup /\ Cur.failpath = 0 /\ ~AlreadyDecided(Cur, c.loc)
          /\ Inject(c)

Exit(c) ==
    /\ c.op = "exit"
    /\ procs' = [procs EXCEPT ![Top] = Die(Cur, c.how)]

\* What the code under test can be found doing at this point of its run: its
\* script never goes back to an earlier line, and the bound ends it.
Possible(h) ==
    {c \in CallOf \cup ExitOf :
        /\ Len(h) = MaxCalls => c.op = "exit"
        /\ c.op # "exit" =>
             \A k \in 0..(Len(h) - 1) :
                 SubSeq(h, 1, k) \in DOMAIN prog
                     => prog[SubSeq(h, 1, k)].line <= c.line}

\* The code under test makes its next move, the same one whenever it has seen
\* the same answers.
Run ==
    /\ mode # "done"
    /\ Cur.status = "running"
    /\ \E c \in (IF Cur.hist \in DOMAIN prog THEN {prog[Cur.hist]}
                                              ELSE Possible(Cur.hist)) :
         /\ prog' = [h \in DOMAIN prog \cup {Cur.hist} |->
                        IF h \in DOMAIN prog THEN prog[h] ELSE c]
         /\ ShouldIFail(c) \/ ShouldIFailOnce(c) \/ Exit(c)
    /\ UNCHANGED <<mode, reports, culprit>>

-----------------------------------------------------------------------------
(* The parent's waitpid returns. *)

Parent == procs[Top - 1]
Waiters == SubSeq(procs, 1, Top - 1)

\* Mutant: a failed script is not an expected end.
ReapGood_Strict ==
    /\ Top > 1
    /\ Cur.status = "success"
    /\ procs' = [Waiters EXCEPT ![Top - 1] = Answer(Parent, FALSE)]
    /\ UNCHANGED <<mode, prog, reports, culprit>>

\* A child that succeeded, or whose script merely failed, is forgotten and
\* the parent takes the succeeding branch.
ReapGood ==
    /\ Top > 1
    /\ Cur.status \in {"success", "scriptfail"}
    /\ procs' = [Waiters EXCEPT ![Top - 1] = Answer(Parent, FALSE)]
    /\ UNCHANGED <<mode, prog, reports, culprit>>

\* Any other end of the child ends the parent, with EXIT_SILENT; it prints the
\* path, its last decision turned into a failure again, unless the child had
\* exited silently itself.
ReapBad ==
    /\ Top > 1
    /\ Cur.status \in {"failure", "signal", "silent"}
    /\ procs' = [Waiters EXCEPT ![Top - 1] = Die(Parent, "silent")]
    /\ IF Cur.status = "silent"
       THEN UNCHANGED <<reports, culprit>>
       ELSE /\ reports' = Append(reports,
                 [path |-> [Parent.decisions EXCEPT ![Len(Parent.decisions)].failed = TRUE],
                  status |-> Cur.status])
            /\ culprit' = Cur
    /\ UNCHANGED <<mode, prog>>

\* The first process has ended: a printed path is given to --failpath.
StartReplay ==
    /\ mode = "record" /\ Top = 1 /\ Cur.status # "running"
    /\ reports # <<>>
    /\ mode' = "replay"
    /\ procs' = <<FreshProcess(1)>>
    /\ UNCHANGED <<prog, reports, culprit>>

Finish ==
    /\ Top = 1 /\ Cur.status # "running"
    /\ \/ mode = "replay"
       \/ mode = "record" /\ reports = <<>>
    /\ mode' = "done"
    /\ UNCHANGED <<prog, procs, reports, culprit>>

Init ==
    /\ mode = "record"
    /\ prog = [h \in {} |-> h]
    /\ procs = <<FreshProcess(0)>>
    /\ reports = <<>>
    /\ culprit = FreshProcess(0)

Next == Run \/ ReapGood \/ ReapBad \/ StartReplay \/ Finish

Spec == Init /\ [][Next]_vars

\* The running process is a process of the operating system and waitpid
\* returns once the child is dead.
FairSpec == Spec /\ WF_vars(Next)

-----------------------------------------------------------------------------
(* Properties. *)

TypeOK ==
    /\ mode \in {"record", "replay", "done"}
    /\ procs \in Seq(Process) /\ procs # <<>>
    /\ \A h \in DOMAIN prog : h \in Seq(BOOLEAN) /\ prog[h] \in CallOf \cup ExitOf
    /\ reports \in Seq([path : Seq(Decision), status : Statuses])
    /\ culprit \in Process

\* Did this call fork, when the first run made it with these answers behind it?
Asked(h) ==
    /\ h \in DOMAIN prog /\ prog[h].op # "exit" /\ ~prog[h].sup
    /\ prog[h].op = "once" =>
         \A k \in 0..(Len(h) - 1) :
             LET g == SubSeq(h, 1, k)
             IN  prog[g].op # "exit" /\ prog[g].loc = prog[h].loc => prog[g].sup

\* "Try every combination of external failures": when the first run ends with
\* nothing to report, both answers of every failure point it met have been
\* tried, and no branch in which something failed ended in a crash or a barf.
EveryCombinationTried ==
    mode = "done" /\ reports = <<>> =>
        \A h \in DOMAIN prog :
            /\ Asked(h) => /\ Append(h, TRUE) \in DOMAIN prog
                           /\ Append(h, FALSE) \in DOMAIN prog
            /\ prog[h].op = "exit" /\ (\E i \in DOMAIN h : h[i])
                 => prog[h].how \in {"success", "scriptfail"}

\* An error that the injected failures provoke is printed once, by the parent
\* of the process it happened in; from then on every process only leaves, and
\* the one the user started leaves with EXIT_SILENT.
ReportedOnce ==
    /\ Len(reports) <= 1
    /\ reports # <<>> /\ mode = "record" => Cur.status = "silent"
    /\ mode = "record" /\ Cur.status = "silent" => reports # <<>>

\* fails counts the failures on the way to this process that the testcase
\* ought to notice, excessive_fails the ones it is allowed, which every failure
\* of a once-only point raises; the warning that a testcase ignores failures
\* is only given to a run that had ignored more than it was allowed.
FailuresCounted ==
    \A k \in 1..Top :
        LET p == procs[k]
            Failed(n) == {i \in 1..n : p.decisions[i].failed}
            Counted(n) == {i \in Failed(n) : p.decisions[i].loc \notin NoReport}
            Once(n) == {i \in Failed(n) : p.decisions[i].loc \in OnceLoc}
            N == Len(p.decisions)
        IN  /\ p.fails = Cardinality(Counted(N))
            /\ p.excessive_fails = Excessive + Cardinality(Once(N))
            /\ p.warned => \E n \in 0..N :
                  Cardinality(Counted(n)) > Excessive + Cardinality(Once(n))

\* The printed path "can be replayed using --failpath": the replay passes
\* through the same answers and comes to the same end.
ReplayReproduces ==
    mode = "done" /\ reports # <<>> =>
        /\ procs[1].hist = culprit.hist
        /\ procs[1].status = culprit.status

\* Both runs come to an end, whatever the children do.
Terminates == <>(mode = "done")
=============================================================================
