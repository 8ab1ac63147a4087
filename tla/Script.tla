------------------------------- MODULE Script -------------------------------
(***************************************************************************)
(* Test scripts: the command interpreter (core/tui.c), the expectations on *)
(* what a command logs (core/expect.c) and the one command that runs other *)
(* commands, tcpsession (tools/tcpsession.c).                              *)
(*                                                                         *)
(* A command's handler logs lines; every line is offered to the            *)
(* expectations on the innermost command.  When the handler has returned   *)
(* the post-command hook judges the expectations on that command and       *)
(* deletes them.  The hooks of the timers and of the hook command run      *)
(* before that one: what they log counts as logged by the handler.         *)
(***************************************************************************)
EXTENDS Naturals, Sequences, SequencesExt

CONSTANTS
    Command,    \* commands other than expect and tcpsession; has "gen_ip"
    Expectable, \* commands that scripts put expectations on
    Pattern,    \* patterns of expectations
    Line,       \* lines that handlers log
    Matches,    \* <<p, l>> \in Matches: the pattern p matches the line l
    MaxRuns,    \* bound: commands that are run, nested ones included
    MaxLines    \* bound: lines that handlers log

\* The lines the interpreter logs itself: "...: command failed", "Pattern ...
\* did not match", "Pattern ... matched".
Diagnostic == {"failed", "unmet", "met"}
AnyLine == Line \cup Diagnostic
AnyCommand == Command \cup {"expect", "tcpsession"}

ASSUME ScriptAssumption ==
    /\ "gen_ip" \in Command
    /\ Expectable \subseteq AnyCommand
    /\ Matches \subseteq Pattern \X AnyLine
    /\ MaxRuns \in Nat /\ MaxLines \in Nat

VARIABLES
    abort,      \* tui_abort_on_fail, option --exit
    expect,     \* the list of expectations, newest first
    stack,      \* the commands being run, the innermost last (cmdstack)
    exit,       \* "no", "ok", "barf" or "scriptfail"
    runs,       \* history: every command run, with the lines it logged
    asked,      \* history: every expectation made
    nlines      \* number of lines logged

vars == <<abort, expect, stack, exit, runs, asked, nlines>>

\* struct expect; `matched' is the number of the line that matched, 0 for none.
Expect == [id : Nat, command : AnyCommand, pattern : Pattern, invert : BOOLEAN,
           matched : Nat]

\* A call of tui_do_command.  at: in the handler or in the post-command hook,
\* which has come to element pos of the list; ok: what it is going to return;
\* next: what tcp_send has to do next, "any" when it is free; no: its number.
Frame == [command : AnyCommand, abort : BOOLEAN, at : {"handler", "post"},
          pos : Nat \ {0}, ok : BOOLEAN, next : {"any", "gen_ip", "fail"}, no : Nat \ {0}]

Depth == Len(stack)
Top == stack[Depth]

-----------------------------------------------------------------------------
(* Logging. *)

Hit(e, l) ==
    /\ e.matched = 0
    /\ stack # <<>> /\ e.command = Top.command
    /\ <<e.pattern, l>> \in Matches

\* Mutant: expectations of all commands are offered the line.
ExpectLogHook_AnyCommand(l) ==
    [i \in DOMAIN expect |->
        IF expect[i].matched = 0 /\ <<expect[i].pattern, l>> \in Matches
        THEN [expect[i] EXCEPT !.matched = nlines + 1] ELSE expect[i]]

\* expect_log_hook: all expectations that match the line are marked.
ExpectLogHook(l) ==
    [i \in DOMAIN expect |->
        IF Hit(expect[i], l) THEN [expect[i] EXCEPT !.matched = nlines + 1]
        ELSE expect[i]]

\* What nfsim_log returns: was the line expected?
Expected(l) == \E i \in DOMAIN expect : Hit(expect[i], l)

\* nfsim_log, in the innermost command.
Log(l) ==
    /\ expect' = ExpectLogHook(l)
    /\ runs' = [runs EXCEPT ![Top.no].lines = @ \cup {l}]
    /\ nlines' = nlines + 1

ScriptFail == exit' = "scriptfail"

-----------------------------------------------------------------------------
(* Commands. *)

\* tui_do_command up to the call of the handler; the pre-command hook makes it
\* the current command.
Call(c, ab) ==
    /\ Len(runs) < MaxRuns
    /\ runs' = Append(runs, [command |-> c, lines |-> {}, over |-> FALSE,
                             failed |-> FALSE, depth |-> Depth + 1])
    /\ stack' = Append(stack, [command |-> c, abort |-> ab, at |-> "handler", pos |-> 1,
                               ok |-> TRUE, next |-> "any", no |-> Len(runs) + 1])

\* process_line: the next line of the script is a command.
DoCommand(c) ==
    /\ exit = "no" /\ stack = <<>>
    /\ Call(c, abort)
    /\ UNCHANGED <<abort, expect, exit, asked, nlines>>

\* It is not one.
NotFound ==
    /\ exit = "no" /\ stack = <<>>
    /\ abort /\ ScriptFail
    /\ UNCHANGED <<abort, expect, stack, runs, asked, nlines>>

InHandler == exit = "no" /\ stack # <<>> /\ Top.at = "handler"

HandlerLogs(l) ==
    /\ InHandler /\ Top.command # "expect" /\ Top.next = "any"
    /\ nlines < MaxLines
    /\ Log(l)
    /\ UNCHANGED <<abort, stack, exit, asked>>

\* expect_cmd.  tcp_send only expects packets that gen_ip sends.
ExpectCmd(c, p, inv) ==
    /\ InHandler /\ Top.command = "expect"
    /\ Depth > 1 => c = "gen_ip" /\ ~inv
    /\ LET e == [id |-> Len(asked) + 1, command |-> c, pattern |-> p, invert |-> inv,
                 matched |-> 0]
       IN  /\ expect' = <<e>> \o expect
           /\ asked' = Append(asked, [command |-> c, pattern |-> p, invert |-> inv,
                                      since |-> Len(runs)])
    /\ stack' = [stack EXCEPT ![Depth].at = "post"]
    /\ UNCHANGED <<abort, exit, runs, nlines>>

\* tcp_send: "expect gen_ip ..." and then "gen_ip ...", neither of which is to
\* abort the script.
TcpSend ==
    /\ InHandler /\ Top.command = "tcpsession" /\ Top.next # "fail"
    /\ Call(IF Top.next = "gen_ip" THEN "gen_ip" ELSE "expect", FALSE)
    /\ UNCHANGED <<abort, expect, exit, asked, nlines>>

HandlerSucceeds ==
    /\ InHandler /\ Top.command # "expect" /\ Top.next = "any"
    /\ stack' = [stack EXCEPT ![Depth].at = "post"]
    /\ UNCHANGED <<abort, expect, exit, runs, asked, nlines>>

\* Mutant: every failure counts as expected.
AbortOnFailure_Never == FALSE

\* "Abort on UNEXPECTED failure."
AbortOnFailure == Top.abort /\ ~Expected("failed")

HandlerFails ==
    /\ InHandler /\ Top.next # "gen_ip"
    /\ Top.command = "expect" => Depth = 1
    /\ expect' = ExpectLogHook("failed")
    /\ nlines' = nlines + 1
    /\ LET r == runs[Top.no]
       IN  runs' = [runs EXCEPT ![Top.no] = [r EXCEPT !.lines = r.lines \cup {"failed"},
                                                      !.failed = TRUE]]
    /\ \/ AbortOnFailure /\ ScriptFail /\ UNCHANGED stack
       \/ /\ ~AbortOnFailure
          /\ stack' = [stack EXCEPT ![Depth] = [@ EXCEPT !.at = "post", !.ok = FALSE]]
          /\ UNCHANGED exit
    /\ UNCHANGED <<abort, asked>>

-----------------------------------------------------------------------------
(* expect_post_command *)

InPost == exit = "no" /\ stack # <<>> /\ Top.at = "post"
At == expect[Top.pos]

Bad(e) == e.invert = (e.matched # 0)

\* An expectation on another command stays.
PostSkips ==
    /\ InPost /\ Top.pos <= Len(expect)
    /\ At.command # Top.command
    /\ stack' = [stack EXCEPT ![Depth].pos = @ + 1]
    /\ UNCHANGED <<abort, expect, exit, runs, asked, nlines>>

\* Mutant: the loop steps over the element behind the one it deletes.
PostMet_Steps ==
    /\ InPost /\ Top.pos <= Len(expect)
    /\ At.command = Top.command /\ ~Bad(At)
    /\ expect' = RemoveAt(expect, Top.pos)
    /\ stack' = [stack EXCEPT ![Depth].pos = @ + 1]
    /\ UNCHANGED <<abort, exit, runs, asked, nlines>>

PostMet ==
    /\ InPost /\ Top.pos <= Len(expect)
    /\ At.command = Top.command /\ ~Bad(At)
    /\ expect' = RemoveAt(expect, Top.pos)
    /\ UNCHANGED <<abort, stack, exit, runs, asked, nlines>>

\* The diagnosis is logged in the middle of the loop, for the remaining
\* expectations to match.
PostBad ==
    /\ InPost /\ Top.pos <= Len(expect)
    /\ At.command = Top.command /\ Bad(At)
    /\ \/ abort /\ ScriptFail /\ UNCHANGED <<expect, stack, runs, nlines>>
       \/ /\ ~abort
          /\ LET l == IF At.invert THEN "met" ELSE "unmet"
             IN  /\ expect' = RemoveAt(ExpectLogHook(l), Top.pos)
                 /\ runs' = [runs EXCEPT ![Top.no].lines = @ \cup {l}]
          /\ nlines' = nlines + 1
          /\ stack' = [stack EXCEPT ![Depth].ok = FALSE]
          /\ UNCHANGED exit
    /\ UNCHANGED <<abort, asked>>

\* tui_do_command returns; inside of tcpsession, tcp_send looks at what.
CommandEnds ==
    /\ InPost /\ Top.pos > Len(expect)
    /\ runs' = [runs EXCEPT ![Top.no].over = TRUE]
    /\ stack' = IF Depth = 1 THEN <<>>
                ELSE [Front(stack) EXCEPT ![Depth - 1].next =
                        IF ~Top.ok THEN "fail"
                        ELSE IF Top.command = "expect" THEN "gen_ip" ELSE "any"]
    /\ UNCHANGED <<abort, expect, exit, asked, nlines>>

\* The script is over: main barfs when expectations remain.
Finish ==
    /\ exit = "no" /\ stack = <<>>
    /\ exit' = IF expect = <<>> THEN "ok" ELSE "barf"
    /\ UNCHANGED <<abort, expect, stack, runs, asked, nlines>>

-----------------------------------------------------------------------------
Init ==
    /\ abort \in BOOLEAN
    /\ expect = <<>> /\ stack = <<>>
    /\ exit = "no"
    /\ runs = <<>> /\ asked = <<>>
    /\ nlines = 0

Next ==
    \/ \E c \in AnyCommand : DoCommand(c)
    \/ NotFound
    \/ \E l \in Line : HandlerLogs(l)
    \/ \E c \in Expectable, p \in Pattern, inv \in BOOLEAN : ExpectCmd(c, p, inv)
    \/ TcpSend \/ HandlerSucceeds \/ HandlerFails
    \/ PostSkips \/ PostMet \/ PostBad \/ CommandEnds
    \/ Finish

Spec == Init /\ [][Next]_vars

-----------------------------------------------------------------------------
(* Properties. *)

TypeOK ==
    /\ abort \in BOOLEAN
    /\ expect \in Seq(Expect)
    /\ stack \in Seq(Frame)
    /\ exit \in {"no", "ok", "barf", "scriptfail"}
    /\ runs \in Seq([command : AnyCommand, lines : SUBSET AnyLine, over : BOOLEAN,
                     failed : BOOLEAN, depth : Nat])
    /\ asked \in Seq([command : AnyCommand, pattern : Pattern, invert : BOOLEAN,
                      since : Nat])
    /\ nlines \in Nat

\* The next time the command of an expectation was invoked.
Invocations(a) == {i \in DOMAIN runs : i > a.since /\ runs[i].command = a.command}
NextTime(a) == CHOOSE i \in Invocations(a) : \A j \in Invocations(a) : i <= j

Seen(a, i) == \E l \in runs[i].lines : <<a.pattern, l>> \in Matches

\* What a test suite relies on: when nfsim -e exits with 0, every expectation
\* the script or tcpsession ever made was decided by the next run of its
\* command, and decided as asked: the pattern was logged by that command
\* itself, or was not when the expectation is inverted.
PassMeansFulfilled ==
    abort /\ exit = "ok" =>
        \A k \in DOMAIN asked :
            LET a == asked[k]
            IN  /\ Invocations(a) # {}
                /\ Seen(a, NextTime(a)) <=> ~a.invert

\* When nfsim -e exits with 0, a command of the script failed only where an
\* expectation, not an inverted one, asked for that failure.
FailureMeansExpected ==
    abort /\ exit = "ok" =>
        \A i \in DOMAIN runs :
            runs[i].failed /\ runs[i].depth = 1 =>
                \E k \in DOMAIN asked :
                    /\ i \in Invocations(asked[k]) /\ NextTime(asked[k]) = i
                    /\ ~asked[k].invert /\ <<asked[k].pattern, "failed">> \in Matches

\* "After the command is run, all expectations on that command are deleted",
\* whatever became of them and however the commands nest.
ExpectationsCleared ==
    /\ TypeOK
    /\ exit = "no" => \A i \in DOMAIN expect :
        \A j \in Invocations(asked[expect[i].id]) : ~runs[j].over

\* "Only allow each pattern to match once, so we can easily expect something
\* to happen twice" (expect_log_hook): two equal expectations take two lines.
\* TLC refutes it: a line is matched against every expectation.
MatchedOnce ==
    \A i, j \in DOMAIN expect :
        /\ i # j /\ expect[i].matched # 0
        /\ expect[i].command = expect[j].command
        /\ expect[i].pattern = expect[j].pattern
        => expect[i].matched # expect[j].matched

\* "Don't have it abort, do that at top level" (tcp_send): the script does not
\* fail inside of the commands that tcpsession runs.  TLC refutes it:
\* expect_post_command looks at tui_abort_on_fail alone.
NestedNeverAborts == exit = "scriptfail" => Depth <= 1
=============================================================================
