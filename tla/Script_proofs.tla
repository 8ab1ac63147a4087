---------------------------- MODULE Script_proofs ---------------------------
(***************************************************************************)
(* Proofs about Script, for every set of commands, patterns and lines and  *)
(* for scripts of every length.                                            *)
(*                                                                         *)
(* The properties speak of the end of a script or of commands that are     *)
(* over; the invariant says how an expectation gets there.  While it is on *)
(* the list, the only run of its command since it was made is one that is  *)
(* still being run (Pending), and it is marked exactly when that run has   *)
(* logged the pattern (Waiting); once it is off the list its verdict is    *)
(* settled, because the run logs nothing any more (Verdicts).  All this    *)
(* needs the shape of the command stack (StackSound): two commands at      *)
(* most, different ones, and in front of the place that the post-command   *)
(* hook has come to no expectation on its command.                         *)
(*                                                                         *)
(* An expectation on expect itself is judged by the very command that makes*)
(* it, before the "next time" it asks for; Waiting and what follows from   *)
(* it is about scripts without such expectations (NoSelf).                 *)
(***************************************************************************)
EXTENDS Script, Lists_proofs

NoSelf == "expect" \notin Expectable

Run == [command : AnyCommand, lines : SUBSET AnyLine, over : BOOLEAN,
        failed : BOOLEAN, depth : Nat]
Asked == [command : AnyCommand, pattern : Pattern, invert : BOOLEAN, since : Nat]

\* Invocations, Seen and NextTime, of the runs rs.
Calls(rs, a) == {i \in DOMAIN rs : i > a.since /\ rs[i].command = a.command}
SeenBy(rs, a, i) == \E l \in rs[i].lines : <<a.pattern, l>> \in Matches
First(rs, a, n) == n \in Calls(rs, a) /\ \A j \in Calls(rs, a) : n <= j

\* The n-th run logs nothing any more, unless the script goes on after failures.
Settled(st, rs, n) ==
    rs[n].over \/ (st # <<>> /\ st[Len(st)].no = n /\ st[Len(st)].at = "post")

FrameSound(f, d, rs, ex) ==
    /\ f.no \in DOMAIN rs
    /\ rs[f.no].command = f.command /\ ~rs[f.no].over /\ rs[f.no].depth = d
    /\ f.at = "handler" => f.pos = 1
    /\ \A i \in DOMAIN ex : i < f.pos => ex[i].command # f.command
    /\ d = 1 => f.abort = abort

StackSound ==
    /\ Len(stack) <= 2
    /\ \A d \in DOMAIN stack : FrameSound(stack[d], d, runs, expect)
    /\ Len(stack) = 2 => /\ stack[1].command = "tcpsession" /\ stack[1].at = "handler"
                         /\ stack[2].command \in {"gen_ip", "expect"}

Pending(e, as, rs, st) ==
    /\ e.id \in DOMAIN as
    /\ as[e.id].command = e.command /\ as[e.id].pattern = e.pattern
    /\ as[e.id].invert = e.invert
    /\ \A j \in Calls(rs, as[e.id]) : \E d \in DOMAIN st : st[d].no = j

Waiting(e, as, rs, st) ==
    /\ \A d \in DOMAIN st : st[d].command = e.command => st[d].no > as[e.id].since
    /\ e.matched # 0 <=> \E j \in Calls(rs, as[e.id]) : SeenBy(rs, as[e.id], j)

Verdict(a, rs, st) ==
    \E n \in DOMAIN rs : /\ First(rs, a, n)
                         /\ SeenBy(rs, a, n) <=> ~a.invert
                         /\ Settled(st, rs, n)

Verdicts ==
    abort => \A k \in DOMAIN asked :
        (\E i \in DOMAIN expect : expect[i].id = k) \/ Verdict(asked[k], runs, stack)

\* A command of the script that failed, and was not the end of it, was to fail.
FailureAsked(as, rs, i) ==
    rs[i].failed /\ rs[i].depth = 1 =>
        /\ "failed" \in rs[i].lines
        /\ \E k \in DOMAIN as : First(rs, as[k], i) /\ <<as[k].pattern, "failed">> \in Matches

Failures ==
    abort /\ exit # "scriptfail" => \A i \in DOMAIN runs : FailureAsked(asked, runs, i)

IInv ==
    /\ TypeOK
    /\ StackSound
    /\ \A i \in DOMAIN expect : Pending(expect[i], asked, runs, stack)
    /\ \A k \in DOMAIN asked : asked[k].since <= Len(runs)
    /\ exit = "ok" => expect = <<>>
    /\ NoSelf => \A i \in DOMAIN expect : Waiting(expect[i], asked, runs, stack)
    /\ NoSelf => Verdicts /\ Failures

-----------------------------------------------------------------------------
(* Runs and frames. *)

\* The two frames have the same commands, with the same numbers.
SameFrames(st, su) ==
    /\ DOMAIN su = DOMAIN st
    /\ \A d \in DOMAIN st : su[d].no = st[d].no /\ su[d].command = st[d].command

\* The runs rt are the runs rs, but for the lines logged and how they ended.
SameRuns(rs, rt) ==
    /\ DOMAIN rt = DOMAIN rs
    /\ \A i \in DOMAIN rs : rt[i].command = rs[i].command /\ rt[i].depth = rs[i].depth

\* An expectation stays pending when commands neither start nor end.
LEMMA PendingStays ==
    ASSUME NEW e, NEW as, NEW rs, NEW rt, NEW st, NEW su,
           Pending(e, as, rs, st), SameRuns(rs, rt), SameFrames(st, su)
    PROVE  Pending(e, as, rt, su)
<1>1. Calls(rt, as[e.id]) = Calls(rs, as[e.id])
  BY DEF Calls, SameRuns
<1> QED
  BY <1>1 DEF Pending, SameFrames

\* An expectation stays as it is when the runs it is about log nothing.
LEMMA WaitingStays ==
    ASSUME NEW e, NEW as, NEW rs, NEW rt, NEW st, NEW su,
           Waiting(e, as, rs, st), SameRuns(rs, rt), SameFrames(st, su),
           \A i \in Calls(rs, as[e.id]) : rt[i].lines = rs[i].lines
    PROVE  Waiting(e, as, rt, su)
<1>1. Calls(rt, as[e.id]) = Calls(rs, as[e.id])
  BY DEF Calls, SameRuns
<1>2. \A i \in Calls(rs, as[e.id]) : SeenBy(rt, as[e.id], i) <=> SeenBy(rs, as[e.id], i)
  BY DEF SeenBy
<1> QED
  BY <1>1, <1>2 DEF Waiting, SameFrames

\* A verdict stands when the runs that are settled stay so and log nothing.
LEMMA VerdictStays ==
    ASSUME NEW a, NEW rs, NEW rt, NEW st, NEW su,
           Verdict(a, rs, st), SameRuns(rs, rt),
           \A n \in DOMAIN rs : Settled(st, rs, n) =>
              Settled(su, rt, n) /\ rt[n].lines = rs[n].lines
    PROVE  Verdict(a, rt, su)
<1>1. Calls(rt, a) = Calls(rs, a)
  BY DEF Calls, SameRuns
<1>2. PICK n \in DOMAIN rs : /\ First(rs, a, n)
                             /\ SeenBy(rs, a, n) <=> ~a.invert
                             /\ Settled(st, rs, n)
  BY DEF Verdict
<1>3. n \in DOMAIN rt /\ First(rt, a, n)
  BY <1>1, <1>2 DEF First, SameRuns
<1>4. Settled(su, rt, n) /\ rt[n].lines = rs[n].lines
  BY <1>2
<1>5. SeenBy(rt, a, n) <=> ~a.invert
  BY <1>2, <1>4 DEF SeenBy
<1> QED
  BY <1>3, <1>4, <1>5 DEF Verdict

\* That a failure was asked for stays true when more is logged.
LEMMA FailureAskedStays ==
    ASSUME NEW as, NEW rs, NEW rt, NEW i \in DOMAIN rs,
           FailureAsked(as, rs, i), SameRuns(rs, rt),
           rt[i].failed = rs[i].failed, rs[i].lines \subseteq rt[i].lines
    PROVE  FailureAsked(as, rt, i)
<1>1. \A a : Calls(rt, a) = Calls(rs, a)
  BY DEF Calls, SameRuns
<1>2. rt[i].depth = rs[i].depth
  BY DEF SameRuns
<1> QED
  <2> SUFFICES ASSUME rt[i].failed, rt[i].depth = 1
               PROVE  /\ "failed" \in rt[i].lines
                      /\ \E k \in DOMAIN as :
                           First(rt, as[k], i) /\ <<as[k].pattern, "failed">> \in Matches
    BY DEF FailureAsked
  <2>1. "failed" \in rs[i].lines
    BY <1>2, Zenon DEF FailureAsked
  <2>2. PICK k \in DOMAIN as : First(rs, as[k], i) /\ <<as[k].pattern, "failed">> \in Matches
    BY <1>2, Zenon DEF FailureAsked
  <2>3. First(rt, as[k], i)
    BY <1>1, <2>2 DEF First
  <2> QED
    BY <2>1, <2>2, <2>3

\* What the lists hold.
LEMMA Fields ==
    ASSUME TypeOK
    PROVE  /\ \A k \in DOMAIN asked : asked[k] \in Asked /\ asked[k].since \in Nat
           /\ \A i \in DOMAIN expect : expect[i] \in Expect
           /\ \A n \in DOMAIN runs : runs[n] \in Run
           /\ \A d \in DOMAIN stack : stack[d] \in Frame
<1>1. asked \in Seq(Asked) /\ expect \in Seq(Expect) /\ runs \in Seq(Run) /\ stack \in Seq(Frame)
  BY DEF TypeOK, Asked, Run
<1>2. \A k \in DOMAIN asked : asked[k] \in Asked
  BY <1>1
<1>3. \A a \in Asked : a.since \in Nat
  BY DEF Asked
<1> QED
  BY <1>1, <1>2, <1>3

\* The innermost command.
LEMMA TopFacts ==
    ASSUME TypeOK, stack # <<>>
    PROVE  /\ Depth \in DOMAIN stack /\ Depth \in Nat /\ Depth >= 1
           /\ DOMAIN stack = 1 .. Depth
           /\ Top = stack[Depth] /\ Top \in Frame
<1>1. stack \in Seq(Frame)
  BY DEF TypeOK
<1>2. Len(stack) \in Nat /\ DOMAIN stack = 1 .. Len(stack) /\ Len(stack) # 0
  BY <1>1
<1>3. Depth \in DOMAIN stack
  BY <1>2 DEF Depth
<1> QED
  BY <1>1, <1>2, <1>3 DEF Depth, Top

\* No two frames are of the same command.
LEMMA CommandsDiffer ==
    ASSUME TypeOK, StackSound, NEW d \in DOMAIN stack, NEW b \in DOMAIN stack,
           stack[d].command = stack[b].command
    PROVE  d = b
<1>1. stack \in Seq(Frame) /\ Len(stack) \in Nat /\ DOMAIN stack = 1 .. Len(stack)
  BY DEF TypeOK
<1>2. CASE Len(stack) <= 1
  BY <1>1, <1>2
<1>3. CASE Len(stack) = 2
  <2>1. stack[1].command # stack[2].command
    BY <1>3 DEF StackSound
  <2>2. d \in {1, 2} /\ b \in {1, 2}
    BY <1>1, <1>3
  <2> QED
    BY <2>1, <2>2
<1> QED
  BY <1>1, <1>2, <1>3 DEF StackSound

\* The one run that an expectation on a command being run is about.
LEMMA OnlyCall ==
    ASSUME IInv, NoSelf, NEW d \in DOMAIN stack, NEW i \in DOMAIN expect,
           expect[i].command = stack[d].command
    PROVE  Calls(runs, asked[expect[i].id]) = {stack[d].no}
<1> DEFINE e == expect[i]
           a == asked[e.id]
<1>1. Pending(e, asked, runs, stack) /\ Waiting(e, asked, runs, stack)
  BY DEF IInv
<1>2. \A b \in DOMAIN stack : FrameSound(stack[b], b, runs, expect)
  BY DEF IInv, StackSound
<1>3. stack[d].no \in Calls(runs, a)
  BY <1>1, <1>2 DEF Calls, Waiting, Pending, FrameSound
<1>4. ASSUME NEW j \in Calls(runs, a)
      PROVE  j = stack[d].no
  <2>1. PICK b \in DOMAIN stack : stack[b].no = j
    BY <1>1 DEF Pending
  <2>2. runs[j].command = a.command
    BY DEF Calls
  <2>3. stack[b].command = stack[d].command
    BY <1>1, <1>2, <2>1, <2>2 DEF Pending, FrameSound
  <2>4. b = d
    BY <2>3, CommandsDiffer DEF IInv
  <2> QED
    BY <2>1, <2>4
<1> QED
  BY <1>3, <1>4

\* Replacing the innermost frame.
LEMMA TopReplaced ==
    ASSUME TypeOK, stack # <<>>, NEW f \in Frame,
           stack' = [stack EXCEPT ![Depth] = f]
    PROVE  /\ stack' \in Seq(Frame) /\ DOMAIN stack' = DOMAIN stack
           /\ Len(stack') = Len(stack) /\ stack' # <<>>
           /\ stack'[Depth] = f
           /\ \A d \in DOMAIN stack : d # Depth => stack'[d] = stack[d]
<1>1. stack \in Seq(Frame)
  BY DEF TypeOK
<1>2. Depth \in DOMAIN stack /\ Depth >= 1 /\ Depth \in Nat
  BY TopFacts
<1>3. Len(stack) = Depth /\ Len(stack) \in Nat
  BY <1>2 DEF Depth
<1> HIDE DEF Depth
<1>4. /\ stack' \in Seq(Frame) /\ DOMAIN stack' = DOMAIN stack /\ Len(stack') = Len(stack)
      /\ stack'[Depth] = f
      /\ \A d \in DOMAIN stack : d # Depth => stack'[d] = stack[d]
  BY <1>1, <1>2
<1> QED
  BY <1>2, <1>3, <1>4

-----------------------------------------------------------------------------
(* The steps. *)

\* The script ends, or goes wrong: nothing else changes.
LEMMA ExitKeeps ==
    ASSUME IInv, exit = "no", exit' \in {"no", "ok", "barf", "scriptfail"},
           exit' = "ok" => expect = <<>>,
           UNCHANGED <<abort, expect, stack, runs, asked, nlines>>
    PROVE  IInv'
<1>1. TypeOK' /\ StackSound'
  BY DEF IInv, TypeOK, StackSound, FrameSound
<1>2. Verdicts => Verdicts'
  BY DEF Verdicts
<1>3. Failures => Failures'
  BY DEF Failures
<1> QED
  BY <1>1, <1>2, <1>3 DEF IInv

\* A command begins: of the script, or one that tcpsession runs.
LEMMA CallKeeps ==
    ASSUME IInv, NEW c \in AnyCommand, NEW ab \in BOOLEAN, exit = "no",
           \/ stack = <<>> /\ ab = abort
           \/ /\ Depth = 1 /\ Top.command = "tcpsession" /\ Top.at = "handler"
              /\ c \in {"gen_ip", "expect"},
           Call(c, ab), UNCHANGED <<abort, expect, exit, asked, nlines>>
    PROVE  IInv'
<1> DEFINE r == [command |-> c, lines |-> {}, over |-> FALSE, failed |-> FALSE,
                 depth |-> Depth + 1]
           f == [command |-> c, abort |-> ab, at |-> "handler", pos |-> 1,
                 ok |-> TRUE, next |-> "any", no |-> Len(runs) + 1]
           n == Len(runs) + 1
<1>1. runs' = Append(runs, r) /\ stack' = Append(stack, f)
  BY DEF Call
<1>2. /\ runs \in Seq(Run) /\ Len(runs) \in Nat /\ DOMAIN runs = 1 .. Len(runs)
      /\ stack \in Seq(Frame) /\ Depth \in Nat /\ DOMAIN stack = 1 .. Depth
      /\ Len(stack) = Depth
  BY DEF IInv, TypeOK, Run, Depth
<1>3. r \in Run
  BY <1>2 DEF Run
<1>4. f \in Frame
  BY <1>2 DEF Frame
<1>5. /\ r.command = c /\ r.over = FALSE /\ r.failed = FALSE /\ r.depth = Depth + 1
      /\ f.command = c /\ f.abort = ab /\ f.at = "handler" /\ f.pos = 1 /\ f.no = n
  OBVIOUS
<1> HIDE DEF r, f
<1>6. /\ runs' \in Seq(Run) /\ Len(runs') = n /\ DOMAIN runs' = 1 .. n
      /\ runs'[n] = r /\ \A i \in DOMAIN runs : runs'[i] = runs[i]
  BY <1>1, <1>2, <1>3, AppendProperties
<1>7. /\ stack' \in Seq(Frame) /\ Len(stack') = Depth + 1 /\ DOMAIN stack' = 1 .. Depth + 1
      /\ stack'[Depth + 1] = f /\ \A d \in DOMAIN stack : stack'[d] = stack[d]
  BY <1>1, <1>2, <1>4, AppendProperties
<1>8. Depth = 0 \/ (/\ Depth = 1 /\ Top.command = "tcpsession" /\ Top.at = "handler"
                    /\ c \in {"gen_ip", "expect"} /\ stack # <<>>)
  <2>1. stack = <<>> => Depth = 0
    BY <1>2 DEF Depth
  <2> QED
    BY <2>1
<1>9. /\ n \in Nat /\ n \notin DOMAIN runs /\ \A i \in DOMAIN runs' : i \in DOMAIN runs \/ i = n
      /\ \A i \in DOMAIN runs : i \in DOMAIN runs' /\ i \in Nat /\ i < n
  BY <1>2, <1>6
<1>10. \A d \in DOMAIN stack' : d \in DOMAIN stack \/ d = Depth + 1
  BY <1>2, <1>7
<1>11. ASSUME NEW a, a.since <= Len(runs)
       PROVE  /\ \A i \in Calls(runs', a) : i \in Calls(runs, a) \/ i = n
              /\ \A i \in Calls(runs, a) : i \in Calls(runs', a)
  BY <1>6, <1>9 DEF Calls
<1>12. TypeOK'
  BY <1>6, <1>7 DEF IInv, TypeOK, Run
<1>13. StackSound'
  <2>1. Len(stack') <= 2
    BY <1>7, <1>8
  <2>2. ASSUME NEW d \in DOMAIN stack'
        PROVE  FrameSound(stack[d], d, runs, expect)'
    <3>1. CASE d \in DOMAIN stack
      <4>1. FrameSound(stack[d], d, runs, expect) /\ stack'[d] = stack[d]
        BY <1>7, <3>1 DEF IInv, StackSound
      <4> QED
        BY <1>6, <1>9, <4>1 DEF FrameSound
    <3>2. CASE d = Depth + 1
      <4>1. stack'[d] = f /\ n \in DOMAIN runs' /\ runs'[n] = r
        BY <1>6, <1>7, <3>2, <1>2
      <4>2. \A i \in DOMAIN expect : ~(i < 1)
        BY DEF IInv, TypeOK
      <4>3. d = 1 => ab = abort
        BY <1>2, <1>8, <3>2
      <4> QED
        BY <1>5, <3>2, <4>1, <4>2, <4>3 DEF FrameSound
    <3> QED
      BY <1>10, <3>1, <3>2
  <2>3. Len(stack') = 2 => /\ stack'[1].command = "tcpsession" /\ stack'[1].at = "handler"
                           /\ stack'[2].command \in {"gen_ip", "expect"}
    <3> SUFFICES ASSUME Len(stack') = 2
                 PROVE  /\ stack'[1].command = "tcpsession" /\ stack'[1].at = "handler"
                        /\ stack'[2].command \in {"gen_ip", "expect"}
      OBVIOUS
    <3>1. Depth = 1 /\ c \in {"gen_ip", "expect"}
          /\ Top.command = "tcpsession" /\ Top.at = "handler"
      <4>1. Depth # 0
        BY <1>2, <1>7
      <4> QED
        BY <1>8, <4>1
    <3>2. stack'[1] = stack[1] /\ Top = stack[1]
      BY <1>2, <1>7, <3>1 DEF Top
    <3>3. stack'[2] = f
      BY <1>7, <3>1
    <3> QED
      BY <1>5, <3>1, <3>2, <3>3
  <2> QED
    BY <2>1, <2>2, <2>3 DEF StackSound
<1>14. \A k \in DOMAIN asked : asked[k].since <= Len(runs) /\ asked[k].since \in Nat
  BY Fields DEF IInv
<1>15. ASSUME NEW i \in DOMAIN expect
       PROVE  Pending(expect[i], asked, runs', stack')
  <2>1. Pending(expect[i], asked, runs, stack)
    BY DEF IInv
  <2>2. expect[i].id \in DOMAIN asked
    BY <2>1 DEF Pending
  <2>3. ASSUME NEW j \in Calls(runs', asked[expect[i].id])
        PROVE  \E d \in DOMAIN stack' : stack'[d].no = j
    <3>1. CASE j = n
      <4>1. Depth + 1 \in DOMAIN stack' /\ stack'[Depth + 1].no = j
        BY <1>2, <1>5, <1>7, <3>1
      <4> QED
        BY <4>1
    <3>2. CASE j \in Calls(runs, asked[expect[i].id])
      <4>1. PICK d \in DOMAIN stack : stack[d].no = j
        BY <2>1, <3>2 DEF Pending
      <4>2. d \in DOMAIN stack' /\ stack'[d] = stack[d]
        BY <1>2, <1>7
      <4> QED
        BY <4>1, <4>2
    <3> QED
      BY <1>11, <1>14, <2>2, <3>1, <3>2
  <2> QED
    BY <2>1, <2>3 DEF Pending
<1>16. ASSUME NEW i \in DOMAIN expect, Waiting(expect[i], asked, runs, stack)
       PROVE  Waiting(expect[i], asked, runs', stack')
  <2> DEFINE a == asked[expect[i].id]
  <2>1. expect[i].id \in DOMAIN asked
    BY DEF IInv, Pending
  <2>2. a.since < n
    BY <1>2, <1>14, <2>1
  <2>3. \A d \in DOMAIN stack' :
           stack'[d].command = expect[i].command => stack'[d].no > a.since
    <3> SUFFICES ASSUME NEW d \in DOMAIN stack', stack'[d].command = expect[i].command
                 PROVE  stack'[d].no > a.since
      OBVIOUS
    <3>1. CASE d \in DOMAIN stack
      BY <1>7, <1>16, <3>1 DEF Waiting
    <3>2. CASE d = Depth + 1
      BY <1>2, <1>5, <1>7, <1>14, <2>1, <3>2
    <3> QED
      BY <1>10, <3>1, <3>2
  <2>4. \A j \in Calls(runs, a) : SeenBy(runs', a, j) <=> SeenBy(runs, a, j)
    BY <1>6 DEF Calls, SeenBy
  <2>5. ~SeenBy(runs', a, n)
    BY <1>6 DEF SeenBy, r
  <2>6. (\E j \in Calls(runs', a) : SeenBy(runs', a, j))
          <=> (\E j \in Calls(runs, a) : SeenBy(runs, a, j))
    <3>1. /\ \A j \in Calls(runs', a) : j \in Calls(runs, a) \/ j = n
          /\ \A j \in Calls(runs, a) : j \in Calls(runs', a)
      BY <1>11, <1>14, <2>1
    <3> HIDE DEF a
    <3> QED
      BY <2>4, <2>5, <3>1
  <2> QED
    BY <1>16, <2>3, <2>6 DEF Waiting
<1>17. ASSUME NEW k \in DOMAIN asked, NEW m, First(runs, asked[k], m)
       PROVE  First(runs', asked[k], m)
  <2>1. /\ \A i \in Calls(runs', asked[k]) : i \in Calls(runs, asked[k]) \/ i = n
        /\ \A i \in Calls(runs, asked[k]) : i \in Calls(runs', asked[k])
    BY <1>11, <1>14
  <2>2. m < n
    BY <1>9, <1>17 DEF First, Calls
  <2>3. m <= n
    BY <1>9, <1>17, <2>2 DEF First, Calls
  <2> QED
    BY <1>17, <2>1, <2>3 DEF First
<1>18. Verdicts => Verdicts'
  <2> SUFFICES ASSUME abort, NEW k \in DOMAIN asked, Verdict(asked[k], runs, stack)
               PROVE  Verdict(asked[k], runs', stack')
    BY DEF Verdicts
  <2>1. PICK m \in DOMAIN runs : /\ First(runs, asked[k], m)
                                 /\ SeenBy(runs, asked[k], m) <=> ~asked[k].invert
                                 /\ Settled(stack, runs, m)
    BY DEF Verdict
  <2>2. runs[m].over
    <3>1. stack # <<>> => stack[Len(stack)].at # "post"
      <4> SUFFICES ASSUME stack # <<>> PROVE stack[Len(stack)].at # "post"
        OBVIOUS
      <4>1. Top.at = "handler"
        BY <1>8
      <4> QED
        BY <4>1 DEF Top, Depth
    <3> QED
      BY <2>1, <3>1 DEF Settled
  <2>3. Settled(stack', runs', m)
    BY <1>6, <2>2 DEF Settled
  <2>4. SeenBy(runs', asked[k], m) <=> SeenBy(runs, asked[k], m)
    BY <1>6 DEF SeenBy
  <2> QED
    BY <1>9, <1>17, <2>1, <2>3, <2>4 DEF Verdict
<1>19. Failures => Failures'
  <2> SUFFICES ASSUME \A i \in DOMAIN runs : FailureAsked(asked, runs, i),
                      NEW i \in DOMAIN runs', runs'[i].failed, runs'[i].depth = 1
               PROVE  /\ "failed" \in runs'[i].lines
                      /\ \E k \in DOMAIN asked :
                           First(runs', asked[k], i) /\ <<asked[k].pattern, "failed">> \in Matches
    BY DEF Failures, FailureAsked
  <2>1. i \in DOMAIN runs /\ runs'[i] = runs[i]
    BY <1>5, <1>6, <1>9
  <2>2. FailureAsked(asked, runs, i)
    BY <2>1
  <2>3. "failed" \in runs[i].lines
    BY <2>1, <2>2, Zenon DEF FailureAsked
  <2>4. PICK k \in DOMAIN asked :
          First(runs, asked[k], i) /\ <<asked[k].pattern, "failed">> \in Matches
    BY <2>1, <2>2, Zenon DEF FailureAsked
  <2> QED
    BY <1>17, <2>1, <2>3, <2>4
<1>20. \A k \in DOMAIN asked : asked[k].since <= Len(runs')
  BY <1>2, <1>6, <1>14
<1> QED
  BY <1>12, <1>13, <1>15, <1>16, <1>18, <1>19, <1>20 DEF IInv

\* The innermost frame changes, but neither command nor number: what is logged and
\* expected stays.
LEMMA FrameKeeps ==
    ASSUME IInv, exit = "no", stack # <<>>, NEW f \in Frame,
           f.command = Top.command, f.no = Top.no, f.abort = Top.abort,
           f.at = "post" \/ (f.at = "handler" /\ f.pos = 1 /\ Top.at = "handler"),
           \A i \in DOMAIN expect : i < f.pos => expect[i].command # f.command,
           stack' = [stack EXCEPT ![Depth] = f],
           UNCHANGED <<abort, expect, exit, runs, asked, nlines>>
    PROVE  IInv'
<1>1. /\ Depth \in DOMAIN stack /\ Depth \in Nat /\ Depth >= 1 /\ DOMAIN stack = 1 .. Depth
      /\ Top = stack[Depth] /\ Len(stack) = Depth
  BY TopFacts DEF IInv, Depth
<1>2. /\ stack' \in Seq(Frame) /\ DOMAIN stack' = DOMAIN stack
      /\ Len(stack') = Len(stack) /\ stack' # <<>>
      /\ stack'[Depth] = f
      /\ \A d \in DOMAIN stack : d # Depth => stack'[d] = stack[d]
  BY TopReplaced DEF IInv
<1> HIDE DEF Depth, Top
<1>3. SameFrames(stack, stack')
  BY <1>1, <1>2 DEF SameFrames
<1>4. SameRuns(runs, runs')
  BY DEF SameRuns
<1>5. TypeOK'
  BY <1>2 DEF IInv, TypeOK
<1>6. StackSound'
  <2>1. ASSUME NEW d \in DOMAIN stack'
        PROVE  FrameSound(stack[d], d, runs, expect)'
    <3>1. FrameSound(stack[d], d, runs, expect)
      BY <1>2 DEF IInv, StackSound
    <3>2. CASE d = Depth
      BY <1>1, <1>2, <3>1, <3>2 DEF FrameSound
    <3>3. CASE d # Depth
      BY <1>2, <3>1, <3>3 DEF FrameSound
    <3> QED
      BY <3>2, <3>3
  <2>2. Len(stack) <= 2
        /\ (Len(stack) = 2 => /\ stack[1].command = "tcpsession" /\ stack[1].at = "handler"
                              /\ stack[2].command \in {"gen_ip", "expect"})
    BY DEF IInv, StackSound
  <2>3. Len(stack) = 2 => stack'[1] = stack[1] /\ stack'[2].command = stack[2].command
    BY <1>1, <1>2
  <2> QED
    BY <1>2, <2>1, <2>2, <2>3 DEF StackSound
<1>7. \A i \in DOMAIN expect : Pending(expect[i], asked, runs', stack')
  BY <1>3, <1>4, PendingStays DEF IInv
<1>8. \A i \in DOMAIN expect : Waiting(expect[i], asked, runs, stack) =>
                                 Waiting(expect[i], asked, runs', stack')
  BY <1>3, <1>4, WaitingStays
<1>9. Verdicts => Verdicts'
  <2>1. \A n \in DOMAIN runs : Settled(stack, runs, n) =>
            Settled(stack', runs', n) /\ runs'[n].lines = runs[n].lines
    BY <1>1, <1>2 DEF Settled
  <2> QED
    BY <1>4, <2>1, VerdictStays DEF Verdicts
<1>10. Failures => Failures'
  BY DEF Failures
<1> QED
  BY <1>5, <1>6, <1>7, <1>8, <1>9, <1>10 DEF IInv

\* The handler returns.
LEMMA HandlerSucceedsKeeps ==
    ASSUME IInv, HandlerSucceeds
    PROVE  IInv'
<1>1. /\ exit = "no" /\ stack # <<>> /\ Top.at = "handler"
      /\ stack' = [stack EXCEPT ![Depth].at = "post"]
      /\ UNCHANGED <<abort, expect, exit, runs, asked, nlines>>
  BY DEF HandlerSucceeds, InHandler
<1> DEFINE f == [Top EXCEPT !.at = "post"]
<1>2. Top \in Frame /\ Top = stack[Depth] /\ Depth \in DOMAIN stack
  BY <1>1, TopFacts DEF IInv
<1>3. stack' = [stack EXCEPT ![Depth] = f]
  BY <1>1, <1>2
<1>4. FrameSound(Top, Depth, runs, expect)
  BY <1>2 DEF IInv, StackSound
<1> HIDE DEF Top
<1>5. /\ f \in Frame /\ f.command = Top.command /\ f.no = Top.no /\ f.abort = Top.abort
      /\ f.at = "post" /\ f.pos = Top.pos
  BY <1>2 DEF Frame
<1> HIDE DEF f
<1>6. \A i \in DOMAIN expect : i < f.pos => expect[i].command # f.command
  BY <1>4, <1>5 DEF FrameSound
<1> QED
  BY <1>1, <1>3, <1>5, <1>6, FrameKeeps

\* The post-command hook goes past an expectation on another command.
LEMMA PostSkipsKeeps ==
    ASSUME IInv, PostSkips
    PROVE  IInv'
<1>1. /\ exit = "no" /\ stack # <<>> /\ Top.at = "post"
      /\ At.command # Top.command
      /\ stack' = [stack EXCEPT ![Depth].pos = @ + 1]
      /\ UNCHANGED <<abort, expect, exit, runs, asked, nlines>>
  BY DEF PostSkips, InPost
<1> DEFINE f == [Top EXCEPT !.pos = @ + 1]
<1>2. Top \in Frame /\ Top = stack[Depth] /\ Depth \in DOMAIN stack
  BY <1>1, TopFacts DEF IInv
<1>3. stack' = [stack EXCEPT ![Depth] = f]
  BY <1>1, <1>2
<1>4. FrameSound(Top, Depth, runs, expect)
  BY <1>2 DEF IInv, StackSound
<1>5. expect[Top.pos].command # Top.command
  BY <1>1 DEF At
<1> HIDE DEF Top
<1>6. /\ f \in Frame /\ f.command = Top.command /\ f.no = Top.no /\ f.abort = Top.abort
      /\ f.at = "post" /\ f.pos = Top.pos + 1 /\ Top.pos \in Nat
  BY <1>1, <1>2 DEF Frame
<1> HIDE DEF f
<1>7. \A i \in DOMAIN expect : i < f.pos => expect[i].command # f.command
  <2> SUFFICES ASSUME NEW i \in DOMAIN expect, i < f.pos
               PROVE  expect[i].command # f.command
    OBVIOUS
  <2>1. i \in Nat
    BY DEF IInv, TypeOK
  <2>2. i < Top.pos \/ i = Top.pos
    BY <1>6, <2>1
  <2> QED
    BY <1>4, <1>5, <1>6, <2>2 DEF FrameSound
<1> QED
  BY <1>1, <1>3, <1>6, <1>7, FrameKeeps

\* The list ex is the list of expectations, marked for what the runs rt have logged.
Marked(ex, rt) ==
    /\ ex \in Seq(Expect) /\ DOMAIN ex = DOMAIN expect /\ Len(ex) = Len(expect)
    /\ \A i \in DOMAIN expect : ex[i].id = expect[i].id /\ ex[i].command = expect[i].command
    /\ \A i \in DOMAIN expect : Pending(ex[i], asked, rt, stack)
    /\ NoSelf => \A i \in DOMAIN expect : Waiting(ex[i], asked, rt, stack)

\* The runs rt are the runs so far with one more line, logged by the innermost.
Logged(rt, l) ==
    /\ rt \in Seq(Run) /\ SameRuns(runs, rt) /\ Len(rt) = Len(runs)
    /\ rt[Top.no].lines = runs[Top.no].lines \cup {l} /\ ~rt[Top.no].over
    /\ \A n \in DOMAIN runs : n # Top.no => rt[n] = runs[n]

\* expect_log_hook marks the expectations that the line fulfils, and no others.
LEMMA LogMarks ==
    ASSUME IInv, stack # <<>>, NEW l \in AnyLine, NEW rt, Logged(rt, l)
    PROVE  Marked(ExpectLogHook(l), rt)
<1> DEFINE ex == ExpectLogHook(l)
<1>1. /\ expect \in Seq(Expect) /\ nlines \in Nat
      /\ Depth \in DOMAIN stack /\ Top = stack[Depth]
  BY TopFacts DEF IInv, TypeOK
<1>2. \A d \in DOMAIN stack : FrameSound(stack[d], d, runs, expect)
  BY DEF IInv, StackSound
<1>3. ASSUME NEW i \in DOMAIN expect
      PROVE  /\ ex[i] \in Expect
             /\ ex[i].id = expect[i].id /\ ex[i].command = expect[i].command
             /\ ex[i].pattern = expect[i].pattern /\ ex[i].invert = expect[i].invert
             /\ ex[i].matched # 0 <=>
                  \/ expect[i].matched # 0
                  \/ expect[i].command = Top.command /\ <<expect[i].pattern, l>> \in Matches
  <2>1. expect[i] \in Expect
    BY Fields DEF IInv
  <2>2. ex[i] = IF Hit(expect[i], l) THEN [expect[i] EXCEPT !.matched = nlines + 1]
                ELSE expect[i]
    BY DEF ExpectLogHook
  <2>3. nlines + 1 \in Nat /\ nlines + 1 # 0
    BY <1>1
  <2>4. Hit(expect[i], l) <=> /\ expect[i].matched = 0 /\ expect[i].command = Top.command
                              /\ <<expect[i].pattern, l>> \in Matches
    BY DEF Hit
  <2> HIDE DEF ex
  <2>5. CASE Hit(expect[i], l)
    BY <2>1, <2>2, <2>3, <2>4, <2>5 DEF Expect
  <2>6. CASE ~Hit(expect[i], l)
    BY <2>1, <2>2, <2>4, <2>6
  <2> QED
    BY <2>5, <2>6
<1>4. DOMAIN ex = DOMAIN expect /\ ex \in Seq(Expect) /\ Len(ex) = Len(expect)
  <2>1. ex = [i \in DOMAIN expect |-> ex[i]] /\ DOMAIN ex = DOMAIN expect
    BY DEF ExpectLogHook
  <2>2. \A i \in DOMAIN expect : ex[i] \in Expect
    BY <1>3
  <2> HIDE DEF ex
  <2> QED
    BY <1>1, <2>1, <2>2, MapProperties
<1> HIDE DEF ex
<1>5. SameRuns(runs, rt) /\ SameFrames(stack, stack)
  BY DEF Logged, SameFrames
<1>6. ASSUME NEW i \in DOMAIN expect
      PROVE  Pending(ex[i], asked, rt, stack)
  <2>1. Pending(expect[i], asked, rt, stack)
    BY <1>5, PendingStays DEF IInv
  <2> QED
    BY <1>3, <2>1 DEF Pending
<1>7. ASSUME NoSelf, NEW i \in DOMAIN expect
      PROVE  Waiting(ex[i], asked, rt, stack)
  <2> DEFINE a == asked[expect[i].id]
             C == Calls(runs, a)
  <2>1. Waiting(expect[i], asked, runs, stack) /\ Pending(expect[i], asked, runs, stack)
    BY <1>7 DEF IInv
  <2>2. Calls(rt, a) = C /\ a = asked[ex[i].id]
    BY <1>3, <1>5 DEF Calls, SameRuns
  <2>3. CASE expect[i].command = Top.command
    <3>1. C = {Top.no}
      BY <1>1, <1>7, <2>3, OnlyCall
    <3>2. a.pattern = expect[i].pattern
      BY <2>1 DEF Pending
    <3>3. SeenBy(rt, a, Top.no) <=>
            SeenBy(runs, a, Top.no) \/ <<expect[i].pattern, l>> \in Matches
      BY <3>2 DEF SeenBy, Logged
    <3> HIDE DEF a, C
    <3>4. ex[i].matched # 0 <=> SeenBy(rt, a, Top.no)
      <4>1. expect[i].matched # 0 <=> SeenBy(runs, a, Top.no)
        BY <2>1, <3>1 DEF Waiting, a, C
      <4> QED
        BY <1>3, <2>3, <3>3, <4>1
    <3>5. \A d \in DOMAIN stack : stack[d].command = ex[i].command => stack[d].no > a.since
      BY <1>3, <2>1 DEF Waiting, a
    <3> QED
      BY <2>2, <3>1, <3>4, <3>5 DEF Waiting
  <2>4. CASE expect[i].command # Top.command
    <3>1. runs[Top.no].command = Top.command
      BY <1>1, <1>2 DEF FrameSound
    <3>2. Top.no \notin C
      BY <2>1, <2>4, <3>1 DEF Pending, Calls
    <3>3. \A j \in C : rt[j].lines = runs[j].lines
      BY <3>2 DEF Logged, Calls
    <3>4. Waiting(expect[i], asked, rt, stack)
      BY <1>5, <2>1, <3>3, WaitingStays
    <3> QED
      BY <1>3, <2>4, <3>4 DEF Waiting
  <2> QED
    BY <2>3, <2>4
<1> QED
  BY <1>3, <1>4, <1>6, <1>7 DEF Marked, ex

\* The handler logs while no verdict on its run is settled: all verdicts stand.
LEMMA VerdictsStand ==
    ASSUME IInv, stack # <<>>, Top.at = "handler", NEW l, NEW rt, Logged(rt, l),
           NEW a, NEW su, Verdict(a, runs, stack)
    PROVE  Verdict(a, rt, su)
<1>1. /\ Top = stack[Len(stack)] /\ FrameSound(Top, Depth, runs, expect)
  BY TopFacts DEF IInv, StackSound, Depth, Top
<1>2. ~runs[Top.no].over /\ Top.no \in DOMAIN runs
  BY <1>1 DEF FrameSound
<1>3. ASSUME NEW n \in DOMAIN runs, Settled(stack, runs, n)
      PROVE  Settled(su, rt, n) /\ rt[n].lines = runs[n].lines
  <2>1. runs[n].over
    BY <1>1, <1>3 DEF Settled
  <2>2. n # Top.no
    BY <1>2, <2>1
  <2>3. rt[n] = runs[n]
    BY <2>2 DEF Logged
  <2> QED
    BY <2>1, <2>3 DEF Settled
<1>4. SameRuns(runs, rt)
  BY DEF Logged
<1> QED
  BY <1>3, <1>4, VerdictStays

\* Replacing one of the runs.
LEMMA RunReplaced ==
    ASSUME TypeOK, NEW n \in DOMAIN runs, NEW r \in Run, NEW rt,
           rt = [runs EXCEPT ![n] = r]
    PROVE  /\ rt \in Seq(Run) /\ DOMAIN rt = DOMAIN runs /\ Len(rt) = Len(runs)
           /\ rt[n] = r /\ \A i \in DOMAIN runs : i # n => rt[i] = runs[i]
<1>1. runs \in Seq(Run)
  BY DEF TypeOK, Run
<1> QED
  BY <1>1, ExceptProperties

\* One more line, in the run of the innermost command.
LEMMA LineLogged ==
    ASSUME IInv, stack # <<>>, NEW l \in AnyLine,
           runs' = [runs EXCEPT ![Top.no].lines = @ \cup {l}]
    PROVE  /\ Logged(runs', l)
           /\ \A n \in DOMAIN runs : runs'[n].failed = runs[n].failed
                                       /\ runs[n].lines \subseteq runs'[n].lines
<1> DEFINE n == Top.no
           r == [runs[n] EXCEPT !.lines = @ \cup {l}]
<1>1. runs \in Seq(Run) /\ n \in DOMAIN runs /\ ~runs[n].over
  BY TopFacts DEF IInv, StackSound, FrameSound, TypeOK, Run
<1>2. runs[n] \in Run
  BY <1>1
<1>3. runs' = [runs EXCEPT ![n] = r]
  BY <1>1
<1> HIDE DEF n
<1>4. /\ r \in Run /\ r.command = runs[n].command /\ r.depth = runs[n].depth
      /\ r.failed = runs[n].failed /\ r.over = runs[n].over
      /\ r.lines = runs[n].lines \cup {l}
  BY <1>2 DEF Run
<1> HIDE DEF r
<1>5. /\ runs' \in Seq(Run) /\ DOMAIN runs' = DOMAIN runs /\ Len(runs') = Len(runs)
      /\ runs'[n] = r /\ \A i \in DOMAIN runs : i # n => runs'[i] = runs[i]
  <2>1. r \in Run
    BY <1>4
  <2> QED
    BY <1>1, <1>3, <2>1, RunReplaced, Zenon DEF IInv
<1>6. SameRuns(runs, runs')
  BY <1>4, <1>5 DEF SameRuns
<1> QED
  BY <1>1, <1>4, <1>5, <1>6 DEF Logged, n

\* The handler logs, and perhaps returns.
LEMMA LogKeeps ==
    ASSUME IInv, exit = "no", stack # <<>>, Top.at = "handler", NEW l \in AnyLine,
           Logged(runs', l), expect' = ExpectLogHook(l), nlines' = nlines + 1,
           NEW f \in Frame, f.command = Top.command, f.no = Top.no, f.abort = Top.abort,
           f.pos = Top.pos, stack' = [stack EXCEPT ![Depth] = f],
           exit' \in {"no", "scriptfail"}, NoSelf => Failures',
           UNCHANGED <<abort, asked>>
    PROVE  IInv'
<1>1. /\ Depth \in DOMAIN stack /\ Depth \in Nat /\ Depth >= 1 /\ DOMAIN stack = 1 .. Depth
      /\ Top = stack[Depth] /\ Len(stack) = Depth
  BY TopFacts DEF IInv, Depth
<1>2. /\ stack' \in Seq(Frame) /\ DOMAIN stack' = DOMAIN stack
      /\ Len(stack') = Len(stack) /\ stack' # <<>>
      /\ stack'[Depth] = f
      /\ \A d \in DOMAIN stack : d # Depth => stack'[d] = stack[d]
  BY TopReplaced DEF IInv
<1>3. Marked(expect', runs')
  BY LogMarks
<1> HIDE DEF Depth, Top
<1>4. SameFrames(stack, stack')
  BY <1>1, <1>2 DEF SameFrames
<1>5. SameRuns(runs', runs')
  BY DEF SameRuns
<1>6. TypeOK'
  <2>1. expect' \in Seq(Expect) /\ runs' \in Seq(Run) /\ nlines' \in Nat
    BY <1>3 DEF IInv, TypeOK, Marked, Logged
  <2> QED
    BY <1>2, <2>1 DEF IInv, TypeOK, Run
<1>7. StackSound'
  <2>1. \A d \in DOMAIN stack : FrameSound(stack[d], d, runs', expect')
    <3> SUFFICES ASSUME NEW d \in DOMAIN stack
                 PROVE  FrameSound(stack[d], d, runs', expect')
      OBVIOUS
    <3>1. FrameSound(stack[d], d, runs, expect)
      BY DEF IInv, StackSound
    <3>2. /\ stack[d].no \in DOMAIN runs'
          /\ runs'[stack[d].no].command = runs[stack[d].no].command
          /\ runs'[stack[d].no].depth = runs[stack[d].no].depth
      BY <3>1 DEF FrameSound, Logged, SameRuns
    <3>3. ~runs'[stack[d].no].over
      BY <3>1 DEF FrameSound, Logged
    <3>4. \A i \in DOMAIN expect' : i < stack[d].pos => expect'[i].command # stack[d].command
      BY <1>3, <3>1 DEF FrameSound, Marked
    <3> QED
      BY <3>1, <3>2, <3>3, <3>4 DEF FrameSound
  <2>2. FrameSound(f, Depth, runs', expect')
    <3>1. Top.pos = 1
      BY <1>1, <2>1 DEF FrameSound
    <3> QED
      BY <1>1, <2>1, <3>1 DEF FrameSound
  <2>3. \A d \in DOMAIN stack' : FrameSound(stack'[d], d, runs', expect')
    BY <1>2, <2>1, <2>2
  <2>4. Len(stack) <= 2
        /\ (Len(stack) = 2 => /\ stack[1].command = "tcpsession" /\ stack[1].at = "handler"
                              /\ stack[2].command \in {"gen_ip", "expect"})
    BY DEF IInv, StackSound
  <2>5. Len(stack) = 2 => stack'[1] = stack[1] /\ stack'[2].command = stack[2].command
    BY <1>1, <1>2
  <2> QED
    BY <1>2, <2>3, <2>4, <2>5 DEF StackSound, FrameSound
<1>8. \A i \in DOMAIN expect' : Pending(expect'[i], asked, runs', stack')
  BY <1>3, <1>4, <1>5, PendingStays DEF Marked
<1>9. NoSelf => \A i \in DOMAIN expect' : Waiting(expect'[i], asked, runs', stack')
  BY <1>3, <1>4, <1>5, WaitingStays DEF Marked
<1>10. Verdicts => Verdicts'
  <2> SUFFICES ASSUME Verdicts, abort, NEW k \in DOMAIN asked,
                      ~\E i \in DOMAIN expect' : expect'[i].id = k
               PROVE  Verdict(asked[k], runs', stack')
    BY DEF Verdicts
  <2>1. Verdict(asked[k], runs, stack)
    BY <1>3 DEF Verdicts, Marked
  <2> QED
    BY <2>1, VerdictsStand
<1>11. \A k \in DOMAIN asked : asked[k].since <= Len(runs')
  BY DEF IInv, Logged
<1> QED
  BY <1>6, <1>7, <1>8, <1>9, <1>10, <1>11 DEF IInv

\* nfsim_log in a handler keeps the invariant.
LEMMA HandlerLogsKeeps ==
    ASSUME IInv, NEW l \in Line, HandlerLogs(l)
    PROVE  IInv'
<1>1. /\ exit = "no" /\ stack # <<>> /\ Top.at = "handler"
      /\ expect' = ExpectLogHook(l) /\ nlines' = nlines + 1
      /\ runs' = [runs EXCEPT ![Top.no].lines = @ \cup {l}]
      /\ UNCHANGED <<abort, stack, exit, asked>>
  BY DEF HandlerLogs, InHandler, Log
<1>2. l \in AnyLine
  BY DEF AnyLine
<1>3. /\ Logged(runs', l)
      /\ \A n \in DOMAIN runs : runs'[n].failed = runs[n].failed
                                  /\ runs[n].lines \subseteq runs'[n].lines
  BY <1>1, <1>2, LineLogged
<1>4. Failures => Failures'
  <2>1. SameRuns(runs, runs')
    BY <1>3 DEF Logged
  <2>2. DOMAIN runs' = DOMAIN runs
    BY <2>1 DEF SameRuns
  <2> QED
    BY <1>1, <1>3, <2>1, <2>2, FailureAskedStays DEF Failures
<1>5. /\ Depth \in DOMAIN stack /\ Top = stack[Depth] /\ Top \in Frame
      /\ stack \in Seq(Frame)
  BY <1>1, TopFacts DEF IInv, TypeOK
<1>6. stack' = [stack EXCEPT ![Depth] = Top]
  <2> HIDE DEF Depth, Top
  <2> QED
    BY <1>1, <1>5
<1> QED
  BY <1>1, <1>2, <1>3, <1>4, <1>5, <1>6, LogKeeps DEF IInv

\* A handler that fails keeps the invariant: when the script goes on and is of the kind
\* that ends on failures, an expectation has taken the failure.
LEMMA HandlerFailsKeeps ==
    ASSUME IInv, HandlerFails
    PROVE  IInv'
<1> DEFINE n == Top.no
           r == [runs[n] EXCEPT !.lines = @ \cup {"failed"}, !.failed = TRUE]
           f == [Top EXCEPT !.at = "post", !.ok = FALSE]
<1>1. /\ exit = "no" /\ stack # <<>> /\ Top.at = "handler"
      /\ expect' = ExpectLogHook("failed") /\ nlines' = nlines + 1
      /\ UNCHANGED <<abort, asked>>
  BY Zenon DEF HandlerFails, InHandler
<1>12. runs' = [runs EXCEPT ![n] = r]
  BY Zenon DEF HandlerFails
<1>2. /\ Depth \in DOMAIN stack /\ Top = stack[Depth] /\ Top \in Frame
      /\ stack \in Seq(Frame)
  BY <1>1, TopFacts DEF IInv, TypeOK
<1>3. FrameSound(Top, Depth, runs, expect)
  BY <1>2 DEF IInv, StackSound
<1>4. n \in DOMAIN runs /\ ~runs[n].over /\ runs[n].depth = Depth /\ runs[n].command = Top.command
  BY <1>3 DEF FrameSound
<1>5. runs[n] \in Run /\ "failed" \in AnyLine
  BY <1>4, Fields DEF IInv, AnyLine, Diagnostic
<1> HIDE DEF n
<1>6. /\ r \in Run /\ r.command = runs[n].command /\ r.depth = runs[n].depth
      /\ r.over = runs[n].over /\ r.lines = runs[n].lines \cup {"failed"}
  BY <1>5 DEF Run
<1> HIDE DEF r
<1>7. /\ runs' \in Seq(Run) /\ DOMAIN runs' = DOMAIN runs /\ Len(runs') = Len(runs)
      /\ runs'[n] = r /\ \A i \in DOMAIN runs : i # n => runs'[i] = runs[i]
  <2>1. r \in Run
    BY <1>6
  <2>2. n \in DOMAIN runs /\ TypeOK
    BY <1>4 DEF IInv
  <2> QED
    BY <1>12, <2>1, <2>2, RunReplaced, Zenon
<1>8. SameRuns(runs, runs')
  BY <1>6, <1>7 DEF SameRuns
<1>9. Logged(runs', "failed")
  BY <1>4, <1>6, <1>7, <1>8 DEF Logged, n
<1>10. CASE ScriptFail /\ UNCHANGED stack
  <2>1. exit' = "scriptfail" /\ stack' = stack
    BY <1>10 DEF ScriptFail
  <2>2. stack' = [stack EXCEPT ![Depth] = Top]
    <3> HIDE DEF Depth, Top
    <3> QED
      BY <1>2, <2>1
  <2>3. Failures'
    BY <2>1 DEF Failures
  <2> QED
    BY <1>1, <1>2, <1>5, <1>9, <2>1, <2>2, <2>3, LogKeeps
<1>11. CASE /\ ~AbortOnFailure
            /\ stack' = [stack EXCEPT ![Depth] = [@ EXCEPT !.at = "post", !.ok = FALSE]]
            /\ UNCHANGED exit
  <2>1. stack' = [stack EXCEPT ![Depth] = f]
    BY <1>2, <1>11
  <2>2. f \in Frame /\ f.command = Top.command /\ f.no = Top.no /\ f.abort = Top.abort
        /\ f.pos = Top.pos
    <3> HIDE DEF Top
    <3> QED
      BY <1>2 DEF Frame
  <2> HIDE DEF f
  <2>3. NoSelf => Failures'
    <3> SUFFICES ASSUME NoSelf, abort, NEW i \in DOMAIN runs'
                 PROVE  FailureAsked(asked, runs', i)
      BY <1>1 DEF Failures
    <3>1. FailureAsked(asked, runs, i)
      BY <1>1, <1>7 DEF IInv, Failures
    <3>2. CASE i # n
      <4>1. runs'[i] = runs[i]
        BY <1>7, <3>2
      <4> QED
        BY <1>7, <1>8, <3>1, <4>1, FailureAskedStays
    <3>3. CASE i = n
      <4> SUFFICES ASSUME runs'[n].depth = 1
                   PROVE  /\ "failed" \in runs'[n].lines
                          /\ \E k \in DOMAIN asked : /\ First(runs', asked[k], n)
                                                     /\ <<asked[k].pattern, "failed">> \in Matches
        BY <3>3 DEF FailureAsked
      <4>1. Depth = 1
        BY <1>4, <1>6, <1>7
      <4>2. Top.abort
        BY <1>3, <4>1 DEF FrameSound
      <4>3. PICK j \in DOMAIN expect : Hit(expect[j], "failed")
        BY <1>11, <4>2 DEF AbortOnFailure, Expected
      <4>4. expect[j].command = Top.command /\ <<expect[j].pattern, "failed">> \in Matches
        BY <4>3 DEF Hit
      <4> DEFINE k == expect[j].id
      <4>5. Calls(runs, asked[k]) = {n}
        BY <1>2, <4>4, OnlyCall DEF n
      <4>6. k \in DOMAIN asked /\ asked[k].pattern = expect[j].pattern
        BY DEF IInv, Pending
      <4>7. Calls(runs', asked[k]) = {n}
        BY <1>8, <4>5 DEF Calls, SameRuns
      <4>8. n <= n
        BY <1>4 DEF IInv, TypeOK
      <4>9. First(runs', asked[k], n)
        BY <4>7, <4>8 DEF First
      <4> HIDE DEF k
      <4> QED
        BY <1>6, <1>7, <4>4, <4>6, <4>9
    <3> QED
      BY <3>2, <3>3
  <2> QED
    BY <1>1, <1>5, <1>9, <1>11, <2>1, <2>2, <2>3, LogKeeps
<1> QED
  BY <1>10, <1>11 DEF HandlerFails

-----------------------------------------------------------------------------
(* The post-command hook. *)

\* The frame below the innermost is tcpsession's, in its handler.
LEMMA LowerFrame ==
    ASSUME TypeOK, StackSound, NEW d \in DOMAIN stack, d # Depth
    PROVE  /\ d = 1 /\ Depth = 2 /\ stack[d].at = "handler" /\ stack[d].pos = 1
           /\ stack[d].command = "tcpsession"
<1>1. Len(stack) \in Nat /\ DOMAIN stack = 1 .. Len(stack) /\ Len(stack) <= 2
  BY DEF TypeOK, StackSound
<1>2. d = 1 /\ Len(stack) = 2
  BY <1>1 DEF Depth
<1>3. FrameSound(stack[d], d, runs, expect)
  BY DEF StackSound
<1>4. stack[1].command = "tcpsession" /\ stack[1].at = "handler"
  BY <1>2 DEF StackSound
<1> QED
  BY <1>2, <1>3, <1>4 DEF Depth, FrameSound

\* The hook deletes the expectation it has come to.
LEMMA RemoveKeeps ==
    ASSUME IInv, exit = "no", stack # <<>>, Top.at = "post",
           NEW p \in DOMAIN expect, p = Top.pos, NEW ex, Marked(ex, runs'),
           runs' \in Seq(Run), SameRuns(runs, runs'), Len(runs') = Len(runs),
           \A n \in DOMAIN runs : ~runs[n].over => ~runs'[n].over,
           expect' = RemoveAt(ex, p),
           NEW f \in Frame, f.command = Top.command, f.no = Top.no, f.abort = Top.abort,
           f.pos = Top.pos, f.at = "post", stack' = [stack EXCEPT ![Depth] = f],
           nlines' \in Nat, NoSelf => Verdicts' /\ Failures', UNCHANGED <<abort, exit, asked>>
    PROVE  IInv'
<1>1. /\ Depth \in DOMAIN stack /\ Depth \in Nat /\ Depth >= 1 /\ DOMAIN stack = 1 .. Depth
      /\ Top = stack[Depth] /\ Len(stack) = Depth
  BY TopFacts DEF IInv, Depth
<1>2. /\ stack' \in Seq(Frame) /\ DOMAIN stack' = DOMAIN stack
      /\ Len(stack') = Len(stack) /\ stack' # <<>>
      /\ stack'[Depth] = f
      /\ \A d \in DOMAIN stack : d # Depth => stack'[d] = stack[d]
  BY TopReplaced DEF IInv
<1>3. /\ expect' \in Seq(Expect)
      /\ \A k \in DOMAIN expect' : \E j \in DOMAIN expect : expect'[k] = ex[j]
      /\ \A k \in DOMAIN expect' : k < p => k \in DOMAIN expect /\ expect'[k] = ex[k]
  <2>1. ex \in Seq(Expect) /\ DOMAIN ex = DOMAIN expect /\ p \in DOMAIN ex
    BY DEF Marked
  <2> DEFINE t == RemoveAt(ex, p)
  <2>2. /\ t \in Seq(Expect)
        /\ \A k \in DOMAIN t : \E j \in DOMAIN ex : j # p /\ t[k] = ex[j]
        /\ \A k \in DOMAIN t : k < p => k \in DOMAIN ex /\ t[k] = ex[k]
    BY <2>1, RemoveAtEntries
  <2>3. expect' = t
    OBVIOUS
  <2> HIDE DEF t
  <2> QED
    BY <2>1, <2>2, <2>3
<1>4. \A d \in DOMAIN stack : d # Depth => stack[d].pos = 1
  BY LowerFrame DEF IInv
<1> HIDE DEF Depth, Top
<1>5. SameFrames(stack, stack') /\ SameRuns(runs', runs')
  BY <1>1, <1>2 DEF SameFrames, SameRuns
<1>6. TypeOK'
  BY <1>2, <1>3 DEF IInv, TypeOK, Run
<1>7. StackSound'
  <2>1. ASSUME NEW d \in DOMAIN stack'
        PROVE  FrameSound(stack'[d], d, runs', expect')
    <3>1. FrameSound(stack[d], d, runs, expect)
      BY <1>2 DEF IInv, StackSound
    <3>2. stack'[d].no = stack[d].no /\ stack'[d].command = stack[d].command
      BY <1>2, <1>5 DEF SameFrames
    <3>3. /\ stack[d].no \in DOMAIN runs'
          /\ runs'[stack[d].no].command = runs[stack[d].no].command
          /\ runs'[stack[d].no].depth = runs[stack[d].no].depth
          /\ ~runs'[stack[d].no].over
      BY <3>1 DEF FrameSound, SameRuns
    <3>4. CASE d = Depth
      <4>1. stack'[d] = f /\ stack[d] = Top
        BY <1>1, <1>2, <3>4
      <4>2. \A i \in DOMAIN expect' : i < f.pos => expect'[i].command # f.command
        BY <1>3, <3>1, <4>1 DEF FrameSound, Marked
      <4> QED
        BY <3>1, <3>2, <3>3, <4>1, <4>2 DEF FrameSound
    <3>5. CASE d # Depth
      <4>1. stack'[d] = stack[d] /\ stack[d].pos = 1
        BY <1>2, <1>4, <3>5
      <4>2. \A i \in DOMAIN expect' : ~(i < 1)
        BY <1>3
      <4> QED
        BY <3>1, <3>3, <4>1, <4>2 DEF FrameSound
    <3> QED
      BY <3>4, <3>5
  <2>2. Len(stack) <= 2
        /\ (Len(stack) = 2 => /\ stack[1].command = "tcpsession" /\ stack[1].at = "handler"
                              /\ stack[2].command \in {"gen_ip", "expect"})
    BY DEF IInv, StackSound
  <2>3. Len(stack) = 2 => stack'[1] = stack[1] /\ stack'[2].command = stack[2].command
    BY <1>1, <1>2
  <2> QED
    BY <1>2, <2>1, <2>2, <2>3 DEF StackSound, FrameSound
<1>8. ASSUME NEW i \in DOMAIN expect'
      PROVE  /\ Pending(expect'[i], asked, runs', stack')
             /\ NoSelf => Waiting(expect'[i], asked, runs', stack')
  <2>1. PICK j \in DOMAIN expect : expect'[i] = ex[j]
    BY <1>3
  <2>2. Pending(ex[j], asked, runs', stack)
    BY DEF Marked
  <2>3. NoSelf => Waiting(ex[j], asked, runs', stack)
    BY DEF Marked
  <2> QED
    BY <1>5, <2>1, <2>2, <2>3, PendingStays, WaitingStays
<1>9. \A k \in DOMAIN asked : asked[k].since <= Len(runs')
  BY DEF IInv
<1> QED
  BY <1>6, <1>7, <1>8, <1>9 DEF IInv

\* The hook deletes an expectation that turned out as asked: the verdict is settled.
LEMMA PostMetKeeps ==
    ASSUME IInv, PostMet
    PROVE  IInv'
<1> DEFINE p == Top.pos
           e == expect[p]
<1>1. /\ exit = "no" /\ stack # <<>> /\ Top.at = "post"
      /\ p <= Len(expect) /\ e.command = Top.command /\ ~Bad(e)
      /\ expect' = RemoveAt(expect, p)
      /\ UNCHANGED <<abort, stack, exit, runs, asked, nlines>>
  BY DEF PostMet, InPost, At
<1>2. /\ Depth \in DOMAIN stack /\ Top = stack[Depth] /\ Top \in Frame
      /\ stack \in Seq(Frame) /\ Depth = Len(stack)
  BY <1>1, TopFacts DEF IInv, TypeOK, Depth
<1>3. FrameSound(Top, Depth, runs, expect)
  BY <1>2 DEF IInv, StackSound
<1>4. p \in DOMAIN expect
  <2>1. p \in Nat \ {0}
    BY <1>2 DEF Frame
  <2>2. expect \in Seq(Expect)
    BY DEF IInv, TypeOK
  <2> QED
    BY <1>1, <2>1, <2>2
<1>5. stack' = [stack EXCEPT ![Depth] = Top]
  <2> HIDE DEF Depth, Top
  <2> QED
    BY <1>1, <1>2
<1>6. runs' \in Seq(Run) /\ SameRuns(runs, runs') /\ nlines' \in Nat
  BY <1>1 DEF IInv, TypeOK, Run, SameRuns
<1>7. Marked(expect, runs')
  BY <1>1 DEF Marked, IInv, TypeOK
<1>8. ASSUME NoSelf PROVE Verdict(asked[e.id], runs, stack)
  <2> DEFINE a == asked[e.id]
  <2>1. Calls(runs, a) = {Top.no}
    BY <1>1, <1>2, <1>4, <1>8, OnlyCall
  <2>2. Waiting(e, asked, runs, stack) /\ Pending(e, asked, runs, stack)
    BY <1>4, <1>8 DEF IInv
  <2>3. Top.no \in DOMAIN runs /\ Top.no <= Top.no
    BY <1>3 DEF FrameSound, IInv, TypeOK
  <2>4. First(runs, a, Top.no)
    BY <2>1, <2>3 DEF First
  <2>5. e.matched # 0 <=> SeenBy(runs, a, Top.no)
    <3> HIDE DEF e
    <3> QED
      BY <2>1, <2>2 DEF Waiting
  <2>6. a.invert = e.invert /\ e.invert \in BOOLEAN
    <3>1. e \in Expect
      BY <1>4, Fields DEF IInv
    <3> QED
      BY <2>2, <3>1 DEF Pending, Expect
  <2>7. SeenBy(runs, a, Top.no) <=> ~a.invert
    <3> HIDE DEF a, e
    <3>1. SeenBy(runs, a, Top.no) \in BOOLEAN
      BY DEF SeenBy
    <3> QED
      BY <1>1, <2>5, <2>6, <3>1 DEF Bad
  <2>8. Settled(stack, runs, Top.no)
    BY <1>1, <1>2 DEF Settled
  <2> QED
    BY <2>3, <2>4, <2>7, <2>8 DEF Verdict
<1>9. NoSelf => Verdicts'
  <2> SUFFICES ASSUME NoSelf, abort, NEW k \in DOMAIN asked,
                      ~\E i \in DOMAIN expect' : expect'[i].id = k
               PROVE  Verdict(asked[k], runs, stack)
    BY <1>1 DEF Verdicts
  <2>1. expect \in Seq(Expect)
    BY DEF IInv, TypeOK
  <2>2. \A j \in DOMAIN expect : j # p => \E i \in DOMAIN expect' : expect'[i] = expect[j]
    BY <1>1, <1>4, <2>1, RemoveAtEntries
  <2>3. CASE \E j \in DOMAIN expect : expect[j].id = k
    <3>1. e.id = k
      BY <2>2, <2>3
    <3> QED
      BY <1>8, <3>1
  <2>4. CASE ~\E j \in DOMAIN expect : expect[j].id = k
    BY <2>4 DEF IInv, Verdicts
  <2> QED
    BY <2>3, <2>4
<1>10. NoSelf => Failures'
  BY <1>1 DEF IInv, Failures
<1>11. /\ Len(runs') = Len(runs) /\ \A n \in DOMAIN runs : ~runs[n].over => ~runs'[n].over
  BY <1>1
<1> QED
  BY <1>1, <1>2, <1>4, <1>5, <1>6, <1>7, <1>9, <1>10, <1>11, RemoveKeeps

\* The hook has met an expectation that turned out otherwise.
LEMMA PostBadKeeps ==
    ASSUME IInv, PostBad
    PROVE  IInv'
<1> DEFINE p == Top.pos
           l == IF At.invert THEN "met" ELSE "unmet"
           f == [Top EXCEPT !.ok = FALSE]
<1>1. exit = "no" /\ stack # <<>> /\ Top.at = "post" /\ p <= Len(expect)
      /\ UNCHANGED <<abort, asked>>
  BY DEF PostBad, InPost
<1>2. CASE abort /\ ScriptFail /\ UNCHANGED <<expect, stack, runs, nlines>>
  <2>1. exit' = "scriptfail"
    BY <1>2 DEF ScriptFail
  <2> QED
    BY <1>1, <1>2, <2>1, ExitKeeps
<1>3. CASE /\ ~abort
           /\ expect' = RemoveAt(ExpectLogHook(l), p)
           /\ runs' = [runs EXCEPT ![Top.no].lines = @ \cup {l}]
           /\ nlines' = nlines + 1
           /\ stack' = [stack EXCEPT ![Depth].ok = FALSE]
           /\ UNCHANGED exit
  <2>1. l \in AnyLine
    BY DEF AnyLine, Diagnostic
  <2>2. /\ Depth \in DOMAIN stack /\ Top = stack[Depth] /\ Top \in Frame
        /\ stack \in Seq(Frame)
    BY <1>1, TopFacts DEF IInv, TypeOK
  <2>3. p \in DOMAIN expect
    <3>1. p \in Nat \ {0}
      BY <2>2 DEF Frame
    <3>2. expect \in Seq(Expect)
      BY DEF IInv, TypeOK
    <3> QED
      BY <1>1, <3>1, <3>2
  <2> HIDE DEF l
  <2>4. Logged(runs', l)
    BY <1>1, <1>3, <2>1, LineLogged
  <2>5. Marked(ExpectLogHook(l), runs')
    BY <1>1, <2>1, <2>4, LogMarks
  <2>6. /\ runs' \in Seq(Run) /\ SameRuns(runs, runs') /\ Len(runs') = Len(runs)
        /\ \A n \in DOMAIN runs : ~runs[n].over => ~runs'[n].over
    BY <2>4 DEF Logged
  <2>7. stack' = [stack EXCEPT ![Depth] = f]
    BY <1>3, <2>2
  <2>8. f \in Frame /\ f.command = Top.command /\ f.no = Top.no /\ f.abort = Top.abort
        /\ f.pos = Top.pos /\ f.at = Top.at
    <3> HIDE DEF Top
    <3> QED
      BY <2>2 DEF Frame
  <2> HIDE DEF f
  <2>9. Verdicts' /\ Failures'
    BY <1>1, <1>3 DEF Verdicts, Failures
  <2>10. nlines' \in Nat
    BY <1>3 DEF IInv, TypeOK
  <2> QED
    BY <1>1, <1>3, <2>3, <2>5, <2>6, <2>7, <2>8, <2>9, <2>10, RemoveKeeps
<1> QED
  BY <1>2, <1>3 DEF PostBad

-----------------------------------------------------------------------------
(* An expectation is made; a command ends. *)

\* expect_cmd: the new expectation is about runs still to come.
LEMMA ExpectCmdKeeps ==
    ASSUME IInv, NEW c \in Expectable, NEW p \in Pattern, NEW inv \in BOOLEAN,
           ExpectCmd(c, p, inv)
    PROVE  IInv'
<1> DEFINE m == Len(asked) + 1
           e == [id |-> m, command |-> c, pattern |-> p, invert |-> inv, matched |-> 0]
           q == [command |-> c, pattern |-> p, invert |-> inv, since |-> Len(runs)]
           f == [Top EXCEPT !.at = "post"]
<1>1. /\ exit = "no" /\ stack # <<>> /\ Top.at = "handler" /\ Top.command = "expect"
      /\ Depth > 1 => c = "gen_ip"
      /\ expect' = <<e>> \o expect /\ asked' = Append(asked, q)
      /\ stack' = [stack EXCEPT ![Depth].at = "post"]
      /\ UNCHANGED <<abort, exit, runs, nlines>>
  BY DEF ExpectCmd, InHandler
<1>2. /\ Depth \in DOMAIN stack /\ Depth \in Nat /\ Depth >= 1 /\ DOMAIN stack = 1 .. Depth
      /\ Top = stack[Depth] /\ Top \in Frame /\ Len(stack) = Depth
  BY <1>1, TopFacts DEF IInv, Depth
<1>3. \A d \in DOMAIN stack : FrameSound(stack[d], d, runs, expect) /\ stack[d].pos = 1
  BY <1>1, <1>2, LowerFrame DEF IInv, StackSound, FrameSound
<1>4. stack' = [stack EXCEPT ![Depth] = f]
  BY <1>1, <1>2
<1>5. /\ asked \in Seq(Asked) /\ Len(asked) \in Nat /\ DOMAIN asked = 1 .. Len(asked)
      /\ expect \in Seq(Expect) /\ Len(expect) \in Nat /\ DOMAIN expect = 1 .. Len(expect)
      /\ runs \in Seq(Run) /\ Len(runs) \in Nat /\ DOMAIN runs = 1 .. Len(runs)
  BY DEF IInv, TypeOK, Asked, Run
<1>6. c \in AnyCommand
  BY ScriptAssumption
<1>7. q \in Asked /\ q.since = Len(runs) /\ q.command = c /\ q.pattern = p /\ q.invert = inv
  BY <1>5, <1>6 DEF Asked
<1>8. /\ e \in Expect /\ e.id = m /\ e.command = c /\ e.pattern = p /\ e.invert = inv
      /\ e.matched = 0
  BY <1>5, <1>6 DEF Expect
<1>9. /\ f \in Frame /\ f.command = Top.command /\ f.no = Top.no /\ f.abort = Top.abort
      /\ f.at = "post" /\ f.pos = Top.pos
  <2> HIDE DEF Top
  <2> QED
    BY <1>2 DEF Frame
<1> HIDE DEF e, q, f
<1>10. /\ stack' \in Seq(Frame) /\ DOMAIN stack' = DOMAIN stack /\ Len(stack') = Len(stack)
       /\ stack' # <<>> /\ stack'[Depth] = f
       /\ \A d \in DOMAIN stack : d # Depth => stack'[d] = stack[d]
  BY <1>1, <1>4, <1>9, TopReplaced DEF IInv
<1>11. /\ asked' \in Seq(Asked) /\ Len(asked') = m /\ DOMAIN asked' = 1 .. m
       /\ asked'[m] = q /\ \A k \in DOMAIN asked : asked'[k] = asked[k] /\ k \in DOMAIN asked'
       /\ m \in DOMAIN asked' /\ \A k \in DOMAIN asked' : k \in DOMAIN asked \/ k = m
  BY <1>1, <1>5, <1>7, AppendProperties
<1>12. /\ expect' \in Seq(Expect) /\ DOMAIN expect' = 1 .. Len(expect) + 1
       /\ expect'[1] = e
       /\ \A i \in DOMAIN expect : i + 1 \in DOMAIN expect' /\ expect'[i + 1] = expect[i]
       /\ \A i \in DOMAIN expect' : i = 1 \/ \E j \in DOMAIN expect : expect'[i] = expect[j]
  <2>1. <<e>> \in Seq(Expect) /\ Len(<<e>>) = 1 /\ <<e>>[1] = e
    BY <1>8
  <2>2. /\ expect' \in Seq(Expect) /\ Len(expect') = 1 + Len(expect)
        /\ \A i \in 1 .. 1 + Len(expect) :
             expect'[i] = IF i <= 1 THEN <<e>>[i] ELSE expect[i - 1]
    BY <1>1, <1>5, <2>1, ConcatProperties
  <2>3. DOMAIN expect' = 1 .. Len(expect) + 1
    BY <1>5, <2>2
  <2>4. expect'[1] = e
    BY <1>5, <2>1, <2>2
  <2>5. \A i \in DOMAIN expect : i + 1 \in DOMAIN expect' /\ expect'[i + 1] = expect[i]
    BY <1>5, <2>2, <2>3
  <2>6. ASSUME NEW i \in DOMAIN expect', i # 1
        PROVE  \E j \in DOMAIN expect : expect'[i] = expect[j]
    <3>1. i - 1 \in DOMAIN expect /\ expect'[i] = expect[i - 1]
      BY <1>5, <2>2, <2>3, <2>6
    <3> QED
      BY <3>1
  <2> QED
    BY <2>2, <2>3, <2>4, <2>5, <2>6
<1> HIDE DEF Depth, Top
<1>13. SameFrames(stack, stack') /\ SameRuns(runs, runs)
  BY <1>2, <1>9, <1>10 DEF SameFrames, SameRuns
<1>14. Calls(runs, q) = {}
  BY <1>5, <1>7 DEF Calls
<1>15. TypeOK'
  BY <1>1, <1>10, <1>11, <1>12 DEF IInv, TypeOK, Asked
<1>16. StackSound'
  <2>1. ASSUME NEW d \in DOMAIN stack'
        PROVE  FrameSound(stack'[d], d, runs, expect')
    <3>1. \A i \in DOMAIN expect' : ~(i < 1)
      BY <1>12
    <3>2. FrameSound(stack[d], d, runs, expect) /\ stack[d].pos = 1
      BY <1>3, <1>10
    <3>3. CASE d = Depth
      BY <1>2, <1>9, <1>10, <3>1, <3>2, <3>3 DEF FrameSound
    <3>4. CASE d # Depth
      BY <1>10, <3>1, <3>2, <3>4 DEF FrameSound
    <3> QED
      BY <3>3, <3>4
  <2>2. Len(stack) <= 2
        /\ (Len(stack) = 2 => /\ stack[1].command = "tcpsession" /\ stack[1].at = "handler"
                              /\ stack[2].command \in {"gen_ip", "expect"})
    BY DEF IInv, StackSound
  <2>3. Len(stack) = 2 => stack'[1] = stack[1] /\ stack'[2].command = stack[2].command
    BY <1>2, <1>9, <1>10
  <2> QED
    BY <1>1, <1>10, <2>1, <2>2, <2>3 DEF StackSound, FrameSound
<1>17. ASSUME NEW i \in DOMAIN expect
       PROVE  /\ Pending(expect[i], asked', runs, stack')
              /\ NoSelf => Waiting(expect[i], asked', runs, stack')
  <2>1. Pending(expect[i], asked, runs, stack')
    BY <1>13, PendingStays DEF IInv
  <2>2. NoSelf => Waiting(expect[i], asked, runs, stack')
    BY <1>13, WaitingStays DEF IInv
  <2>3. expect[i].id \in DOMAIN asked
    BY <2>1 DEF Pending
  <2>4. asked'[expect[i].id] = asked[expect[i].id] /\ expect[i].id \in DOMAIN asked'
    BY <1>11, <2>3
  <2> QED
    BY <2>1, <2>2, <2>4 DEF Pending, Waiting
<1>18. Pending(e, asked', runs, stack')
  BY <1>7, <1>8, <1>11, <1>14 DEF Pending
<1>19. NoSelf => Waiting(e, asked', runs, stack')
  <2> SUFFICES ASSUME NoSelf PROVE Waiting(e, asked', runs, stack')
    OBVIOUS
  <2>1. ASSUME NEW d \in DOMAIN stack' PROVE stack'[d].command # c
    <3>1. CASE d = Depth
      BY <1>1, <1>9, <1>10, <3>1 DEF NoSelf
    <3>2. CASE d # Depth
      <4>1. Depth = 2 /\ stack[d].command = "tcpsession"
        BY <1>10, <3>2, LowerFrame DEF IInv
      <4> QED
        BY <1>1, <1>10, <3>2, <4>1
    <3> QED
      BY <3>1, <3>2
  <2> QED
    BY <1>8, <1>11, <1>14, <2>1 DEF Waiting
<1>20. ASSUME NEW i \in DOMAIN expect'
       PROVE  /\ Pending(expect'[i], asked', runs, stack')
              /\ NoSelf => Waiting(expect'[i], asked', runs, stack')
  BY <1>12, <1>17, <1>18, <1>19
<1>21. \A k \in DOMAIN asked' : asked'[k].since <= Len(runs)
  BY <1>5, <1>7, <1>11 DEF IInv
<1>22. NoSelf => Verdicts'
  <2> SUFFICES ASSUME NoSelf, abort, NEW k \in DOMAIN asked',
                      ~\E i \in DOMAIN expect' : expect'[i].id = k
               PROVE  Verdict(asked'[k], runs, stack')
    BY <1>1 DEF Verdicts
  <2>1. k # m
    <3>1. 1 \in DOMAIN expect' /\ expect'[1].id = m
      BY <1>5, <1>8, <1>12
    <3> QED
      BY <3>1
  <2>2. k \in DOMAIN asked /\ asked'[k] = asked[k]
    BY <1>11, <2>1
  <2>3. ~\E i \in DOMAIN expect : expect[i].id = k
    BY <1>12
  <2>4. Verdict(asked[k], runs, stack)
    BY <2>2, <2>3 DEF IInv, Verdicts
  <2>5. \A n \in DOMAIN runs : Settled(stack, runs, n) => Settled(stack', runs, n)
    BY <1>1, <1>2 DEF Settled
  <2>6. Verdict(asked[k], runs, stack')
    BY <1>13, <2>4, <2>5, VerdictStays
  <2> QED
    BY <2>2, <2>6
<1>23. NoSelf => Failures'
  <2> SUFFICES ASSUME NoSelf, abort, NEW i \in DOMAIN runs
               PROVE  FailureAsked(asked', runs, i)
    BY <1>1 DEF Failures
  <2>1. FailureAsked(asked, runs, i)
    BY <1>1 DEF IInv, Failures
  <2> QED
    BY <1>11, <2>1 DEF FailureAsked
<1> QED
  BY <1>1, <1>15, <1>16, <1>20, <1>21, <1>22, <1>23 DEF IInv

\* The stack without its innermost frame.
LEMMA Popped ==
    ASSUME TypeOK, stack # <<>>, Len(stack) <= 2, NEW x \in {"any", "gen_ip", "fail"},
           stack' = IF Depth = 1 THEN <<>> ELSE [Front(stack) EXCEPT ![Depth - 1].next = x]
    PROVE  /\ stack' \in Seq(Frame) /\ Len(stack') = Len(stack) - 1
           /\ \A d \in DOMAIN stack' : d \in DOMAIN stack /\ d # Depth
           /\ \A d \in DOMAIN stack : d # Depth => d \in DOMAIN stack'
           /\ \A d \in DOMAIN stack' :
                /\ stack'[d].no = stack[d].no /\ stack'[d].command = stack[d].command
                /\ stack'[d].at = stack[d].at /\ stack'[d].pos = stack[d].pos
                /\ stack'[d].abort = stack[d].abort
<1>1. /\ Depth \in Nat /\ Depth >= 1 /\ Len(stack) = Depth /\ DOMAIN stack = 1 .. Depth
      /\ stack \in Seq(Frame) /\ \A d \in 1 .. Depth : stack[d] \in Frame
  BY TopFacts, Fields DEF Depth, TypeOK
<1> HIDE DEF Depth
<1>2. CASE Depth = 1
  <2>1. stack' = <<>>
    BY <1>2
  <2> QED
    BY <1>1, <1>2, <2>1
<1>3. CASE Depth = 2
  <2> DEFINE s == SubSeq(stack, 1, 1)
             f == [stack[1] EXCEPT !.next = x]
  <2>1. Front(stack) = s
    BY <1>1, <1>3 DEF Front
  <2>2. s \in Seq(Frame) /\ Len(s) = 1 /\ s[1] = stack[1]
    <3>1. \A i \in 1 .. 1 : stack[i] \in Frame
      BY <1>1, <1>3
    <3>2. /\ s \in Seq(Frame) /\ Len(s) = IF 1 <= 1 THEN 1 - 1 + 1 ELSE 0
          /\ \A i \in 1 .. 1 - 1 + 1 : s[i] = stack[1 + i - 1]
      BY <3>1, SubSeqProperties
    <3> HIDE DEF s
    <3> QED
      BY <3>2
  <2>3. f \in Frame /\ f.no = stack[1].no /\ f.command = stack[1].command
        /\ f.at = stack[1].at /\ f.pos = stack[1].pos /\ f.abort = stack[1].abort
    <3>1. stack[1] \in Frame
      BY <1>1, <1>3
    <3> QED
      BY <3>1 DEF Frame
  <2> HIDE DEF s
  <2>4. stack' = [s EXCEPT ![1] = f]
    <3>1. stack' = [s EXCEPT ![1].next = x]
      BY <1>3, <2>1
    <3> QED
      BY <2>2, <3>1
  <2> HIDE DEF f
  <2>5. stack' \in Seq(Frame) /\ Len(stack') = 1 /\ stack'[1] = f /\ DOMAIN stack' = {1}
    <3>1. 1 \in DOMAIN s /\ f \in Frame
      BY <2>2, <2>3
    <3>2. /\ stack' \in Seq(Frame) /\ DOMAIN stack' = DOMAIN s /\ Len(stack') = Len(s)
          /\ stack'[1] = f
      <4> DEFINE t == [s EXCEPT ![1] = f]
      <4>1. /\ t \in Seq(Frame) /\ DOMAIN t = DOMAIN s /\ Len(t) = Len(s)
            /\ t[1] = f
        BY <2>2, <3>1, ExceptProperties
      <4> QED
        BY <2>4, <4>1, Zenon
    <3> QED
      BY <2>2, <3>2
  <2>6. DOMAIN stack = {1, 2}
    BY <1>1, <1>3
  <2>7. \A d \in DOMAIN stack' : stack'[d] = f /\ d = 1
    BY <2>5
  <2>8. Len(stack') = Len(stack) - 1
    BY <1>1, <1>3, <2>5
  <2>9. /\ \A d \in DOMAIN stack' : d \in DOMAIN stack /\ d # Depth
        /\ \A d \in DOMAIN stack : d # Depth => d \in DOMAIN stack'
    BY <1>3, <2>5, <2>6
  <2> QED
    BY <2>3, <2>5, <2>7, <2>8, <2>9, Zenon
<1> QED
  BY <1>1, <1>2, <1>3

\* A command ends when no expectation on it is left.
LEMMA CommandEndsKeeps ==
    ASSUME IInv, CommandEnds
    PROVE  IInv'
<1> DEFINE n == Top.no
           r == [runs[n] EXCEPT !.over = TRUE]
           x == IF ~Top.ok THEN "fail" ELSE IF Top.command = "expect" THEN "gen_ip" ELSE "any"
<1>1. /\ exit = "no" /\ stack # <<>> /\ Top.at = "post" /\ Top.pos > Len(expect)
      /\ runs' = [runs EXCEPT ![n].over = TRUE]
      /\ stack' = IF Depth = 1 THEN <<>> ELSE [Front(stack) EXCEPT ![Depth - 1].next = x]
      /\ UNCHANGED <<abort, expect, exit, asked, nlines>>
  BY DEF CommandEnds, InPost
<1>2. /\ Depth \in DOMAIN stack /\ Top = stack[Depth] /\ Top \in Frame /\ Depth = Len(stack)
  BY <1>1, TopFacts DEF IInv, Depth
<1>3. \A d \in DOMAIN stack : FrameSound(stack[d], d, runs, expect)
  BY DEF IInv, StackSound
<1>4. n \in DOMAIN runs /\ runs[n].command = Top.command /\ ~runs[n].over /\ runs[n].depth = Depth
  BY <1>2, <1>3 DEF FrameSound
<1>5. runs[n] \in Run
  BY <1>4, Fields DEF IInv
<1>6. \A i \in DOMAIN expect : expect[i].command # Top.command
  <2> SUFFICES ASSUME NEW i \in DOMAIN expect PROVE i < Top.pos
    BY <1>2, <1>3 DEF FrameSound
  <2>1. expect \in Seq(Expect)
    BY DEF IInv, TypeOK
  <2>2. Top.pos \in Nat
    BY <1>2 DEF Frame
  <2> QED
    BY <1>1, <2>1, <2>2
<1> HIDE DEF n
<1>7. runs' = [runs EXCEPT ![n] = r]
  BY <1>1, <1>4
<1>8. /\ r \in Run /\ r.command = runs[n].command /\ r.depth = runs[n].depth
      /\ r.failed = runs[n].failed /\ r.over /\ r.lines = runs[n].lines
  BY <1>5 DEF Run
<1> HIDE DEF r
<1>9. /\ runs' \in Seq(Run) /\ DOMAIN runs' = DOMAIN runs /\ Len(runs') = Len(runs)
      /\ runs'[n] = r /\ \A i \in DOMAIN runs : i # n => runs'[i] = runs[i]
  <2>1. r \in Run
    BY <1>8
  <2>2. n \in DOMAIN runs /\ TypeOK
    BY <1>4 DEF IInv
  <2> QED
    BY <1>7, <2>1, <2>2, RunReplaced, Zenon
<1>10. /\ stack' \in Seq(Frame) /\ Len(stack') = Len(stack) - 1
       /\ \A d \in DOMAIN stack' : d \in DOMAIN stack /\ d # Depth
       /\ \A d \in DOMAIN stack : d # Depth => d \in DOMAIN stack'
       /\ \A d \in DOMAIN stack' :
            /\ stack'[d].no = stack[d].no /\ stack'[d].command = stack[d].command
            /\ stack'[d].at = stack[d].at /\ stack'[d].pos = stack[d].pos
            /\ stack'[d].abort = stack[d].abort
  <2>1. x \in {"any", "gen_ip", "fail"}
    OBVIOUS
  <2>2. Len(stack) <= 2 /\ TypeOK
    BY DEF IInv, StackSound
  <2> HIDE DEF x
  <2> QED
    BY <1>1, <2>1, <2>2, Popped
<1> HIDE DEF x, Depth, Top
<1>11. SameRuns(runs, runs')
  BY <1>8, <1>9 DEF SameRuns
<1>12. \A i \in DOMAIN runs : runs'[i].lines = runs[i].lines /\ runs'[i].failed = runs[i].failed
  BY <1>8, <1>9
<1>13. TypeOK'
  BY <1>1, <1>9, <1>10 DEF IInv, TypeOK, Run
<1>14. StackSound'
  <2>1. ASSUME NEW d \in DOMAIN stack'
        PROVE  FrameSound(stack'[d], d, runs', expect)
    <3>1. d \in DOMAIN stack /\ d # Depth
      BY <1>10
    <3>2. FrameSound(stack[d], d, runs, expect)
      BY <1>3, <3>1
    <3>3. stack[d].no \in DOMAIN runs /\ stack[d].no # n
      BY <1>4, <3>1, <3>2 DEF FrameSound
    <3>4. runs'[stack[d].no] = runs[stack[d].no]
      BY <1>9, <3>3
    <3> QED
      BY <1>9, <1>10, <3>2, <3>4 DEF FrameSound
  <2>2. Len(stack') \in Nat /\ Len(stack') <= 1
    <3>1. Len(stack) <= 2 /\ Len(stack) \in Nat
      BY DEF IInv, StackSound, TypeOK
    <3> QED
      BY <1>10, <3>1
  <2>3. Len(stack') <= 2 /\ Len(stack') # 2
    BY <2>2
  <2> QED
    BY <1>1, <2>1, <2>3 DEF StackSound, FrameSound
<1>15. \A a : Calls(runs', a) = Calls(runs, a)
  BY <1>11 DEF Calls, SameRuns
<1>16. ASSUME NEW i \in DOMAIN expect
       PROVE  Pending(expect[i], asked, runs', stack')
  <2>1. Pending(expect[i], asked, runs, stack)
    BY DEF IInv
  <2>2. ASSUME NEW j \in Calls(runs, asked[expect[i].id])
        PROVE  \E d \in DOMAIN stack' : stack'[d].no = j
    <3>1. PICK d \in DOMAIN stack : stack[d].no = j
      BY <2>1 DEF Pending
    <3>2. runs[j].command = expect[i].command
      BY <2>1 DEF Calls, Pending
    <3>3. d # Depth
      BY <1>2, <1>4, <1>6, <3>1, <3>2 DEF n
    <3> QED
      BY <1>10, <3>1, <3>3
  <2> QED
    BY <1>15, <2>1, <2>2 DEF Pending
<1>17. ASSUME NEW i \in DOMAIN expect, Waiting(expect[i], asked, runs, stack)
       PROVE  Waiting(expect[i], asked, runs', stack')
  <2>1. \A d \in DOMAIN stack' : stack'[d].command = expect[i].command =>
                                   stack'[d].no > asked[expect[i].id].since
    BY <1>10, <1>17 DEF Waiting
  <2>2. \A j \in Calls(runs, asked[expect[i].id]) :
           SeenBy(runs', asked[expect[i].id], j) <=> SeenBy(runs, asked[expect[i].id], j)
    BY <1>12 DEF SeenBy, Calls
  <2> QED
    BY <1>15, <1>17, <2>1, <2>2 DEF Waiting
<1>18. Verdicts => Verdicts'
  <2> SUFFICES ASSUME abort, NEW k \in DOMAIN asked, Verdict(asked[k], runs, stack)
               PROVE  Verdict(asked[k], runs', stack')
    BY <1>1 DEF Verdicts
  <2>1. ASSUME NEW i \in DOMAIN runs, Settled(stack, runs, i)
        PROVE  Settled(stack', runs', i) /\ runs'[i].lines = runs[i].lines
    <3>1. runs[i].over \/ i = n
      BY <1>2, <2>1 DEF Settled, n
    <3>2. runs'[i].over
      BY <1>8, <1>9, <3>1
    <3> QED
      BY <1>12, <3>2 DEF Settled
  <2> QED
    BY <1>11, <2>1, VerdictStays
<1>19. Failures => Failures'
  <2> SUFFICES ASSUME Failures, abort, exit # "scriptfail", NEW i \in DOMAIN runs
               PROVE  FailureAsked(asked, runs', i)
    BY <1>1, <1>9 DEF Failures
  <2>1. FailureAsked(asked, runs, i)
    BY DEF Failures
  <2> QED
    BY <1>11, <1>12, <2>1, FailureAskedStays
<1>20. \A k \in DOMAIN asked : asked[k].since <= Len(runs')
  BY <1>9 DEF IInv
<1> QED
  BY <1>1, <1>13, <1>14, <1>16, <1>17, <1>18, <1>19, <1>20 DEF IInv

-----------------------------------------------------------------------------
(* The invariant, and what follows from it. *)

\* The initial state satisfies the invariant.
LEMMA InitHolds == Init => IInv
<1> SUFFICES ASSUME Init PROVE IInv
  OBVIOUS
<1>1. /\ abort \in BOOLEAN /\ expect = <<>> /\ stack = <<>> /\ exit = "no"
      /\ runs = <<>> /\ asked = <<>> /\ nlines = 0
  BY DEF Init
<1>2. TypeOK
  BY <1>1 DEF TypeOK
<1>3. /\ Len(stack) = 0 /\ DOMAIN stack = {} /\ DOMAIN expect = {} /\ DOMAIN asked = {}
      /\ DOMAIN runs = {}
  BY <1>1
<1> QED
  BY <1>1, <1>2, <1>3 DEF IInv, StackSound, Verdicts, Failures

\* tcp_send runs its commands from tcpsession, which the script has run.
LEMMA TcpSendKeeps ==
    ASSUME IInv, TcpSend
    PROVE  IInv'
<1> DEFINE c == IF Top.next = "gen_ip" THEN "gen_ip" ELSE "expect"
<1>1. /\ exit = "no" /\ stack # <<>> /\ Top.at = "handler" /\ Top.command = "tcpsession"
      /\ Call(c, FALSE) /\ UNCHANGED <<abort, expect, exit, asked, nlines>>
  BY DEF TcpSend, InHandler
<1>2. Depth \in Nat /\ Depth >= 1 /\ Top = stack[Depth] /\ Depth = Len(stack)
  BY <1>1, TopFacts DEF IInv, Depth
<1>3. Depth <= 2 /\ (Depth = 2 => stack[2].command \in {"gen_ip", "expect"})
  BY <1>2 DEF IInv, StackSound
<1>4. Depth = 1
  <2>1. Depth # 2
    BY <1>1, <1>2, <1>3
  <2> QED
    BY <1>2, <1>3, <2>1
<1>5. c \in {"gen_ip", "expect"} /\ c \in AnyCommand
  BY ScriptAssumption DEF AnyCommand
<1> HIDE DEF c
<1> QED
  BY <1>1, <1>4, <1>5, CallKeeps

\* Every step keeps the invariant.
LEMMA NextKeeps == IInv /\ [Next]_vars => IInv'
<1> SUFFICES ASSUME IInv, [Next]_vars PROVE IInv'
  OBVIOUS
<1>1. ASSUME NEW c \in AnyCommand, DoCommand(c) PROVE IInv'
  <2>1. /\ exit = "no" /\ stack = <<>> /\ Call(c, abort)
        /\ UNCHANGED <<abort, expect, exit, asked, nlines>>
    BY <1>1 DEF DoCommand
  <2>2. abort \in BOOLEAN
    BY DEF IInv, TypeOK
  <2> QED
    BY <2>1, <2>2, CallKeeps
<1>2. CASE NotFound
  BY <1>2, ExitKeeps DEF NotFound, ScriptFail
<1>3. ASSUME NEW l \in Line, HandlerLogs(l) PROVE IInv'
  BY <1>3, HandlerLogsKeeps
<1>4. ASSUME NEW c \in Expectable, NEW p \in Pattern, NEW inv \in BOOLEAN,
             ExpectCmd(c, p, inv)
      PROVE  IInv'
  BY <1>4, ExpectCmdKeeps
<1>5. CASE TcpSend
  BY <1>5, TcpSendKeeps
<1>6. CASE HandlerSucceeds
  BY <1>6, HandlerSucceedsKeeps
<1>7. CASE HandlerFails
  BY <1>7, HandlerFailsKeeps
<1>8. CASE PostSkips
  BY <1>8, PostSkipsKeeps
<1>9. CASE PostMet
  BY <1>9, PostMetKeeps
<1>10. CASE PostBad
  BY <1>10, PostBadKeeps
<1>11. CASE CommandEnds
  BY <1>11, CommandEndsKeeps
<1>12. CASE Finish
  <2>1. exit' = "ok" => expect = <<>>
    BY <1>12 DEF Finish
  <2>2. exit' \in {"no", "ok", "barf", "scriptfail"}
    BY <1>12 DEF Finish
  <2> QED
    BY <1>12, <2>1, <2>2, ExitKeeps DEF Finish
<1>13. CASE UNCHANGED vars
  <2>1. TypeOK' /\ StackSound'
    BY <1>13 DEF IInv, TypeOK, StackSound, FrameSound, vars
  <2>2. (Verdicts => Verdicts') /\ (Failures => Failures')
    BY <1>13 DEF Verdicts, Failures, vars
  <2> QED
    BY <1>13, <2>1, <2>2 DEF IInv, vars
<1> QED
  BY <1>1, <1>2, <1>3, <1>4, <1>5, <1>6, <1>7, <1>8, <1>9, <1>10, <1>11, <1>12, <1>13 DEF Next

\* The invariant holds in every behaviour of the interpreter.
THEOREM IInvAlways == Spec => []IInv
<1> QED
  BY InitHolds, NextKeeps, PTL DEF Spec

\* What the post-command hook promises: once a command has been run, no expectation on
\* it is left on the list.
THEOREM ExpectationsAlwaysCleared == Spec => []ExpectationsCleared
<1>1. IInv => ExpectationsCleared
  <2> SUFFICES ASSUME IInv, NEW i \in DOMAIN expect,
                      NEW j \in Invocations(asked[expect[i].id])
               PROVE  ~runs[j].over
    BY DEF ExpectationsCleared, IInv
  <2>1. Pending(expect[i], asked, runs, stack)
    BY DEF IInv
  <2>2. j \in Calls(runs, asked[expect[i].id])
    BY DEF Invocations, Calls
  <2>3. PICK d \in DOMAIN stack : stack[d].no = j
    BY <2>1, <2>2 DEF Pending
  <2>4. FrameSound(stack[d], d, runs, expect)
    BY DEF IInv, StackSound
  <2> QED
    BY <2>3, <2>4 DEF FrameSound
<1> QED
  BY <1>1, IInvAlways, PTL

\* The first of the invocations of a command is the next time it was invoked.
LEMMA FirstIsNextTime ==
    ASSUME TypeOK, NEW a, NEW n \in DOMAIN runs, First(runs, a, n)
    PROVE  n \in Invocations(a) /\ NextTime(a) = n
<1>1. Invocations(a) = Calls(runs, a)
  BY DEF Invocations, Calls
<1>2. n \in Invocations(a) /\ \A j \in Invocations(a) : n <= j
  BY <1>1 DEF First
<1>3. NextTime(a) \in Invocations(a) /\ \A j \in Invocations(a) : NextTime(a) <= j
  BY <1>2 DEF NextTime
<1>4. \A j \in Invocations(a) : j \in Nat
  BY DEF Invocations, TypeOK
<1> QED
  BY <1>2, <1>3, <1>4

\* When nfsim -e exits with 0, every expectation was decided by the next run of its
\* command, as asked.
THEOREM PassAlwaysMeansFulfilled ==
    ASSUME NoSelf
    PROVE  Spec => []PassMeansFulfilled
<1>1. IInv => PassMeansFulfilled
  <2> SUFFICES ASSUME IInv, abort, exit = "ok", NEW k \in DOMAIN asked
               PROVE  /\ Invocations(asked[k]) # {}
                      /\ Seen(asked[k], NextTime(asked[k])) <=> ~asked[k].invert
    BY DEF PassMeansFulfilled
  <2>1. DOMAIN expect = {}
    BY DEF IInv
  <2>2. Verdict(asked[k], runs, stack)
    BY <2>1 DEF IInv, Verdicts
  <2>3. PICK n \in DOMAIN runs : /\ First(runs, asked[k], n)
                                 /\ SeenBy(runs, asked[k], n) <=> ~asked[k].invert
    BY <2>2 DEF Verdict
  <2>4. n \in Invocations(asked[k]) /\ NextTime(asked[k]) = n
    BY <2>3, FirstIsNextTime DEF IInv
  <2> QED
    BY <2>3, <2>4 DEF Seen, SeenBy
<1> QED
  BY <1>1, IInvAlways, PTL

\* When nfsim -e exits with 0, a command of the script failed only where an expectation
\* asked for it.
THEOREM FailureAlwaysMeansExpected ==
    ASSUME NoSelf
    PROVE  Spec => []FailureMeansExpected
<1>1. IInv => FailureMeansExpected
  <2> SUFFICES ASSUME IInv, abort, exit = "ok", NEW i \in DOMAIN runs,
                      runs[i].failed, runs[i].depth = 1
               PROVE  \E k \in DOMAIN asked :
                        /\ i \in Invocations(asked[k]) /\ NextTime(asked[k]) = i
                        /\ ~asked[k].invert /\ <<asked[k].pattern, "failed">> \in Matches
    BY DEF FailureMeansExpected
  <2>1. FailureAsked(asked, runs, i)
    BY DEF IInv, Failures
  <2>2. "failed" \in runs[i].lines
    BY <2>1, Zenon DEF FailureAsked
  <2>3. PICK k \in DOMAIN asked :
          First(runs, asked[k], i) /\ <<asked[k].pattern, "failed">> \in Matches
    BY <2>1, Zenon DEF FailureAsked
  <2>4. i \in Invocations(asked[k]) /\ NextTime(asked[k]) = i
    BY <2>3, FirstIsNextTime DEF IInv
  <2>5. DOMAIN expect = {}
    BY DEF IInv
  <2>6. Verdict(asked[k], runs, stack)
    BY <2>5 DEF IInv, Verdicts
  <2>7. PICK n \in DOMAIN runs : /\ First(runs, asked[k], n)
                                 /\ SeenBy(runs, asked[k], n) <=> ~asked[k].invert
    BY <2>6 DEF Verdict
  <2>8. n = i
    BY <2>4, <2>7, FirstIsNextTime DEF IInv
  <2>9. SeenBy(runs, asked[k], i)
    BY <2>2, <2>3 DEF SeenBy
  <2> QED
    BY <2>3, <2>4, <2>7, <2>8, <2>9
<1> QED
  BY <1>1, IInvAlways, PTL
=============================================================================
