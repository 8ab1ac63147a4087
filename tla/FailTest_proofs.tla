--------------------------- MODULE FailTest_proofs ---------------------------
(***************************************************************************)
(* Proofs about FailTest, for every program, every set of failure points   *)
(* and every bound.                                                        *)
(*                                                                         *)
(* ReportedOnce is not inductive by itself: that a crash is reported once  *)
(* rests on every process below the top of the stack still waiting, on     *)
(* nobody following a failure path in the first run, and on the replay     *)
(* never forking.  Stack says these three.                                 *)
(*                                                                         *)
(* EveryCombinationTried and ReplayReproduces speak of the end of a run.   *)
(* What holds on the way there is Ways: each process of the stack stands   *)
(* on a path through the program (Traced), its decisions are exactly the   *)
(* questions on that path that fork, in order (Aligned), each process is   *)
(* the failing side of the question its parent waits at (ChildOf), and a   *)
(* branch not yet taken belongs to a process that waits (Tried).           *)
(***************************************************************************)
EXTENDS FailTest, Lists_proofs, TLAPS

\* What the stack of processes looks like in each mode.
Stack ==
    /\ \A k \in 1..(Len(procs) - 1) : procs[k].status = "running"
    /\ mode = "record" => \A k \in 1..Len(procs) : procs[k].failpath = 0
    /\ mode # "record" => Len(procs) = 1
    /\ mode = "replay" => reports # <<>>

IInv == TypeOK /\ Stack /\ ReportedOnce

-----------------------------------------------------------------------------
(* What the steps of one process return. *)

\* Giving an answer keeps the status of a process and its place in the path.
LEMMA AnswerType ==
    ASSUME NEW p \in Process, NEW b \in BOOLEAN
    PROVE  /\ Answer(p, b) \in Process
           /\ Answer(p, b).status = p.status
           /\ Answer(p, b).failpath = p.failpath
<1> DEFINE h == Append(p.hist, b)
<1>1. p.hist \in Seq(BOOLEAN)
  BY DEF Process
<1>2. h \in Seq(BOOLEAN)
  BY <1>1, AppendProperties, Zenon
<1>3. Answer(p, b) = [p EXCEPT !.hist = h]
  BY Zenon DEF Answer
<1> HIDE DEF h
<1> QED
  BY <1>2, <1>3 DEF Process

\* A process that dies takes the status given.
LEMMA DieType ==
    ASSUME NEW p \in Process, NEW s \in Statuses
    PROVE  /\ Die(p, s) \in Process
           /\ Die(p, s).status = s
           /\ Die(p, s).failpath = p.failpath
BY DEF Die, Process

\* Passing one more failure point changes nothing else.
LEMMA CountType ==
    ASSUME NEW p \in Process
    PROVE  LET q == [p EXCEPT !.failpoints = @ + 1]
           IN  q \in Process /\ q.status = p.status /\ q.failpath = p.failpath
BY DEF Process

\* Storing one value of its type in a field.
LEMMA FieldUpdate ==
    ASSUME NEW p \in Process, NEW w \in BOOLEAN, NEW d \in Seq(Decision),
           NEW n \in Nat, NEW h \in Seq(BOOLEAN)
    PROVE  /\ [p EXCEPT !.warned = w] \in Process
           /\ [p EXCEPT !.decisions = d] \in Process
           /\ [p EXCEPT !.fails = n] \in Process
           /\ [p EXCEPT !.excessive_fails = n] \in Process
           /\ [p EXCEPT !.hist = h] \in Process
<1>1. [p EXCEPT !.warned = w] \in Process
  BY DEF Process
<1>2. [p EXCEPT !.decisions = d] \in Process
  BY DEF Process
<1>3. [p EXCEPT !.fails = n] \in Process
  BY DEF Process
<1>4. [p EXCEPT !.excessive_fails = n] \in Process
  BY DEF Process
<1>5. [p EXCEPT !.hist = h] \in Process
  BY DEF Process
<1> QED
  BY <1>1, <1>2, <1>3, <1>4, <1>5

\* Both sides of the fork keep the status and the failure path.
LEMMA ForkType ==
    ASSUME NEW p \in Process, NEW c \in CallOf
    PROVE  /\ Child(p, c) \in Process /\ Waiting(p, c) \in Process
           /\ Child(p, c).status = p.status /\ Waiting(p, c).status = p.status
           /\ Child(p, c).failpath = p.failpath
           /\ Waiting(p, c).failpath = p.failpath
<1>1. c.loc \in Loc /\ c.line \in 1..MaxLine
  BY FailTestAssumption DEF CallOf
<1> DEFINE dT == [loc |-> c.loc, line |-> c.line, failed |-> TRUE]
           dF == [loc |-> c.loc, line |-> c.line, failed |-> FALSE]
<1>2. dT \in Decision /\ dF \in Decision
  BY <1>1 DEF Decision
<1>3. /\ p.decisions \in Seq(Decision) /\ p.hist \in Seq(BOOLEAN)
      /\ p.fails \in Nat /\ p.excessive_fails \in Nat /\ p.failpoints \in Nat
      /\ p.warned \in BOOLEAN
  BY DEF Process
<1> DEFINE decT == Append(p.decisions, dT)
           decF == Append(p.decisions, dF)
           h == Append(p.hist, TRUE)
           w == p.warned \/ p.fails > p.excessive_fails
           f == IF c.loc \in NoReport THEN p.fails ELSE p.fails + 1
           e == IF c.op = "once" THEN p.excessive_fails + 1 ELSE p.excessive_fails
<1>4. decT \in Seq(Decision) /\ decF \in Seq(Decision)
  BY <1>2, <1>3, AppendProperties, Zenon
<1>5. h \in Seq(BOOLEAN)
  BY <1>3, AppendProperties, Zenon
<1>6. w \in BOOLEAN
  BY Zenon
<1>7. f \in Nat /\ e \in Nat
  BY <1>3
<1> DEFINE q1 == [p EXCEPT !.failpoints = @ + 1]
           q2 == [q1 EXCEPT !.warned = w]
           q3 == [q2 EXCEPT !.decisions = decT]
           q4 == [q3 EXCEPT !.fails = f]
           q5 == [q4 EXCEPT !.excessive_fails = e]
           q6 == [q5 EXCEPT !.hist = h]
           r3 == [q2 EXCEPT !.decisions = decF]
<1>8. q2 \in Process
  BY <1>6, CountType, FieldUpdate, <1>4, <1>5, <1>7, Zenon
<1>9. q6 \in Process /\ r3 \in Process
  <2> HIDE DEF q2
  <2> QED
    BY <1>4, <1>5, <1>6, <1>7, <1>8, FieldUpdate, ZenonT(60)
<1>10. Child(p, c) = q6 /\ Waiting(p, c) = r3
  BY Zenon DEF Child, Waiting
<1>11. /\ Child(p, c).status = p.status /\ Child(p, c).failpath = p.failpath
       /\ Waiting(p, c).status = p.status /\ Waiting(p, c).failpath = p.failpath
  BY DEF Child, Waiting, Process
<1> QED
  BY <1>9, <1>10, <1>11

\* A process that follows a path answers as the path says, or barfs.
LEMMA DoFailpathType ==
    ASSUME NEW p \in Process, NEW c \in CallOf,
           OrigFailpath \in Seq(Decision), p.failpath # 0, p.status = "running"
    PROVE  /\ DoFailpath(p, c) \in Process
           /\ DoFailpath(p, c).status \in {"running", "failure"}
<1>1. CASE p.failpath > Len(OrigFailpath)
  <2>1. /\ [p EXCEPT !.failpath = 0] \in Process
        /\ [p EXCEPT !.failpath = 0].status = "running"
    BY DEF Process
  <2> QED
    BY <1>1, <2>1, AnswerType DEF DoFailpath
<1>2. CASE ~(p.failpath > Len(OrigFailpath))
  <2> DEFINE d == OrigFailpath[p.failpath]
             q == [p EXCEPT !.failpath = @ + 1]
  <2>1. d \in Decision
    BY <1>2 DEF Process
  <2>2. d.failed \in BOOLEAN
    BY <2>1 DEF Decision
  <2>3. q \in Process /\ q.status = "running"
    BY SMTT(60) DEF Process
  <2>4. CASE d.loc = c.loc /\ d.line = c.line
    <3>1. DoFailpath(p, c) = Answer(q, d.failed)
      BY <1>2, <2>4 DEF DoFailpath
    <3> QED
      BY <2>2, <2>3, <3>1, AnswerType
  <2>5. CASE ~(d.loc = c.loc /\ d.line = c.line)
    <3>1. DoFailpath(p, c) = Die(p, "failure")
      BY <1>2, <2>5 DEF DoFailpath
    <3> QED
      BY <3>1, DieType DEF Statuses, Exits
  <2> QED
    BY <2>4, <2>5
<1> QED
  BY <1>1, <1>2

-----------------------------------------------------------------------------
(* The stack. *)

\* Replacing the top of the stack.
LEMMA ReplaceTop ==
    ASSUME procs \in Seq(Process), procs # <<>>, NEW q \in Process
    PROVE  LET s == [procs EXCEPT ![Top] = q]
           IN  /\ s \in Seq(Process) /\ Len(s) = Len(procs) /\ s # <<>>
               /\ s[Len(s)] = q
               /\ \A k \in 1..(Len(procs) - 1) : s[k] = procs[k]
BY DEF Top

\* A push on top of that.
LEMMA PushTop ==
    ASSUME procs \in Seq(Process), procs # <<>>, NEW q \in Process, NEW r \in Process
    PROVE  LET s == Append([procs EXCEPT ![Top] = q], r)
           IN  /\ s \in Seq(Process) /\ Len(s) = Len(procs) + 1 /\ s # <<>>
               /\ s[Len(s)] = r /\ s[Len(procs)] = q
               /\ \A k \in 1..(Len(procs) - 1) : s[k] = procs[k]
<1> DEFINE t == [procs EXCEPT ![Top] = q]
<1>1. /\ t \in Seq(Process) /\ Len(t) = Len(procs) /\ t[Len(procs)] = q
      /\ \A k \in 1..(Len(procs) - 1) : t[k] = procs[k]
  BY ReplaceTop
<1>2. Len(procs) \in Nat \ {0}
  OBVIOUS
<1> HIDE DEF t
<1>3. /\ Append(t, r) \in Seq(Process) /\ Len(Append(t, r)) = Len(procs) + 1
      /\ Append(t, r)[Len(procs) + 1] = r
      /\ \A k \in 1..Len(procs) : Append(t, r)[k] = t[k]
  BY <1>1
<1>4. /\ Append(t, r) # <<>> /\ Append(t, r)[Len(Append(t, r))] = r
      /\ Append(t, r)[Len(procs)] = q
      /\ \A k \in 1..(Len(procs) - 1) : Append(t, r)[k] = procs[k]
  BY <1>1, <1>2, <1>3
<1> QED
  BY <1>3, <1>4, Zenon DEF t

\* The top leaves and its parent becomes q.
LEMMA PopTop ==
    ASSUME procs \in Seq(Process), Top > 1, NEW q \in Process
    PROVE  LET s == [Waiters EXCEPT ![Top - 1] = q]
           IN  /\ s \in Seq(Process) /\ Len(s) = Len(procs) - 1 /\ s # <<>>
               /\ s[Len(s)] = q
               /\ \A k \in 1..(Len(procs) - 2) : s[k] = procs[k]
<1>1. /\ Waiters \in Seq(Process) /\ Len(Waiters) = Len(procs) - 1
      /\ \A k \in 1..(Len(procs) - 1) : Waiters[k] = procs[k]
  BY DEF Waiters, Top
<1>2. Len(procs) \in Nat /\ Len(procs) > 1
  BY DEF Top
<1> QED
  BY <1>1, <1>2 DEF Top

-----------------------------------------------------------------------------
(* Steps. *)

\* The run begins with one fresh process.
LEMMA InitIInv == Init => IInv
<1> SUFFICES ASSUME Init PROVE IInv
  OBVIOUS
<1>1. FreshProcess(0) \in Process
  BY FailTestAssumption DEF FreshProcess, Process
<1>2. TypeOK
  BY <1>1 DEF Init, TypeOK
<1>3. Len(procs) = 1 /\ procs[1] = FreshProcess(0) /\ Cur = FreshProcess(0)
  BY DEF Init, Cur, Top
<1>4. FreshProcess(0).status = "running" /\ FreshProcess(0).failpath = 0
  BY DEF FreshProcess
<1>5. Stack
  BY <1>3, <1>4 DEF Init, Stack
<1>6. ReportedOnce
  BY <1>3, <1>4 DEF Init, ReportedOnce
<1> QED
  BY <1>2, <1>5, <1>6 DEF IInv

\* What the running process can make of the stack.
LEMMA RunProcs ==
    ASSUME IInv, mode # "done", Cur.status = "running",
           NEW c \in CallOf \cup ExitOf,
           ShouldIFail(c) \/ ShouldIFailOnce(c) \/ Exit(c)
    PROVE  \/ \E q \in Process : /\ procs' = [procs EXCEPT ![Top] = q]
                                 /\ q.status # "silent"
                                 /\ mode = "record" => q.failpath = 0
           \/ /\ mode = "record"
              /\ \E q, r \in Process :
                    /\ procs' = Append([procs EXCEPT ![Top] = q], r)
                    /\ q.status = "running" /\ r.status = "running"
                    /\ q.failpath = 0 /\ r.failpath = 0
<1>1. Cur \in Process /\ (mode = "record" => Cur.failpath = 0)
  BY DEF IInv, TypeOK, Stack, Cur, Top
<1>2. CASE \/ ShouldIFail(c) /\ c.sup
           \/ /\ ShouldIFailOnce(c)
              /\ procs' = [procs EXCEPT ![Top] = Answer(Cur, FALSE)]
  <2>1. procs' = [procs EXCEPT ![Top] = Answer(Cur, FALSE)]
    BY <1>2 DEF ShouldIFail
  <2> QED
    BY <1>1, <2>1, AnswerType
<1>3. CASE /\ c.op # "exit" /\ Cur.failpath # 0
           /\ procs' = [procs EXCEPT ![Top] = DoFailpath(Cur, c)]
  <2>1. c \in CallOf
    BY <1>3 DEF ExitOf
  <2>2. mode = "replay" /\ reports # <<>>
    BY <1>1, <1>3 DEF IInv, TypeOK, Stack
  <2>3. OrigFailpath \in Seq(Decision)
    <3> DEFINE R == [path : Seq(Decision), status : Statuses]
    <3>1. reports \in Seq(R)
      BY DEF IInv, TypeOK
    <3>2. reports[1] \in R
      <4> HIDE DEF R
      <4> QED
        BY <2>2, <3>1
    <3> QED
      BY <3>2 DEF OrigFailpath
  <2>4. /\ DoFailpath(Cur, c) \in Process
        /\ DoFailpath(Cur, c).status \in {"running", "failure"}
    BY <1>1, <1>3, <2>1, <2>3, DoFailpathType
  <2> QED
    BY <1>3, <2>2, <2>4
<1>4. CASE c.op # "exit" /\ Cur.failpath = 0 /\ Inject(c)
  <2>1. c \in CallOf
    BY <1>4 DEF ExitOf
  <2>2. CASE mode = "record"
    <3>1. procs' = Append([procs EXCEPT ![Top] = Waiting(Cur, c)], Child(Cur, c))
      BY <1>4, <2>2 DEF Inject
    <3> QED
      BY <1>1, <1>4, <2>1, <2>2, <3>1, ForkType
  <2>3. CASE mode # "record"
    <3> DEFINE p == [Cur EXCEPT !.failpoints = @ + 1]
    <3>1. procs' = [procs EXCEPT ![Top] = Answer(p, FALSE)]
      BY <1>4, <2>3 DEF Inject
    <3>2. p \in Process /\ p.status = "running"
      BY <1>1, CountType
    <3> QED
      BY <2>3, <3>1, <3>2, AnswerType
  <2> QED
    BY <2>2, <2>3
<1>5. CASE Exit(c)
  <2>1. c \in ExitOf
    BY <1>5 DEF Exit, CallOf
  <2>2. c.how \in Exits /\ c.how \in Statuses
    BY <2>1, FailTestAssumption DEF ExitOf, Statuses
  <2>3. c.how # "silent"
    BY <2>2 DEF Exits
  <2>4. procs' = [procs EXCEPT ![Top] = Die(Cur, c.how)]
    BY <1>5 DEF Exit
  <2>5. /\ Die(Cur, c.how) \in Process /\ Die(Cur, c.how).status = c.how
        /\ Die(Cur, c.how).failpath = Cur.failpath
    BY <1>1, <2>2, DieType, Zenon
  <2> QED
    BY <1>1, <2>3, <2>4, <2>5
<1> QED
  BY <1>2, <1>3, <1>4, <1>5 DEF ShouldIFail, ShouldIFailOnce

\* The code under test moves on.
LEMMA RunIInv == IInv /\ Run => IInv'
<1> SUFFICES ASSUME IInv, Run PROVE IInv'
  OBVIOUS
<1>1. /\ mode \in {"record", "replay"} /\ Cur.status = "running"
      /\ UNCHANGED <<mode, reports, culprit>>
  BY DEF IInv, TypeOK, Run
<1>2. procs \in Seq(Process) /\ procs # <<>> /\ Len(procs) \in Nat \ {0}
  BY DEF IInv, TypeOK
<1>3. Cur \in Process /\ Cur.hist \in Seq(BOOLEAN)
  <2>1. Cur \in Process
    BY <1>2 DEF Cur, Top
  <2> QED
    BY <2>1 DEF Process
<1>4. PICK c \in CallOf \cup ExitOf :
        /\ prog' = [h \in DOMAIN prog \cup {Cur.hist} |->
                       IF h \in DOMAIN prog THEN prog[h] ELSE c]
        /\ ShouldIFail(c) \/ ShouldIFailOnce(c) \/ Exit(c)
  BY DEF Run, Possible, IInv, TypeOK
<1>5. \A h \in DOMAIN prog' : h \in Seq(BOOLEAN) /\ prog'[h] \in CallOf \cup ExitOf
  BY <1>3, <1>4 DEF IInv, TypeOK
<1>6. mode = "record" => reports = <<>>
  BY <1>1 DEF IInv, ReportedOnce
<1>7. /\ Len(reports) <= 1
      /\ mode = "replay" => Len(procs) = 1 /\ reports # <<>>
      /\ \A k \in 1..(Len(procs) - 1) : procs[k].status = "running"
      /\ mode = "record" => \A k \in 1..Len(procs) : procs[k].failpath = 0
  BY DEF IInv, ReportedOnce, Stack
<1>8. CASE \E q \in Process : /\ procs' = [procs EXCEPT ![Top] = q]
                              /\ q.status # "silent"
                              /\ mode = "record" => q.failpath = 0
  <2>1. PICK q \in Process : /\ procs' = [procs EXCEPT ![Top] = q]
                             /\ q.status # "silent"
                             /\ mode = "record" => q.failpath = 0
    BY <1>8
  <2>2. /\ procs' \in Seq(Process) /\ Len(procs') = Len(procs) /\ procs' # <<>>
        /\ procs'[Len(procs')] = q
        /\ \A k \in 1..(Len(procs) - 1) : procs'[k] = procs[k]
    BY <1>2, <2>1, ReplaceTop
  <2>3. TypeOK'
    BY <1>1, <1>5, <2>2 DEF IInv, TypeOK
  <2>4. Stack'
    BY <1>1, <1>2, <1>7, <2>1, <2>2 DEF Stack
  <2>5. ReportedOnce'
    BY <1>1, <1>6, <1>7, <2>1, <2>2 DEF ReportedOnce, Cur, Top
  <2> QED
    BY <2>3, <2>4, <2>5 DEF IInv
<1>9. CASE /\ mode = "record"
           /\ \E q, r \in Process :
                 /\ procs' = Append([procs EXCEPT ![Top] = q], r)
                 /\ q.status = "running" /\ r.status = "running"
                 /\ q.failpath = 0 /\ r.failpath = 0
  <2>1. PICK q \in Process, r \in Process :
                 /\ procs' = Append([procs EXCEPT ![Top] = q], r)
                 /\ q.status = "running" /\ r.status = "running"
                 /\ q.failpath = 0 /\ r.failpath = 0
    BY <1>9
  <2>2. /\ procs' \in Seq(Process) /\ Len(procs') = Len(procs) + 1 /\ procs' # <<>>
        /\ procs'[Len(procs')] = r /\ procs'[Len(procs)] = q
        /\ \A k \in 1..(Len(procs) - 1) : procs'[k] = procs[k]
    BY <1>2, <2>1, PushTop
  <2>3. TypeOK'
    BY <1>1, <1>5, <2>2 DEF IInv, TypeOK
  <2>4. Stack'
    <3>1. \A k \in 1..Len(procs) : procs'[k].status = "running"
      BY <1>2, <1>7, <2>1, <2>2
    <3>2. \A k \in 1..Len(procs') : procs'[k].failpath = 0
      BY <1>2, <1>7, <1>9, <2>1, <2>2
    <3> QED
      BY <1>1, <1>2, <1>9, <2>2, <3>1, <3>2 DEF Stack
  <2>5. ReportedOnce'
    BY <1>1, <1>6, <1>9, <2>1, <2>2 DEF ReportedOnce, Cur, Top
  <2> QED
    BY <2>3, <2>4, <2>5 DEF IInv
<1> QED
  BY <1>1, <1>4, <1>8, <1>9, RunProcs

\* waitpid returns: what the parent is left with, in both cases.
LEMMA ReapIInv == IInv /\ (ReapGood \/ ReapBad) => IInv'
<1> SUFFICES ASSUME IInv, ReapGood \/ ReapBad PROVE IInv'
  OBVIOUS
<1>1. Top > 1 /\ UNCHANGED <<mode, prog>>
  BY DEF ReapGood, ReapBad
<1>2. /\ procs \in Seq(Process) /\ procs # <<>>
      /\ Top = Len(procs) /\ Len(procs) \in Nat /\ Len(procs) > 1
  BY <1>1 DEF IInv, TypeOK, Top
<1>3. mode = "record"
  BY <1>2 DEF IInv, Stack
<1>4. /\ Cur \in Process /\ Parent \in Process
      /\ Parent.status = "running" /\ Parent.failpath = 0
  BY <1>2, <1>3 DEF IInv, Stack, Cur, Parent
<1>5. /\ Len(reports) <= 1
      /\ reports # <<>> <=> Cur.status = "silent"
      /\ \A k \in 1..(Len(procs) - 1) : procs[k].status = "running"
      /\ \A k \in 1..Len(procs) : procs[k].failpath = 0
  BY <1>3 DEF IInv, ReportedOnce, Stack
<1>6. ASSUME NEW q \in Process, procs' = [Waiters EXCEPT ![Top - 1] = q],
             q.failpath = 0,
             reports' \in Seq([path : Seq(Decision), status : Statuses]),
             Len(reports') <= 1, culprit' \in Process,
             reports' # <<>> <=> q.status = "silent"
      PROVE  IInv'
  <2>1. /\ procs' \in Seq(Process) /\ Len(procs') = Len(procs) - 1 /\ procs' # <<>>
        /\ procs'[Len(procs')] = q
        /\ \A k \in 1..(Len(procs) - 2) : procs'[k] = procs[k]
    BY <1>1, <1>2, <1>6, PopTop
  <2>2. TypeOK'
    BY <1>1, <1>6, <2>1 DEF IInv, TypeOK
  <2>3. Stack'
    <3>1. \A k \in 1..(Len(procs') - 1) : procs'[k].status = "running"
      BY <1>2, <1>5, <2>1
    <3>2. \A k \in 1..Len(procs') : procs'[k].failpath = 0
      <4>1. SUFFICES ASSUME NEW k \in 1..Len(procs') PROVE procs'[k].failpath = 0
        OBVIOUS
      <4>2. CASE k = Len(procs')
        <5>1. procs'[k] = q
          BY <2>1, <4>2, Zenon
        <5>2. q.failpath = 0
          BY <1>6, Zenon
        <5> QED
          BY <5>1, <5>2, Zenon
      <4>3. CASE k # Len(procs')
        <5>1. k \in 1..(Len(procs) - 2) /\ k \in 1..Len(procs)
          BY <1>2, <2>1, <4>3
        <5>2. procs'[k] = procs[k] /\ procs[k].failpath = 0
          BY <1>5, <2>1, <5>1, Zenon
        <5> QED
          BY <5>2, Zenon
      <4> QED
        BY <4>2, <4>3
    <3> QED
      BY <1>1, <1>3, <3>1, <3>2 DEF Stack
  <2>4. ReportedOnce'
    BY <1>1, <1>3, <1>6, <2>1 DEF ReportedOnce, Cur, Top
  <2> QED
    BY <2>2, <2>3, <2>4 DEF IInv
<1>7. CASE ReapGood
  <2>1. /\ procs' = [Waiters EXCEPT ![Top - 1] = Answer(Parent, FALSE)]
        /\ UNCHANGED <<reports, culprit>> /\ Cur.status # "silent"
    BY <1>7 DEF ReapGood
  <2>2. /\ Answer(Parent, FALSE) \in Process
        /\ Answer(Parent, FALSE).status = "running"
        /\ Answer(Parent, FALSE).failpath = 0
    BY <1>4, AnswerType
  <2>3. /\ reports' \in Seq([path : Seq(Decision), status : Statuses])
        /\ Len(reports') <= 1 /\ culprit' \in Process
    BY <1>5, <2>1 DEF IInv, TypeOK
  <2> QED
    BY <1>5, <1>6, <2>1, <2>2, <2>3
<1>8. CASE ReapBad
  <2>1. procs' = [Waiters EXCEPT ![Top - 1] = Die(Parent, "silent")]
    BY <1>8 DEF ReapBad
  <2>2. /\ Die(Parent, "silent") \in Process
        /\ Die(Parent, "silent").status = "silent"
        /\ Die(Parent, "silent").failpath = 0
    BY <1>4, DieType DEF Statuses
  <2>3. CASE Cur.status = "silent"
    <3>1. UNCHANGED <<reports, culprit>>
      BY <1>8, <2>3 DEF ReapBad
    <3>2. /\ reports' \in Seq([path : Seq(Decision), status : Statuses])
          /\ Len(reports') <= 1 /\ culprit' \in Process
      BY <1>5, <3>1 DEF IInv, TypeOK
    <3> QED
      BY <1>5, <1>6, <2>1, <2>2, <2>3, <3>1, <3>2
  <2>4. CASE Cur.status # "silent"
    <3> DEFINE path == [Parent.decisions EXCEPT ![Len(Parent.decisions)].failed = TRUE]
               rep == [path |-> path, status |-> Cur.status]
               R == [path : Seq(Decision), status : Statuses]
    <3>1. reports' = Append(reports, rep) /\ culprit' = Cur
      BY <1>8, <2>4 DEF ReapBad
    <3>2. path \in Seq(Decision)
      <4> DEFINE d == Parent.decisions
                 n == Len(d)
      <4>1. d \in Seq(Decision)
        BY <1>4 DEF Process
      <4>2. \A x \in Decision : [x EXCEPT !.failed = TRUE] \in Decision
        BY DEF Decision
      <4>3. CASE n \in 1..n
        BY <4>1, <4>2, <4>3, ExceptSeq
      <4>4. CASE n \notin 1..n
        <5>1. path = d
          BY <4>1, <4>4
        <5> QED
          BY <4>1, <5>1
      <4> QED
        BY <4>3, <4>4
    <3>3. Cur.status \in Statuses
      BY <1>8 DEF ReapBad, Statuses, Exits
    <3>4. rep \in R
      BY <3>2, <3>3
    <3>5. reports = <<>> /\ reports \in Seq(R)
      BY <1>5, <2>4 DEF IInv, TypeOK
    <3>6. reports' \in Seq(R) /\ Len(reports') = 1
      <4> HIDE DEF R, rep
      <4> QED
        BY <3>1, <3>4, <3>5
    <3>7. reports' # <<>>
      BY <3>6
    <3>8. culprit' \in Process
      BY <1>4, <3>1
    <3>9. Len(reports') <= 1
      BY <3>6
    <3> QED
      BY <1>6, <2>1, <2>2, <3>6, <3>7, <3>8, <3>9, Zenon
  <2> QED
    BY <2>3, <2>4
<1> QED
  BY <1>7, <1>8

\* Between the two runs and at the end.
LEMMA ModeIInv == IInv /\ (StartReplay \/ Finish) => IInv'
<1> SUFFICES ASSUME IInv, StartReplay \/ Finish PROVE IInv'
  OBVIOUS
<1>1. CASE StartReplay
  <2>1. FreshProcess(1) \in Process
    BY FailTestAssumption DEF FreshProcess, Process
  <2>2. /\ procs' = <<FreshProcess(1)>> /\ mode' = "replay" /\ reports # <<>>
        /\ UNCHANGED <<prog, reports, culprit>>
    BY <1>1 DEF StartReplay
  <2>3. TypeOK'
    BY <2>1, <2>2 DEF IInv, TypeOK
  <2>4. Stack'
    BY <2>2 DEF Stack
  <2>5. ReportedOnce'
    BY <2>2 DEF IInv, ReportedOnce
  <2> QED
    BY <2>3, <2>4, <2>5 DEF IInv
<1>2. CASE Finish
  <2>1. mode' = "done" /\ Len(procs) = 1 /\ UNCHANGED <<prog, procs, reports, culprit>>
    BY <1>2 DEF Finish, Top
  <2>2. TypeOK'
    BY <2>1 DEF IInv, TypeOK
  <2>3. Stack'
    BY <2>1 DEF IInv, Stack
  <2>4. ReportedOnce'
    BY <2>1 DEF IInv, ReportedOnce
  <2> QED
    BY <2>2, <2>3, <2>4 DEF IInv
<1> QED
  BY <1>1, <1>2

\* The inductive invariant.
THEOREM Invariance == Spec => []IInv
<1>1. IInv /\ [Next]_vars => IInv'
  <2>1. IInv /\ UNCHANGED vars => IInv'
    BY DEF IInv, TypeOK, Stack, ReportedOnce, Cur, Top, vars
  <2> QED
    BY <2>1, RunIInv, ReapIInv, ModeIInv DEF Next
<1> QED
  BY <1>1, InitIInv, PTL DEF Spec

\* Every variable keeps its type: in particular each process replays a path
\* only while there is one, and never reads past its end.
THEOREM TypeCorrect == Spec => []TypeOK
<1>1. IInv => TypeOK
  BY DEF IInv
<1> QED
  BY <1>1, Invariance, PTL

\* Whatever the code under test does, an error that injected failures provoke
\* is printed once and turns into EXIT_SILENT all the way up (should_i_fail).
THEOREM ErrorsReportedOnce == Spec => []ReportedOnce
<1>1. IInv => ReportedOnce
  BY DEF IInv
<1> QED
  BY <1>1, Invariance, PTL

-----------------------------------------------------------------------------
(* The moves of the running process. *)

\* The first run does not fork for this call.
Unasked(p, c) == c.sup \/ (c.op = "once" /\ AlreadyDecided(p, c.loc))

\* The replay takes no decision from its path for this call.
Skipped(p, c) == c.sup \/ (c.op = "once" /\ AlreadyReplayed(p, c.loc))

\* What a step of the code under test does to the program known so far and to the stack:
\* it exits, is answered without a fork, forks, or consults the path.
LEMMA RunMoves ==
    ASSUME IInv, Run
    PROVE  \E c \in CallOf \cup ExitOf :
             /\ prog' = [h \in DOMAIN prog \cup {Cur.hist} |->
                            IF h \in DOMAIN prog THEN prog[h] ELSE c]
             /\ Cur.hist \in DOMAIN prog => c = prog[Cur.hist]
             /\ \/ c \in ExitOf /\ procs' = [procs EXCEPT ![Top] = Die(Cur, c.how)]
                \/ /\ c \in CallOf /\ mode = "record" /\ Unasked(Cur, c)
                   /\ procs' = [procs EXCEPT ![Top] = Answer(Cur, FALSE)]
                \/ /\ c \in CallOf /\ mode = "record" /\ ~Unasked(Cur, c)
                   /\ procs' = Append([procs EXCEPT ![Top] = Waiting(Cur, c)], Child(Cur, c))
                \/ /\ c \in CallOf /\ mode = "replay" /\ Cur.failpath = 0
                   /\ \E q \in {Cur, [Cur EXCEPT !.failpoints = @ + 1]} :
                        procs' = [procs EXCEPT ![Top] = Answer(q, FALSE)]
                \/ /\ c \in CallOf /\ mode = "replay" /\ Cur.failpath # 0 /\ Skipped(Cur, c)
                   /\ procs' = [procs EXCEPT ![Top] = Answer(Cur, FALSE)]
                \/ /\ c \in CallOf /\ mode = "replay" /\ Cur.failpath # 0 /\ ~Skipped(Cur, c)
                   /\ procs' = [procs EXCEPT ![Top] = DoFailpath(Cur, c)]
<1>1. PICK c \in CallOf \cup ExitOf :
        /\ prog' = [h \in DOMAIN prog \cup {Cur.hist} |->
                       IF h \in DOMAIN prog THEN prog[h] ELSE c]
        /\ Cur.hist \in DOMAIN prog => c = prog[Cur.hist]
        /\ ShouldIFail(c) \/ ShouldIFailOnce(c) \/ Exit(c)
  BY DEF Run, Possible, IInv, TypeOK
<1>2. mode \in {"record", "replay"} /\ (mode = "record" => Cur.failpath = 0)
  BY DEF Run, IInv, TypeOK, Stack, Cur, Top
<1>3. CASE ShouldIFail(c)
  <2>1. c \in CallOf /\ c.op = "fail"
    BY <1>3 DEF ShouldIFail, ExitOf
  <2> QED
    BY <1>1, <1>2, <1>3, <2>1 DEF ShouldIFail, Inject, Unasked, Skipped
<1>4. CASE ShouldIFailOnce(c)
  <2>1. c \in CallOf /\ c.op = "once"
    BY <1>4 DEF ShouldIFailOnce, ExitOf
  <2> QED
    BY <1>1, <1>2, <1>4, <2>1 DEF ShouldIFailOnce, Inject, Unasked, Skipped
<1>5. CASE Exit(c)
  <2>1. c \in ExitOf
    BY <1>5 DEF Exit, CallOf
  <2> QED
    BY <1>1, <1>5, <2>1 DEF Exit
<1> QED
  BY <1>1, <1>3, <1>4, <1>5

-----------------------------------------------------------------------------
(* Counting failures. *)

Counted(d, n) == {i \in {j \in 1..n : d[j].failed} : d[i].loc \notin NoReport}
CountedOnce(d, n) == {i \in {j \in 1..n : d[j].failed} : d[i].loc \in OnceLoc}

Excess(d, n) == Cardinality(Counted(d, n)) > Excessive + Cardinality(CountedOnce(d, n))

Bit(b) == IF b THEN 1 ELSE 0

CountsRight(p) ==
    /\ p.fails = Cardinality(Counted(p.decisions, Len(p.decisions)))
    /\ p.excessive_fails = Excessive + Cardinality(CountedOnce(p.decisions, Len(p.decisions)))
    /\ p.warned => \E n \in 0..Len(p.decisions) : Excess(p.decisions, n)

\* Which failures are counted does not depend on decisions taken later; the next one
\* counts by itself.
LEMMA CountNext ==
    ASSUME NEW d \in Seq(Decision), NEW e \in Decision
    PROVE  /\ \A n \in 0..Len(d) : /\ Counted(Append(d, e), n) = Counted(d, n)
                                   /\ CountedOnce(Append(d, e), n) = CountedOnce(d, n)
           /\ Cardinality(Counted(d, Len(d))) \in Nat
           /\ Cardinality(CountedOnce(d, Len(d))) \in Nat
           /\ Cardinality(Counted(Append(d, e), Len(d) + 1)) =
                Cardinality(Counted(d, Len(d))) + Bit(e.failed /\ e.loc \notin NoReport)
           /\ Cardinality(CountedOnce(Append(d, e), Len(d) + 1)) =
                Cardinality(CountedOnce(d, Len(d))) + Bit(e.failed /\ e.loc \in OnceLoc)
<1> DEFINE n == Len(d)
           t == Append(d, e)
<1>1. n \in Nat /\ t[n + 1] = e /\ \A i \in 1..n : t[i] = d[i]
  OBVIOUS
<1> HIDE DEF t
<1>2. \A m \in 0..n : Counted(t, m) = Counted(d, m) /\ CountedOnce(t, m) = CountedOnce(d, m)
  BY <1>1 DEF Counted, CountedOnce
<1>3. /\ IsFiniteSet(Counted(d, n)) /\ n + 1 \notin Counted(d, n)
      /\ IsFiniteSet(CountedOnce(d, n)) /\ n + 1 \notin CountedOnce(d, n)
  <2>1. IsFiniteSet(1..n)
    BY <1>1, FS_Interval
  <2>2. Counted(d, n) \subseteq 1..n /\ CountedOnce(d, n) \subseteq 1..n
    BY DEF Counted, CountedOnce
  <2>3. n + 1 \notin 1..n
    BY <1>1
  <2> QED
    BY <2>1, <2>2, <2>3, FS_Subset
<1>4. /\ Counted(t, n + 1) = IF e.failed /\ e.loc \notin NoReport
                             THEN Counted(d, n) \cup {n + 1} ELSE Counted(d, n)
      /\ CountedOnce(t, n + 1) = IF e.failed /\ e.loc \in OnceLoc
                                 THEN CountedOnce(d, n) \cup {n + 1} ELSE CountedOnce(d, n)
  BY <1>1 DEF Counted, CountedOnce
<1>5. ASSUME NEW S, IsFiniteSet(S), n + 1 \notin S
      PROVE  Cardinality(S) \in Nat /\ Cardinality(S \cup {n + 1}) = Cardinality(S) + 1
  BY <1>5, FS_AddElement, FS_CardinalityType
<1>6. Cardinality(Counted(d, n)) \in Nat /\ Cardinality(CountedOnce(d, n)) \in Nat
  BY <1>3, <1>5
<1>7. /\ Cardinality(Counted(t, n + 1)) =
           Cardinality(Counted(d, n)) + Bit(e.failed /\ e.loc \notin NoReport)
      /\ Cardinality(CountedOnce(t, n + 1)) =
           Cardinality(CountedOnce(d, n)) + Bit(e.failed /\ e.loc \in OnceLoc)
  BY <1>3, <1>4, <1>5, <1>6 DEF Bit
<1> QED
  BY <1>2, <1>6, <1>7 DEF t

\* Processes that differ in nothing that is counted.
LEMMA CountsCarry ==
    ASSUME NEW p, NEW q, CountsRight(p), q.decisions = p.decisions, q.fails = p.fails,
           q.excessive_fails = p.excessive_fails, q.warned = p.warned
    PROVE  CountsRight(q)
BY DEF CountsRight

\* What a fork leaves in the fields.
LEMMA ForkFields ==
    ASSUME NEW p \in Process, NEW c \in CallOf
    PROVE  /\ Child(p, c).decisions =
                Append(p.decisions, [loc |-> c.loc, line |-> c.line, failed |-> TRUE])
           /\ Child(p, c).fails = IF c.loc \in NoReport THEN p.fails ELSE p.fails + 1
           /\ Child(p, c).excessive_fails =
                IF c.op = "once" THEN p.excessive_fails + 1 ELSE p.excessive_fails
           /\ Child(p, c).warned = (p.warned \/ p.fails > p.excessive_fails)
           /\ Child(p, c).hist = Append(p.hist, TRUE)
           /\ Waiting(p, c).decisions =
                Append(p.decisions, [loc |-> c.loc, line |-> c.line, failed |-> FALSE])
           /\ Waiting(p, c).fails = p.fails
           /\ Waiting(p, c).excessive_fails = p.excessive_fails
           /\ Waiting(p, c).warned = (p.warned \/ p.fails > p.excessive_fails)
           /\ Waiting(p, c).hist = p.hist
BY DEF Child, Waiting, Process

\* Both sides of a fork count right.
LEMMA ForkCounts ==
    ASSUME NEW p \in Process, NEW c \in CallOf, CountsRight(p)
    PROVE  CountsRight(Child(p, c)) /\ CountsRight(Waiting(p, c))
<1>1. c.loc \in Loc /\ c.line \in 1..MaxLine /\ (c.op = "once" <=> c.loc \in OnceLoc)
  BY FailTestAssumption DEF CallOf
<1>2. /\ p.decisions \in Seq(Decision) /\ Len(p.decisions) \in Nat
      /\ p.fails \in Nat /\ p.excessive_fails \in Nat /\ p.warned \in BOOLEAN
  BY DEF Process
<1>3. ASSUME NEW q, NEW f \in BOOLEAN,
             q.decisions = Append(p.decisions, [loc |-> c.loc, line |-> c.line, failed |-> f]),
             q.warned = (p.warned \/ p.fails > p.excessive_fails),
             q.fails = p.fails + Bit(f /\ c.loc \notin NoReport),
             q.excessive_fails = p.excessive_fails + Bit(f /\ c.loc \in OnceLoc)
      PROVE  CountsRight(q)
  <2>1. PICK d : d = p.decisions
    OBVIOUS
  <2>2. PICK e : e = [loc |-> c.loc, line |-> c.line, failed |-> f]
    OBVIOUS
  <2>3. e \in Decision /\ e.failed = f /\ e.loc = c.loc
    BY <1>1, <2>2 DEF Decision
  <2>4. q.decisions = Append(d, e) /\ d \in Seq(Decision) /\ Len(d) \in Nat
        /\ Len(q.decisions) = Len(d) + 1
    BY <1>2, <1>3, <2>1, <2>2, <2>3
  <2>5. /\ p.fails = Cardinality(Counted(d, Len(d)))
        /\ p.excessive_fails = Excessive + Cardinality(CountedOnce(d, Len(d)))
        /\ p.warned => \E n \in 0..Len(d) : Excess(d, n)
    BY <2>1 DEF CountsRight
  <2>6. \A n \in 0..Len(d) : Excess(d, n) => Excess(q.decisions, n)
    BY <2>3, <2>4, CountNext DEF Excess
  <2>7. q.warned => \E n \in 0..(Len(d) + 1) : Excess(q.decisions, n)
    <3>1. CASE p.warned
      BY <2>4, <2>5, <2>6, <3>1
    <3>2. CASE p.fails > p.excessive_fails
      <4>1. Excess(d, Len(d))
        BY <2>5, <3>2 DEF Excess
      <4> QED
        BY <2>4, <2>6, <4>1
    <3> QED
      BY <1>3, <3>1, <3>2
  <2>8. /\ q.fails = Cardinality(Counted(q.decisions, Len(q.decisions)))
        /\ q.excessive_fails =
             Excessive + Cardinality(CountedOnce(q.decisions, Len(q.decisions)))
    <3>1. /\ Cardinality(Counted(d, Len(d))) \in Nat
          /\ Cardinality(CountedOnce(d, Len(d))) \in Nat
          /\ Cardinality(Counted(Append(d, e), Len(d) + 1)) =
               Cardinality(Counted(d, Len(d))) + Bit(e.failed /\ e.loc \notin NoReport)
          /\ Cardinality(CountedOnce(Append(d, e), Len(d) + 1)) =
               Cardinality(CountedOnce(d, Len(d))) + Bit(e.failed /\ e.loc \in OnceLoc)
      BY <2>3, <2>4, CountNext
    <3>2. /\ Bit(e.failed /\ e.loc \notin NoReport) = Bit(f /\ c.loc \notin NoReport)
          /\ Bit(e.failed /\ e.loc \in OnceLoc) = Bit(f /\ c.loc \in OnceLoc)
          /\ Bit(f /\ c.loc \in OnceLoc) \in Nat
      BY <2>3 DEF Bit
    <3>3. \A x, y \in Nat : (Excessive + x) + y = Excessive + (x + y)
      BY FailTestAssumption
    <3>4. /\ Cardinality(Counted(q.decisions, Len(q.decisions))) =
               Cardinality(Counted(d, Len(d))) + Bit(f /\ c.loc \notin NoReport)
          /\ Cardinality(CountedOnce(q.decisions, Len(q.decisions))) =
               Cardinality(CountedOnce(d, Len(d))) + Bit(f /\ c.loc \in OnceLoc)
      BY <2>4, <3>1, <3>2, Zenon
    <3>5. /\ q.fails = Cardinality(Counted(d, Len(d))) + Bit(f /\ c.loc \notin NoReport)
          /\ q.excessive_fails = (Excessive + Cardinality(CountedOnce(d, Len(d))))
                                   + Bit(f /\ c.loc \in OnceLoc)
      BY <1>3, <2>5, Zenon
    <3>6. (Excessive + Cardinality(CountedOnce(d, Len(d)))) + Bit(f /\ c.loc \in OnceLoc)
            = Excessive + (Cardinality(CountedOnce(d, Len(d))) + Bit(f /\ c.loc \in OnceLoc))
      BY <3>1, <3>2, <3>3, Zenon
    <3> QED
      BY <3>4, <3>5, <3>6, Zenon
  <2> QED
    BY <2>4, <2>7, <2>8 DEF CountsRight
<1>4. CountsRight(Child(p, c))
  <2>1. /\ Child(p, c).fails = p.fails + Bit(TRUE /\ c.loc \notin NoReport)
        /\ Child(p, c).excessive_fails = p.excessive_fails + Bit(TRUE /\ c.loc \in OnceLoc)
    <3>1. /\ Child(p, c).fails = IF c.loc \in NoReport THEN p.fails ELSE p.fails + 1
          /\ Child(p, c).excessive_fails =
               IF c.op = "once" THEN p.excessive_fails + 1 ELSE p.excessive_fails
      BY ForkFields, Zenon
    <3> QED
      BY <1>1, <1>2, <3>1 DEF Bit
  <2> QED
    BY <1>3, <2>1, ForkFields, Zenon
<1>5. CountsRight(Waiting(p, c))
  <2>1. /\ Waiting(p, c).fails = p.fails + Bit(FALSE /\ c.loc \notin NoReport)
        /\ Waiting(p, c).excessive_fails = p.excessive_fails + Bit(FALSE /\ c.loc \in OnceLoc)
    <3>1. Waiting(p, c).fails = p.fails /\ Waiting(p, c).excessive_fails = p.excessive_fails
      BY ForkFields, Zenon
    <3> QED
      BY <1>2, <3>1 DEF Bit
  <2> QED
    BY <1>3, <2>1, ForkFields, Zenon
<1> QED
  BY <1>4, <1>5

\* The path given with --failpath is a sequence of decisions.
LEMMA PathType ==
    ASSUME IInv, reports # <<>>
    PROVE  OrigFailpath \in Seq(Decision) /\ Len(reports) = 1
<1> DEFINE R == [path : Seq(Decision), status : Statuses]
<1>1. reports \in Seq(R) /\ Len(reports) <= 1
  BY DEF IInv, TypeOK, ReportedOnce
<1>2. reports[1] \in R /\ Len(reports) = 1
  <2> HIDE DEF R
  <2> QED
    BY <1>1
<1> QED
  BY <1>2 DEF OrigFailpath

\* Everything but a fork leaves alone what is counted.
SameCounts(p, q) ==
    /\ q.decisions = p.decisions /\ q.fails = p.fails
    /\ q.excessive_fails = p.excessive_fails /\ q.warned = p.warned

\* An answer only adds to the history.
LEMMA AnswerFields ==
    ASSUME NEW p \in Process, NEW b
    PROVE  /\ SameCounts(p, Answer(p, b)) /\ Answer(p, b).hist = Append(p.hist, b)
           /\ Answer(p, b).failpath = p.failpath /\ Answer(p, b).status = p.status
BY DEF Answer, Process, SameCounts

\* Dying only sets the status.
LEMMA DieFields ==
    ASSUME NEW p \in Process, NEW s
    PROVE  /\ SameCounts(p, Die(p, s)) /\ Die(p, s).hist = p.hist /\ Die(p, s).status = s
           /\ Die(p, s).failpath = p.failpath
BY DEF Die, Process, SameCounts

\* Setting failpoints or failpath leaves the other fields alone.
LEMMA NumberFields ==
    ASSUME NEW p \in Process, NEW n \in Nat
    PROVE  /\ [p EXCEPT !.failpoints = n] \in Process /\ SameCounts(p, [p EXCEPT !.failpoints = n])
           /\ [p EXCEPT !.failpoints = n].hist = p.hist
           /\ [p EXCEPT !.failpoints = n].failpath = p.failpath
           /\ [p EXCEPT !.failpoints = n].status = p.status
           /\ [p EXCEPT !.failpath = n] \in Process /\ SameCounts(p, [p EXCEPT !.failpath = n])
           /\ [p EXCEPT !.failpath = n].hist = p.hist
           /\ [p EXCEPT !.failpath = n].failpath = n
           /\ [p EXCEPT !.failpath = n].status = p.status
BY DEF Process, SameCounts

\* A replayed decision is not counted.
LEMMA DoFailpathCounts ==
    ASSUME NEW p \in Process, NEW c PROVE SameCounts(p, DoFailpath(p, c))
<1>1. p.failpath \in Nat /\ p.failpath + 1 \in Nat /\ 0 \in Nat
  BY DEF Process
<1>2. CASE p.failpath > Len(OrigFailpath)
  <2>1. DoFailpath(p, c) = Answer([p EXCEPT !.failpath = 0], FALSE)
    BY <1>2, Zenon DEF DoFailpath
  <2>2. PICK q : q = [p EXCEPT !.failpath = 0]
    OBVIOUS
  <2>3. q \in Process /\ SameCounts(p, q)
    BY <1>1, <2>2, NumberFields
  <2>4. SameCounts(q, Answer(q, FALSE)) /\ DoFailpath(p, c) = Answer(q, FALSE)
    BY <2>1, <2>2, <2>3, AnswerFields
  <2> QED
    BY <2>3, <2>4 DEF SameCounts
<1>3. CASE ~(p.failpath > Len(OrigFailpath))
  <2>1. PICK d : d = OrigFailpath[p.failpath]
    OBVIOUS
  <2>2. PICK q : q = [p EXCEPT !.failpath = @ + 1]
    OBVIOUS
  <2>3. DoFailpath(p, c) \in {Answer(q, d.failed), Die(p, "failure")}
    BY <1>3, <2>1, <2>2, Zenon DEF DoFailpath
  <2>4. q \in Process /\ SameCounts(p, q)
    BY <1>1, <2>2, NumberFields
  <2> QED
    BY <2>3, <2>4, AnswerFields, DieFields DEF SameCounts
<1> QED
  BY <1>2, <1>3

AllCount == \A k \in 1..Len(procs) : CountsRight(procs[k])

\* A step of the code under test keeps the counters of all processes right.
LEMMA RunCounts == IInv /\ AllCount /\ Run => AllCount'
<1> SUFFICES ASSUME IInv, AllCount, Run PROVE AllCount'
  OBVIOUS
<1>1. procs \in Seq(Process) /\ procs # <<>> /\ Len(procs) \in Nat \ {0}
  BY DEF IInv, TypeOK
<1>2. Cur \in Process /\ CountsRight(Cur)
  BY <1>1 DEF Cur, Top, AllCount
<1>3. ASSUME NEW q \in Process, SameCounts(Cur, q), procs' = [procs EXCEPT ![Top] = q]
      PROVE  AllCount'
  <2>1. CountsRight(q)
    BY <1>2, <1>3, CountsCarry DEF SameCounts
  <2>2. /\ Len(procs') = Len(procs) /\ procs'[Len(procs)] = q
        /\ \A k \in 1..(Len(procs) - 1) : procs'[k] = procs[k]
    BY <1>1, <1>3, ReplaceTop
  <2> QED
    BY <1>1, <2>1, <2>2 DEF AllCount
<1>4. ASSUME NEW c \in CallOf,
             procs' = Append([procs EXCEPT ![Top] = Waiting(Cur, c)], Child(Cur, c))
      PROVE  AllCount'
  <2>1. PICK q, r : q = Waiting(Cur, c) /\ r = Child(Cur, c)
    OBVIOUS
  <2>2. q \in Process /\ r \in Process /\ CountsRight(q) /\ CountsRight(r)
    BY <1>2, <2>1, ForkType, ForkCounts
  <2>3. /\ Len(procs') = Len(procs) + 1 /\ procs'[Len(procs) + 1] = r /\ procs'[Len(procs)] = q
        /\ \A k \in 1..(Len(procs) - 1) : procs'[k] = procs[k]
    BY <1>1, <1>4, <2>1, <2>2, PushTop
  <2> QED
    BY <1>1, <2>2, <2>3 DEF AllCount
<1>5. /\ Answer(Cur, FALSE) \in Process /\ SameCounts(Cur, Answer(Cur, FALSE))
      /\ \A s \in Statuses : Die(Cur, s) \in Process /\ SameCounts(Cur, Die(Cur, s))
  BY <1>2, AnswerType, AnswerFields, DieType, DieFields
<1>6. ASSUME NEW q, q = [Cur EXCEPT !.failpoints = @ + 1]
      PROVE  Answer(q, FALSE) \in Process /\ SameCounts(Cur, Answer(q, FALSE))
  <2>1. Cur.failpoints + 1 \in Nat
    BY <1>2 DEF Process
  <2>2. q \in Process /\ SameCounts(Cur, q)
    BY <1>2, <1>6, <2>1, NumberFields
  <2> QED
    BY <2>2, AnswerType, AnswerFields DEF SameCounts
<1>7. ASSUME NEW c \in CallOf, mode = "replay", Cur.failpath # 0
      PROVE  DoFailpath(Cur, c) \in Process /\ SameCounts(Cur, DoFailpath(Cur, c))
  <2>1. OrigFailpath \in Seq(Decision)
    BY <1>7, PathType DEF IInv, Stack
  <2>2. Cur.status = "running"
    BY DEF Run
  <2> QED
    BY <1>2, <1>7, <2>1, <2>2, DoFailpathType, DoFailpathCounts
<1>8. \A c \in ExitOf : c.how \in Statuses
  BY FailTestAssumption DEF ExitOf, Statuses
<1> QED
  BY <1>3, <1>4, <1>5, <1>6, <1>7, <1>8, RunMoves

\* So does the end of a child.
LEMMA ReapCounts == IInv /\ AllCount /\ (ReapGood \/ ReapBad) => AllCount'
<1> SUFFICES ASSUME IInv, AllCount, ReapGood \/ ReapBad PROVE AllCount'
  OBVIOUS
<1>1. /\ procs \in Seq(Process) /\ Top > 1
      /\ Top = Len(procs) /\ Len(procs) \in Nat /\ Len(procs) > 1
  <2>1. Top > 1
    BY DEF ReapGood, ReapBad
  <2> QED
    BY <2>1 DEF IInv, TypeOK, Top
<1>2. Parent \in Process /\ CountsRight(Parent)
  BY <1>1 DEF Parent, AllCount
<1>3. PICK q \in {Answer(Parent, FALSE), Die(Parent, "silent")} :
        procs' = [Waiters EXCEPT ![Top - 1] = q]
  BY DEF ReapGood, ReapBad
<1>4. q \in Process /\ SameCounts(Parent, q)
  BY <1>2, <1>3, AnswerType, AnswerFields, DieType, DieFields DEF Statuses
<1>5. CountsRight(q)
  BY <1>2, <1>4, CountsCarry DEF SameCounts
<1>6. /\ Len(procs') = Len(procs) - 1 /\ procs'[Len(procs')] = q
      /\ \A k \in 1..(Len(procs) - 2) : procs'[k] = procs[k]
  BY <1>1, <1>3, <1>4, PopTop
<1> QED
  BY <1>1, <1>5, <1>6 DEF AllCount

\* A fresh process has counted nothing.
LEMMA FreshCounts == \A fp : CountsRight(FreshProcess(fp))
<1>1. Counted(<<>>, 0) = {} /\ CountedOnce(<<>>, 0) = {}
  BY DEF Counted, CountedOnce
<1>2. Cardinality({}) = 0
  BY FS_EmptySet
<1> SUFFICES ASSUME NEW fp PROVE CountsRight(FreshProcess(fp))
  OBVIOUS
<1>3. PICK p : p = FreshProcess(fp)
  OBVIOUS
<1>4. /\ p.decisions = <<>> /\ Len(p.decisions) = 0 /\ p.fails = 0 /\ ~p.warned
      /\ p.excessive_fails = Excessive
  BY <1>3 DEF FreshProcess
<1>5. Excessive + 0 = Excessive
  BY FailTestAssumption
<1>6. /\ p.fails = Cardinality(Counted(p.decisions, Len(p.decisions)))
      /\ p.excessive_fails = Excessive + Cardinality(CountedOnce(p.decisions, Len(p.decisions)))
  BY <1>1, <1>2, <1>4, <1>5, Zenon
<1> QED
  BY <1>3, <1>4, <1>6, Zenon DEF CountsRight

\* The counters every forked copy takes along are right in each of them, and only a run
\* that had ignored too many failures is warned about (should_i_fail).
THEOREM FailuresAlwaysCounted == Spec => []FailuresCounted
<1>1. Init => AllCount
  BY FreshCounts DEF Init, AllCount
<1>2. IInv /\ AllCount /\ [Next]_vars => AllCount'
  <2>1. AllCount /\ UNCHANGED vars => AllCount'
    BY DEF AllCount, vars
  <2>2. AllCount /\ Finish => AllCount'
    BY DEF AllCount, Finish
  <2>3. AllCount /\ StartReplay => AllCount'
    BY FreshCounts DEF AllCount, StartReplay
  <2> QED
    BY <2>1, <2>2, <2>3, RunCounts, ReapCounts DEF Next
<1>3. AllCount => FailuresCounted
  BY DEF AllCount, CountsRight, FailuresCounted, Counted, CountedOnce, Excess, Top
<1> QED
  BY <1>1, <1>2, <1>3, Invariance, PTL DEF Spec

-----------------------------------------------------------------------------
(* What the processes of the first run know about the way they came.       *)
(*                                                                         *)
(* A history h is the answers a process has had; Pre(h, j) are the first j *)
(* of them, and P[Pre(h, j)] is the question that was answered next.  The  *)
(* decisions of a process stand for the questions it was really asked, in  *)
(* their order: at gives the place of each.                                *)

Pre(h, j) == SubSeq(h, 1, j)

\* The question at place j is one that forks: it is not suppressed, and a once-only point
\* has not come up before.
AsksAt(P, h, j) ==
    /\ ~P[Pre(h, j)].sup
    /\ P[Pre(h, j)].op = "once" =>
         \A i \in 0..(j - 1) : P[Pre(h, i)].loc = P[Pre(h, j)].loc => P[Pre(h, i)].sup

\* All along the way there were questions; those that did not fork were answered FALSE.
Traced(P, h) ==
    \A j \in 0..(Len(h) - 1) :
        /\ Pre(h, j) \in DOMAIN P /\ P[Pre(h, j)] \in CallOf
        /\ ~AsksAt(P, h, j) => ~h[j + 1]

\* The decisions d are those of the first n questions.
Aligned(P, h, d, at, n) ==
    /\ \A i \in 1..Len(d) : at[i] \in 0..(n - 1)
    /\ \A i, k \in 1..Len(d) : i < k => at[i] < at[k]
    /\ \A j \in 0..(n - 1) : AsksAt(P, h, j) => \E i \in 1..Len(d) : at[i] = j
    /\ \A i \in 1..Len(d) :
         /\ AsksAt(P, h, at[i])
         /\ d[i].loc = P[Pre(h, at[i])].loc /\ d[i].line = P[Pre(h, at[i])].line
         /\ at[i] < Len(h) => d[i].failed = h[at[i] + 1]
         /\ ~(at[i] < Len(h)) => ~d[i].failed

Decided(P, h, d, n) == \E at \in [1..Len(d) -> 0..(n - 1)] : Aligned(P, h, d, at, n)

\* q is the child that p waits for: it failed where p stands, and nowhere since.
ChildOf(P, p, q) ==
    /\ p.hist \in DOMAIN P /\ P[p.hist] \in CallOf /\ AsksAt(P, p.hist, Len(p.hist))
    /\ Len(p.hist) < Len(q.hist) /\ Pre(q.hist, Len(p.hist)) = p.hist
    /\ q.hist[Len(p.hist) + 1]
    /\ \A j \in (Len(p.hist) + 1)..(Len(q.hist) - 1) : ~q.hist[j + 1]

\* A process has come to the end the code under test has for it.
Ended(P, p) == p.hist \in DOMAIN P /\ P[p.hist] \in ExitOf /\ P[p.hist].how = p.status

Exploring == mode = "record" /\ reports = <<>>

\* What is true of a process that waits for its child, and of the one that runs.
Waits(P, p) == Traced(P, p.hist) /\ Decided(P, p.hist, p.decisions, Len(p.hist) + 1)

Goes(P, p) ==
    /\ Traced(P, p.hist) /\ Decided(P, p.hist, p.decisions, Len(p.hist))
    /\ p.status # "running" => Ended(P, p)

\* The stack S of processes is a way down: only the first process never had a failure.
WayDown(P, S) ==
    /\ \A k \in 1..(Len(S) - 1) : Waits(P, S[k]) /\ ChildOf(P, S[k], S[k + 1])
    /\ Goes(P, S[Len(S)])
    /\ \A j \in 1..Len(S[1].hist) : ~S[1].hist[j]

Recorded == Exploring => WayDown(prog, procs)

Forks(P, h) == P[h] \in CallOf /\ AsksAt(P, h, Len(h))

Past(P, h) == \A j \in 0..(Len(h) - 1) : Pre(h, j) \in DOMAIN P /\ P[Pre(h, j)] \in CallOf

\* Both answers of a question that forks are tried, now or by a process that waits, and
\* a bad end after a failure is the end of the running process.
Tried(P, S, h) ==
    /\ Forks(P, h) =>
         /\ \/ Append(h, TRUE) \in DOMAIN P
            \/ S[Len(S)].status = "running" /\ S[Len(S)].hist = Append(h, TRUE)
         /\ \/ Append(h, FALSE) \in DOMAIN P
            \/ S[Len(S)].status = "running" /\ S[Len(S)].hist = Append(h, FALSE)
            \/ \E k \in 1..(Len(S) - 1) : S[k].hist = h
    /\ P[h] \in ExitOf /\ (\E i \in DOMAIN h : h[i]) =>
         \/ P[h].how \in {"success", "scriptfail"}
         \/ S[Len(S)].hist = h /\ S[Len(S)].status = P[h].how

Known(P, S) == \A h \in DOMAIN P : h \in Seq(BOOLEAN) /\ Past(P, h) /\ Tried(P, S, h)

Explored == Exploring => Known(prog, procs)

\* The first n questions on the way of the culprit are the printed path, and nothing
\* failed on its way after them.
PathOf(P, h, d, at, n) ==
    /\ Aligned(P, h, d, at, n)
    /\ \A j \in n..(Len(h) - 1) : ~h[j + 1]

Culprit(P, q, d) ==
    /\ Traced(P, q.hist) /\ Ended(P, q)
    /\ \E n \in 1..Len(q.hist) : \E at \in [1..Len(d) -> 0..(n - 1)] : PathOf(P, q.hist, d, at, n)

Printed == reports # <<>> => Culprit(prog, culprit, OrigFailpath)

Ways == Recorded /\ Explored /\ Printed /\ EveryCombinationTried

-----------------------------------------------------------------------------
(* Histories and their beginnings. *)

\* The beginnings of a history are histories; a beginning of a beginning is one of its own.
LEMMA PreProperties ==
    ASSUME NEW h \in Seq(BOOLEAN)
    PROVE  /\ Pre(h, Len(h)) = h
           /\ \A j \in 0..Len(h) :
                /\ Pre(h, j) \in Seq(BOOLEAN) /\ Len(Pre(h, j)) = j
                /\ \A i \in 1..j : Pre(h, j)[i] = h[i]
                /\ \A i \in 0..j : Pre(Pre(h, j), i) = Pre(h, i)
<1>1. Len(h) \in Nat
  OBVIOUS
<1>2. Pre(h, Len(h)) = h
  BY SubSeqFull DEF Pre
<1>3. ASSUME NEW j \in 0..Len(h)
      PROVE  /\ Pre(h, j) \in Seq(BOOLEAN) /\ Len(Pre(h, j)) = j
             /\ \A i \in 1..j : Pre(h, j)[i] = h[i]
  BY <1>1, SubSeqProperties DEF Pre
<1>4. ASSUME NEW j \in 0..Len(h), NEW i \in 0..j PROVE Pre(Pre(h, j), i) = Pre(h, i)
  <2>1. i \in 0..Len(h) /\ i \in 0..Len(Pre(h, j)) /\ i \in Nat /\ j \in Nat
    BY <1>1, <1>3
  <2>2. /\ Pre(h, i) \in Seq(BOOLEAN) /\ Len(Pre(h, i)) = i
        /\ \A k \in 1..i : Pre(h, i)[k] = h[k]
    BY <1>3, <2>1
  <2>3. /\ Pre(Pre(h, j), i) \in Seq(BOOLEAN) /\ Len(Pre(Pre(h, j), i)) = i
        /\ \A k \in 1..i : Pre(Pre(h, j), i)[k] = Pre(h, j)[k]
    BY <1>3, <2>1, SubSeqProperties DEF Pre
  <2>4. \A k \in 1..i : Pre(h, j)[k] = h[k]
    BY <1>3, <2>1
  <2>5. \A k \in 1..i : Pre(Pre(h, j), i)[k] = Pre(h, i)[k]
    BY <2>2, <2>3, <2>4
  <2> QED
    BY <2>2, <2>3, <2>5, SeqEqual
<1> QED
  BY <1>2, <1>3, <1>4

\* g has one more answer than h.
OneMore(h, b, g) == g = Append(h, b)

\* One more answer leaves the beginnings of a history as they were.
LEMMA PreAppend ==
    ASSUME NEW h \in Seq(BOOLEAN), NEW b \in BOOLEAN, NEW g, OneMore(h, b, g)
    PROVE  /\ g \in Seq(BOOLEAN) /\ Len(g) = Len(h) + 1 /\ g[Len(h) + 1] = b
           /\ \A j \in 1..Len(h) : g[j] = h[j]
           /\ \A j \in 0..Len(h) : Pre(g, j) = Pre(h, j)
<1>1. /\ g \in Seq(BOOLEAN) /\ Len(g) = Len(h) + 1 /\ g[Len(h) + 1] = b
      /\ \A j \in 1..Len(h) : g[j] = h[j]
  BY AppendProperties DEF OneMore
<1>2. Len(h) \in Nat
  OBVIOUS
<1>3. ASSUME NEW j \in 0..Len(h) PROVE Pre(g, j) = Pre(h, j)
  <2>1. j \in 0..Len(g)
    BY <1>1, <1>2
  <2>2. /\ Pre(h, j) \in Seq(BOOLEAN) /\ Len(Pre(h, j)) = j
        /\ \A i \in 1..j : Pre(h, j)[i] = h[i]
    BY PreProperties
  <2>3. /\ Pre(g, j) \in Seq(BOOLEAN) /\ Len(Pre(g, j)) = j
        /\ \A i \in 1..j : Pre(g, j)[i] = g[i]
    BY <1>1, <2>1, PreProperties
  <2>4. \A i \in 1..j : Pre(g, j)[i] = Pre(h, j)[i]
    BY <1>1, <1>2, <2>2, <2>3
  <2> QED
    BY <2>2, <2>3, <2>4, SeqEqual
<1> QED
  BY <1>1, <1>3

\* P2 and h2 do what P and h do for the first n questions.
Alike(P, h, P2, h2, n) ==
    \A j \in 0..(n - 1) : Pre(h2, j) = Pre(h, j) /\ P2[Pre(h, j)] = P[Pre(h, j)]

\* Whether a question forks depends on the questions up to it alone.
LEMMA AsksAlike ==
    ASSUME NEW P, NEW h, NEW P2, NEW h2, NEW n \in Nat, Alike(P, h, P2, h2, n)
    PROVE  \A j \in 0..(n - 1) : AsksAt(P2, h2, j) <=> AsksAt(P, h, j)
<1> SUFFICES ASSUME NEW j \in 0..(n - 1) PROVE AsksAt(P2, h2, j) <=> AsksAt(P, h, j)
  OBVIOUS
<1>1. j \in 0..(n - 1) /\ \A i \in 0..(j - 1) : i \in 0..(n - 1)
  OBVIOUS
<1> QED
  BY <1>1 DEF Alike, AsksAt

\* The decisions stay those of the first n questions.
LEMMA AlignedAlike ==
    ASSUME NEW P, NEW h, NEW P2, NEW h2, NEW n \in Nat, NEW d, NEW at, NEW d2,
           Alike(P, h, P2, h2, n), Aligned(P, h, d, at, n), Len(d2) = Len(d),
           \A i \in 1..Len(d) :
             /\ d2[i].loc = d[i].loc /\ d2[i].line = d[i].line
             /\ at[i] < Len(h2) => d2[i].failed = h2[at[i] + 1]
             /\ ~(at[i] < Len(h2)) => ~d2[i].failed
    PROVE  Aligned(P2, h2, d2, at, n)
<1>1. \A j \in 0..(n - 1) : AsksAt(P2, h2, j) <=> AsksAt(P, h, j)
  BY AsksAlike
<1>2. \A j \in 0..(n - 1) : P2[Pre(h2, j)] = P[Pre(h, j)]
  BY DEF Alike
<1> QED
  BY <1>1, <1>2 DEF Aligned

\* One more question that forked, answered f.
LEMMA AlignedMore ==
    ASSUME NEW P, NEW h, NEW h2, NEW n \in Nat, NEW d, Len(d) \in Nat, NEW at, NEW d2, NEW e,
           Alike(P, h, P, h2, n + 1), AsksAt(P, h, n), Aligned(P, h, d, at, n),
           Len(d2) = Len(d) + 1, d2[Len(d) + 1] = e,
           \A i \in 1..Len(d) : d2[i] = d[i],
           e.loc = P[Pre(h, n)].loc, e.line = P[Pre(h, n)].line,
           n < Len(h2) => e.failed = h2[n + 1], ~(n < Len(h2)) => ~e.failed,
           \A i \in 1..Len(d) :
             /\ at[i] < Len(h2) => d[i].failed = h2[at[i] + 1]
             /\ ~(at[i] < Len(h2)) => ~d[i].failed
    PROVE  Decided(P, h2, d2, n + 1)
<1> DEFINE at2 == [i \in 1..(Len(d) + 1) |-> IF i = Len(d) + 1 THEN n ELSE at[i]]
<1>1. \A j \in 0..n : /\ AsksAt(P, h2, j) <=> AsksAt(P, h, j)
                      /\ P[Pre(h2, j)] = P[Pre(h, j)]
  <2>1. \A j \in 0..((n + 1) - 1) : AsksAt(P, h2, j) <=> AsksAt(P, h, j)
    BY AsksAlike
  <2> QED
    BY <2>1 DEF Alike
<1>2. at2[Len(d) + 1] = n /\ \A i \in 1..Len(d) : at2[i] = at[i]
  OBVIOUS
<1>3. \A i \in 1..Len(d) : at[i] \in 0..(n - 1)
  BY DEF Aligned
<1>4. at2 \in [1..Len(d2) -> 0..((n + 1) - 1)]
  BY <1>3
<1>5. \A i \in 1..Len(d2) : i = Len(d) + 1 \/ i \in 1..Len(d)
  OBVIOUS
<1> HIDE DEF at2
<1>6. Aligned(P, h2, d2, at2, n + 1)
  <2>1. \A i \in 1..Len(d2) : at2[i] \in 0..((n + 1) - 1)
    BY <1>4
  <2>2. ASSUME NEW i \in 1..Len(d2), NEW k \in 1..Len(d2), i < k
        PROVE  at2[i] < at2[k]
    <3>1. i \in 1..Len(d)
      BY <1>5, <2>2
    <3>2. CASE k \in 1..Len(d)
      <4>1. at2[i] = at[i] /\ at2[k] = at[k]
        BY <1>2, <3>1, <3>2
      <4>2. at[i] < at[k]
        BY <2>2, <3>1, <3>2 DEF Aligned
      <4> QED
        BY <4>1, <4>2
    <3>3. CASE k = Len(d) + 1
      <4>1. at2[i] = at[i] /\ at2[k] = n
        BY <1>2, <3>1, <3>3
      <4>2. at[i] < n
        BY <1>3, <3>1
      <4> QED
        BY <4>1, <4>2
    <3> QED
      BY <1>5, <3>2, <3>3
  <2>3. ASSUME NEW j \in 0..((n + 1) - 1), AsksAt(P, h2, j)
        PROVE  \E i \in 1..Len(d2) : at2[i] = j
    <3>1. CASE j = n
      BY <1>2, <3>1
    <3>2. CASE j # n
      <4>1. j \in 0..(n - 1) /\ AsksAt(P, h, j)
        BY <1>1, <2>3, <3>2
      <4>2. PICK i \in 1..Len(d) : at[i] = j
        BY <4>1 DEF Aligned
      <4> QED
        BY <1>2, <4>2
    <3> QED
      BY <3>1, <3>2
  <2>4. ASSUME NEW i \in 1..Len(d2)
        PROVE  /\ AsksAt(P, h2, at2[i])
               /\ d2[i].loc = P[Pre(h2, at2[i])].loc /\ d2[i].line = P[Pre(h2, at2[i])].line
               /\ at2[i] < Len(h2) => d2[i].failed = h2[at2[i] + 1]
               /\ ~(at2[i] < Len(h2)) => ~d2[i].failed
    <3>1. CASE i = Len(d) + 1
      <4>1. n \in 0..n
        OBVIOUS
      <4> QED
        BY <1>1, <1>2, <3>1, <4>1
    <3>2. CASE i \in 1..Len(d)
      <4>1. at2[i] = at[i] /\ at[i] \in 0..n /\ d2[i] = d[i]
        BY <1>2, <1>3, <3>2
      <4>2. /\ AsksAt(P, h, at[i])
            /\ d[i].loc = P[Pre(h, at[i])].loc /\ d[i].line = P[Pre(h, at[i])].line
        BY <3>2 DEF Aligned
      <4> QED
        BY <1>1, <3>2, <4>1, <4>2
    <3> QED
      BY <1>5, <3>1, <3>2
  <2> QED
    BY <2>1, <2>2, <2>3, <2>4 DEF Aligned
<1> QED
  BY <1>4, <1>6 DEF Decided

\* Whether the first run forks is whether the question is a new one.
LEMMA UnaskedMeans ==
    ASSUME NEW P, NEW p \in Process, Traced(P, p.hist), NEW c \in CallOf, P[p.hist] = c,
           Decided(P, p.hist, p.decisions, Len(p.hist))
    PROVE  Unasked(p, c) <=> ~AsksAt(P, p.hist, Len(p.hist))
<1>1. PICK h, d, n : h = p.hist /\ d = p.decisions /\ n = Len(h)
  OBVIOUS
<1>2. h \in Seq(BOOLEAN) /\ d \in Seq(Decision) /\ n \in Nat /\ Len(d) \in Nat
  BY <1>1 DEF Process
<1>3. PICK at : Aligned(P, h, d, at, n)
  BY <1>1 DEF Decided
<1>4. Pre(h, n) = h /\ P[Pre(h, n)] = c
  BY <1>1, <1>2, PreProperties
<1>5. \A j \in 0..(n - 1) : P[Pre(h, j)] \in CallOf
  BY <1>1 DEF Traced
<1>6. ASSUME ~c.sup, c.op = "once", AlreadyDecided(p, c.loc) PROVE ~AsksAt(P, h, n)
  <2>1. PICK i \in 1..Len(d) : d[i].loc = c.loc
    BY <1>1, <1>2, <1>6 DEF AlreadyDecided
  <2>2. at[i] \in 0..(n - 1) /\ AsksAt(P, h, at[i]) /\ P[Pre(h, at[i])].loc = c.loc
    BY <1>3, <2>1 DEF Aligned
  <2> QED
    BY <1>4, <1>6, <2>2 DEF AsksAt
<1>7. ASSUME ~c.sup, c.op = "once", ~AsksAt(P, h, n) PROVE AlreadyDecided(p, c.loc)
  <2> DEFINE T == {j \in 0..(n - 1) : P[Pre(h, j)].loc = c.loc /\ ~P[Pre(h, j)].sup}
  <2>1. T # {} /\ T \subseteq Nat
    BY <1>2, <1>4, <1>7 DEF AsksAt
  <2>2. PICK m \in T : \A k \in T : m <= k
    BY <2>1, Least
  <2>3. /\ m \in 0..(n - 1) /\ P[Pre(h, m)].loc = c.loc /\ ~P[Pre(h, m)].sup
        /\ \A j \in 0..(m - 1) : P[Pre(h, j)].loc = c.loc => P[Pre(h, j)].sup
    BY <1>2, <2>2
  <2>4. AsksAt(P, h, m)
    BY <2>3 DEF AsksAt
  <2>5. PICK i \in 1..Len(d) : at[i] = m
    BY <1>3, <2>3, <2>4 DEF Aligned
  <2>6. d[i].loc = c.loc
    BY <1>3, <2>3, <2>5 DEF Aligned
  <2> QED
    BY <1>1, <1>2, <2>6 DEF AlreadyDecided
<1> QED
  BY <1>1, <1>4, <1>6, <1>7 DEF Unasked, AsksAt

\* The code under test has been seen to do more.
Grows(P, P2) == \A g \in DOMAIN P : g \in DOMAIN P2 /\ P2[g] = P[g]

\* A path through the program stays one when more of the program is known.
LEMMA TracedGrows ==
    ASSUME NEW P, NEW P2, Grows(P, P2), NEW h \in Seq(BOOLEAN), Traced(P, h)
    PROVE  /\ Traced(P2, h) /\ Alike(P, h, P2, h, Len(h))
           /\ h \in DOMAIN P => Alike(P, h, P2, h, Len(h) + 1)
<1>1. Len(h) \in Nat /\ Pre(h, Len(h)) = h
  BY PreProperties
<1>2. Alike(P, h, P2, h, Len(h))
  BY DEF Traced, Grows, Alike
<1>3. h \in DOMAIN P => Alike(P, h, P2, h, Len(h) + 1)
  BY <1>1 DEF Traced, Grows, Alike
<1>4. \A j \in 0..(Len(h) - 1) : AsksAt(P2, h, j) <=> AsksAt(P, h, j)
  BY <1>1, <1>2, AsksAlike
<1>5. Traced(P2, h)
  BY <1>4 DEF Traced, Grows
<1> QED
  BY <1>2, <1>3, <1>5

\* Its decisions stay those of its questions.
LEMMA DecidedGrows ==
    ASSUME NEW P, NEW P2, NEW h, NEW d, NEW n \in Nat, Alike(P, h, P2, h, n), Decided(P, h, d, n)
    PROVE  Decided(P2, h, d, n)
<1>1. PICK at \in [1..Len(d) -> 0..(n - 1)] : Aligned(P, h, d, at, n)
  BY DEF Decided
<1>2. Aligned(P2, h, d, at, n)
  <2>1. \A i \in 1..Len(d) :
          /\ at[i] < Len(h) => d[i].failed = h[at[i] + 1]
          /\ ~(at[i] < Len(h)) => ~d[i].failed
    BY <1>1 DEF Aligned
  <2> QED
    BY <1>1, <2>1, AlignedAlike
<1> QED
  BY <1>1, <1>2 DEF Decided

\* A child stays the child of its parent.
LEMMA ChildGrows ==
    ASSUME NEW P, NEW P2, Grows(P, P2), NEW p, p.hist \in Seq(BOOLEAN), Traced(P, p.hist),
           NEW q, ChildOf(P, p, q)
    PROVE  ChildOf(P2, p, q)
<1>1. PICK h : h = p.hist
  OBVIOUS
<1>2. h \in Seq(BOOLEAN) /\ Traced(P, h) /\ h \in DOMAIN P /\ Len(h) \in Nat
  BY <1>1 DEF ChildOf
<1>3. Alike(P, h, P2, h, Len(h) + 1)
  BY <1>2, TracedGrows
<1>4. \A j \in 0..((Len(h) + 1) - 1) : AsksAt(P2, h, j) <=> AsksAt(P, h, j)
  BY <1>2, <1>3, AsksAlike
<1>5. AsksAt(P2, h, Len(h)) <=> AsksAt(P, h, Len(h))
  BY <1>2, <1>4
<1> QED
  BY <1>1, <1>2, <1>5 DEF ChildOf, Grows

\* One more answer.
LEMMA TracedAppend ==
    ASSUME NEW P, NEW h \in Seq(BOOLEAN), Traced(P, h), h \in DOMAIN P, P[h] \in CallOf,
           NEW b \in BOOLEAN, b => AsksAt(P, h, Len(h)), NEW g, OneMore(h, b, g)
    PROVE  Traced(P, g) /\ Alike(P, h, P, g, Len(h) + 1)
<1>1. /\ g \in Seq(BOOLEAN) /\ Len(g) = Len(h) + 1 /\ g[Len(h) + 1] = b
      /\ \A j \in 1..Len(h) : g[j] = h[j]
      /\ \A j \in 0..Len(h) : Pre(g, j) = Pre(h, j)
  BY PreAppend
<1>2. Len(h) \in Nat /\ Pre(h, Len(h)) = h
  BY PreProperties
<1>3. Alike(P, h, P, g, Len(h) + 1)
  BY <1>1, <1>2 DEF Alike
<1>4. \A j \in 0..((Len(h) + 1) - 1) : AsksAt(P, g, j) <=> AsksAt(P, h, j)
  BY <1>2, <1>3, AsksAlike
<1>5. ASSUME NEW j \in 0..(Len(g) - 1)
      PROVE  /\ Pre(g, j) \in DOMAIN P /\ P[Pre(g, j)] \in CallOf
             /\ ~AsksAt(P, g, j) => ~g[j + 1]
  <2>1. j \in 0..Len(h)
    BY <1>1, <1>2
  <2>2. Pre(g, j) = Pre(h, j) /\ (AsksAt(P, g, j) <=> AsksAt(P, h, j))
    BY <1>1, <1>2, <1>4, <2>1
  <2>3. CASE j = Len(h)
    BY <1>1, <1>2, <2>2, <2>3
  <2>4. CASE j # Len(h)
    <3>1. j \in 0..(Len(h) - 1) /\ j + 1 \in 1..Len(h)
      BY <1>2, <2>1, <2>4
    <3> QED
      BY <1>1, <2>2, <3>1 DEF Traced
  <2> QED
    BY <2>3, <2>4
<1> QED
  BY <1>3, <1>5 DEF Traced

\* The answer FALSE, to a question that does not fork or by a parent whose child is gone,
\* leaves the decisions those of the questions.
LEMMA DecidedSkip ==
    ASSUME NEW P, NEW h \in Seq(BOOLEAN), NEW g, OneMore(h, FALSE, g),
           NEW d, Len(d) \in Nat, Alike(P, h, P, g, Len(h) + 1),
           \/ ~AsksAt(P, h, Len(h)) /\ Decided(P, h, d, Len(h))
           \/ Decided(P, h, d, Len(h) + 1) /\ \A i \in 1..Len(d) : d[i].failed \in BOOLEAN
    PROVE  Decided(P, g, d, Len(g))
<1>1. /\ g \in Seq(BOOLEAN) /\ Len(g) = Len(h) + 1 /\ g[Len(h) + 1] = FALSE
      /\ \A j \in 1..Len(h) : g[j] = h[j]
      /\ \A j \in 0..Len(h) : Pre(g, j) = Pre(h, j)
  <2>1. FALSE \in BOOLEAN
    OBVIOUS
  <2> QED
    BY <2>1, PreAppend, Zenon
<1>h. Len(h) \in Nat
  OBVIOUS
<1>2. \A j \in 0..Len(h) : /\ AsksAt(P, g, j) <=> AsksAt(P, h, j)
                           /\ P[Pre(g, j)] = P[Pre(h, j)]
  <2>0. Len(h) + 1 \in Nat
    BY <1>1, <1>h
  <2>1. \A j \in 0..((Len(h) + 1) - 1) : AsksAt(P, g, j) <=> AsksAt(P, h, j)
    BY <2>0, AsksAlike
  <2> QED
    BY <1>1, <1>h, <2>1 DEF Alike
<1>3. CASE ~AsksAt(P, h, Len(h)) /\ Decided(P, h, d, Len(h))
  <2>1. PICK at \in [1..Len(d) -> 0..(Len(h) - 1)] : Aligned(P, h, d, at, Len(h))
    BY <1>3 DEF Decided
  <2>2. at \in [1..Len(d) -> 0..(Len(g) - 1)]
    BY <1>1, <1>h
  <2>3. \A i \in 1..Len(d) : at[i] \in 0..(Len(h) - 1)
    OBVIOUS
  <2>4. ASSUME NEW j \in 0..(Len(g) - 1), AsksAt(P, g, j) PROVE \E i \in 1..Len(d) : at[i] = j
    <3>1. j \in 0..Len(h) /\ AsksAt(P, h, j)
      BY <1>1, <1>h, <1>2, <2>4
    <3>2. j \in 0..(Len(h) - 1)
      BY <1>1, <1>h, <1>3, <3>1
    <3> QED
      BY <2>1, <3>1, <3>2 DEF Aligned
  <2>5. ASSUME NEW i \in 1..Len(d)
        PROVE  /\ AsksAt(P, g, at[i])
               /\ d[i].loc = P[Pre(g, at[i])].loc /\ d[i].line = P[Pre(g, at[i])].line
               /\ at[i] < Len(g) => d[i].failed = g[at[i] + 1]
               /\ ~(at[i] < Len(g)) => ~d[i].failed
    <3>0. at[i] \in 0..(Len(h) - 1)
      BY <2>3
    <3>1. /\ at[i] \in 0..Len(h) /\ at[i] < Len(h) /\ at[i] < Len(g) /\ at[i] + 1 \in 1..Len(h)
      BY <1>1, <1>h, <3>0
    <3>2. /\ AsksAt(P, h, at[i]) /\ d[i].loc = P[Pre(h, at[i])].loc
          /\ d[i].line = P[Pre(h, at[i])].line /\ d[i].failed = h[at[i] + 1]
      BY <2>1, <3>1 DEF Aligned
    <3> QED
      BY <1>1, <1>h, <1>2, <3>1, <3>2
  <2>6. \A i, k \in 1..Len(d) : i < k => at[i] < at[k]
    BY <2>1 DEF Aligned
  <2>7. Aligned(P, g, d, at, Len(g))
    BY <2>2, <2>4, <2>5, <2>6 DEF Aligned
  <2> QED
    BY <2>2, <2>7 DEF Decided
<1>4. CASE Decided(P, h, d, Len(h) + 1) /\ \A i \in 1..Len(d) : d[i].failed \in BOOLEAN
  <2>1. PICK at \in [1..Len(d) -> 0..((Len(h) + 1) - 1)] : Aligned(P, h, d, at, Len(h) + 1)
    BY <1>4 DEF Decided
  <2>2. ASSUME NEW i \in 1..Len(d)
        PROVE  /\ at[i] < Len(g) => d[i].failed = g[at[i] + 1]
               /\ ~(at[i] < Len(g)) => ~d[i].failed
    <3>1. at[i] \in 0..Len(h) /\ at[i] < Len(g)
      BY <1>1, <1>h, <2>1
    <3>2. CASE at[i] < Len(h)
      <4>1. d[i].failed = h[at[i] + 1] /\ at[i] + 1 \in 1..Len(h)
        BY <1>1, <1>h, <2>1, <3>1, <3>2 DEF Aligned
      <4> QED
        BY <1>1, <1>h, <3>1, <4>1
    <3>3. CASE at[i] = Len(h)
      <4>1. ~d[i].failed
        BY <1>1, <1>h, <2>1, <3>3 DEF Aligned
      <4> QED
        BY <1>1, <1>h, <1>4, <3>1, <3>3, <4>1
    <3> QED
      <4>1. at[i] < Len(h) \/ at[i] = Len(h)
        BY <1>1, <1>h, <3>1
      <4> QED
        BY <3>2, <3>3, <4>1
  <2>3. Aligned(P, g, d, at, Len(h) + 1)
    <3>1. Len(h) + 1 \in Nat
      BY <1>1, <1>h
    <3>2. \A i \in 1..Len(d) : /\ d[i].loc = d[i].loc /\ d[i].line = d[i].line
                               /\ at[i] < Len(g) => d[i].failed = g[at[i] + 1]
                               /\ ~(at[i] < Len(g)) => ~d[i].failed
      BY <2>2
    <3> QED
      BY <2>1, <3>1, <3>2, AlignedAlike
  <2> QED
    BY <1>1, <1>h, <2>1, <2>3 DEF Decided
<1> QED
  BY <1>3, <1>4

\* A child that is answered FALSE stays the child of its parent.
LEMMA ChildAnswered ==
    ASSUME NEW P, NEW p, NEW q, ChildOf(P, p, q), NEW r, OneMore(q.hist, FALSE, r.hist),
           q.hist \in Seq(BOOLEAN), p.hist \in Seq(BOOLEAN)
    PROVE  ChildOf(P, p, r)
<1>1. PICK h, g, f : h = p.hist /\ g = q.hist /\ f = r.hist
  OBVIOUS
<1>2. /\ f \in Seq(BOOLEAN) /\ Len(f) = Len(g) + 1 /\ f[Len(g) + 1] = FALSE
      /\ \A j \in 1..Len(g) : f[j] = g[j]
      /\ \A j \in 0..Len(g) : Pre(f, j) = Pre(g, j)
  <2>1. FALSE \in BOOLEAN /\ g \in Seq(BOOLEAN) /\ OneMore(g, FALSE, f)
    BY <1>1, Zenon
  <2> QED
    BY <2>1, PreAppend, ZenonT(60)
<1>3. Len(h) \in Nat /\ Len(g) \in Nat /\ Len(h) < Len(g)
  BY <1>1 DEF ChildOf
<1>4. /\ Pre(g, Len(h)) = h /\ g[Len(h) + 1]
      /\ \A j \in (Len(h) + 1)..(Len(g) - 1) : ~g[j + 1]
  BY <1>1 DEF ChildOf
<1>5. Len(h) < Len(f) /\ Pre(f, Len(h)) = h /\ f[Len(h) + 1]
  BY <1>2, <1>3, <1>4
<1>6. ASSUME NEW j \in (Len(h) + 1)..(Len(f) - 1) PROVE ~f[j + 1]
  <2>1. CASE j = Len(g)
    BY <1>2, <2>1
  <2>2. CASE j # Len(g)
    <3>1. j \in (Len(h) + 1)..(Len(g) - 1) /\ j + 1 \in 1..Len(g)
      BY <1>2, <1>3, <2>2
    <3> QED
      BY <1>2, <1>4, <3>1
  <2> QED
    BY <2>1, <2>2
<1> QED
  BY <1>1, <1>5, <1>6 DEF ChildOf

-----------------------------------------------------------------------------
(* One process of the first run makes a move. *)

\* A process that waits is not disturbed by what others learn about the program.
LEMMA WaitsGrow ==
    ASSUME NEW P, NEW P2, Grows(P, P2), NEW p \in Process, Waits(P, p), p.hist \in DOMAIN P
    PROVE  Waits(P2, p)
<1>1. PICK h : h = p.hist
  OBVIOUS
<1>2. h \in Seq(BOOLEAN) /\ Len(h) + 1 \in Nat
  BY <1>1 DEF Process
<1>3. Traced(P, h) /\ Decided(P, h, p.decisions, Len(h) + 1) /\ h \in DOMAIN P
  BY <1>1 DEF Waits
<1>4. Traced(P2, h) /\ Alike(P, h, P2, h, Len(h) + 1)
  BY <1>2, <1>3, TracedGrows
<1>5. Decided(P2, h, p.decisions, Len(h) + 1)
  BY <1>2, <1>3, <1>4, DecidedGrows
<1> QED
  BY <1>1, <1>4, <1>5 DEF Waits

\* Nor is one that runs.
LEMMA GoesGrow ==
    ASSUME NEW P, NEW P2, Grows(P, P2), NEW p \in Process, Goes(P, p)
    PROVE  Goes(P2, p)
<1>1. PICK h : h = p.hist
  OBVIOUS
<1>2. h \in Seq(BOOLEAN) /\ Len(h) \in Nat
  BY <1>1 DEF Process
<1>3. Traced(P, h) /\ Decided(P, h, p.decisions, Len(h))
  BY <1>1 DEF Goes
<1>4. Traced(P2, h) /\ Alike(P, h, P2, h, Len(h))
  BY <1>2, <1>3, TracedGrows
<1>5. Decided(P2, h, p.decisions, Len(h))
  BY <1>2, <1>3, <1>4, DecidedGrows
<1> QED
  BY <1>1, <1>4, <1>5 DEF Goes, Ended, Grows

\* A process that exits has come to the end the program has for it.
LEMMA DieGoes ==
    ASSUME NEW P, NEW p \in Process, Goes(P, p), p.hist \in DOMAIN P, P[p.hist] \in ExitOf
    PROVE  Goes(P, Die(p, P[p.hist].how))
<1>1. PICK q : q = Die(p, P[p.hist].how)
  OBVIOUS
<1>2. q.hist = p.hist /\ q.decisions = p.decisions /\ q.status = P[p.hist].how
  BY <1>1, DieFields DEF SameCounts
<1> QED
  BY <1>1, <1>2 DEF Goes, Ended

\* A process that is answered FALSE goes on.
LEMMA AnswerGoes ==
    ASSUME NEW P, NEW p \in Process, p.hist \in DOMAIN P, P[p.hist] \in CallOf,
           p.status = "running", Traced(P, p.hist),
           \/ /\ ~AsksAt(P, p.hist, Len(p.hist))
              /\ Decided(P, p.hist, p.decisions, Len(p.hist))
           \/ Decided(P, p.hist, p.decisions, Len(p.hist) + 1)
    PROVE  Goes(P, Answer(p, FALSE))
<1>1. PICK h, d, q : h = p.hist /\ d = p.decisions /\ q = Answer(p, FALSE)
  OBVIOUS
<1>2. /\ h \in Seq(BOOLEAN) /\ d \in Seq(Decision) /\ Len(d) \in Nat
      /\ \A i \in 1..Len(d) : d[i].failed \in BOOLEAN
  <2>1. h \in Seq(BOOLEAN) /\ d \in Seq(Decision)
    BY <1>1 DEF Process
  <2>2. Len(d) \in Nat /\ \A i \in 1..Len(d) : d[i] \in Decision
    BY <2>1
  <2> QED
    BY <2>1, <2>2 DEF Decision
<1>3. q.hist = Append(h, FALSE) /\ q.decisions = d /\ q.status = "running"
  BY <1>1, AnswerFields DEF SameCounts
<1>4. PICK g : g = q.hist /\ OneMore(h, FALSE, g)
  BY <1>3 DEF OneMore
<1>5. Traced(P, g) /\ Alike(P, h, P, g, Len(h) + 1)
  <2>1. FALSE \in BOOLEAN /\ (FALSE => AsksAt(P, h, Len(h)))
    OBVIOUS
  <2> QED
    BY <1>1, <1>2, <1>4, <2>1, TracedAppend, Zenon
<1>6. Decided(P, g, d, Len(g))
  BY <1>1, <1>2, <1>4, <1>5, DecidedSkip, Zenon
<1> QED
  BY <1>1, <1>3, <1>4, <1>5, <1>6 DEF Goes

\* A fork leaves a process that waits and its child.
LEMMA ForkGoes ==
    ASSUME NEW P, NEW p \in Process, p.hist \in DOMAIN P, NEW c \in CallOf, P[p.hist] = c,
           p.status = "running", Goes(P, p), AsksAt(P, p.hist, Len(p.hist))
    PROVE  /\ Waits(P, Waiting(p, c)) /\ Goes(P, Child(p, c))
           /\ ChildOf(P, Waiting(p, c), Child(p, c))
<1>1. PICK h, d, q, r : h = p.hist /\ d = p.decisions /\ q = Waiting(p, c) /\ r = Child(p, c)
  OBVIOUS
<1>2. /\ h \in Seq(BOOLEAN) /\ d \in Seq(Decision) /\ Len(d) \in Nat /\ Len(h) \in Nat
      /\ Pre(h, Len(h)) = h
  BY <1>1, PreProperties DEF Process
<1>3. c.loc \in Loc /\ c.line \in 1..MaxLine
  BY FailTestAssumption DEF CallOf
<1>4. PICK e, f : /\ e = [loc |-> c.loc, line |-> c.line, failed |-> FALSE]
                  /\ f = [loc |-> c.loc, line |-> c.line, failed |-> TRUE]
  OBVIOUS
<1>5. /\ e \in Decision /\ e.loc = c.loc /\ e.line = c.line /\ ~e.failed
      /\ f \in Decision /\ f.loc = c.loc /\ f.line = c.line /\ f.failed = TRUE
  BY <1>3, <1>4 DEF Decision
<1>6. /\ q.decisions = Append(d, e) /\ q.hist = h
      /\ r.decisions = Append(d, f) /\ r.hist = Append(h, TRUE)
  BY <1>1, <1>4, ForkFields
<1>7. r.status = "running"
  BY <1>1 DEF Child, Process
<1>8. PICK g : g = r.hist /\ OneMore(h, TRUE, g)
  BY <1>6 DEF OneMore
<1>9. /\ g \in Seq(BOOLEAN) /\ Len(g) = Len(h) + 1 /\ g[Len(h) + 1] = TRUE
      /\ \A j \in 1..Len(h) : g[j] = h[j]
      /\ \A j \in 0..Len(h) : Pre(g, j) = Pre(h, j)
  <2>1. PICK b \in BOOLEAN : b = TRUE
    OBVIOUS
  <2>2. OneMore(h, b, g)
    BY <1>8, <2>1, Zenon
  <2>3. /\ g \in Seq(BOOLEAN) /\ Len(g) = Len(h) + 1 /\ g[Len(h) + 1] = b
        /\ \A j \in 1..Len(h) : g[j] = h[j]
        /\ \A j \in 0..Len(h) : Pre(g, j) = Pre(h, j)
    BY <1>2, <2>2, PreAppend
  <2> QED
    BY <2>1, <2>3
<1>10. Traced(P, g) /\ Alike(P, h, P, g, Len(h) + 1)
  <2>1. TRUE \in BOOLEAN /\ (TRUE => AsksAt(P, h, Len(h))) /\ Traced(P, h) /\ P[h] \in CallOf
    BY <1>1 DEF Goes
  <2> QED
    BY <1>1, <1>2, <1>8, <2>1, TracedAppend, Zenon
<1>11. PICK at : Aligned(P, h, d, at, Len(h))
  BY <1>1 DEF Goes, Decided
<1>12. \A i \in 1..Len(d) : at[i] \in 0..(Len(h) - 1) /\ at[i] < Len(h) /\ d[i].failed = h[at[i] + 1]
  BY <1>2, <1>11 DEF Aligned
<1>13. Alike(P, h, P, h, Len(h) + 1)
  BY DEF Alike
<1>14. AsksAt(P, h, Len(h)) /\ P[Pre(h, Len(h))] = c
  BY <1>1, <1>2
<1>15. Decided(P, h, q.decisions, Len(h) + 1)
  <2>1. PICK d2 : d2 = q.decisions
    OBVIOUS
  <2>2. Len(d2) = Len(d) + 1 /\ d2[Len(d) + 1] = e /\ \A i \in 1..Len(d) : d2[i] = d[i]
    BY <1>2, <1>5, <1>6, <2>1
  <2>3. /\ e.loc = P[Pre(h, Len(h))].loc /\ e.line = P[Pre(h, Len(h))].line
        /\ ~(Len(h) < Len(h))
    BY <1>2, <1>5, <1>14
  <2>4. \A i \in 1..Len(d) : /\ at[i] < Len(h) => d[i].failed = h[at[i] + 1]
                             /\ ~(at[i] < Len(h)) => ~d[i].failed
    BY <1>12
  <2>5. Decided(P, h, d2, Len(h) + 1)
    BY <1>2, <1>5, <1>11, <1>13, <1>14, <2>2, <2>3, <2>4, AlignedMore, Zenon
  <2> QED
    BY <2>1, <2>5
<1>16. Decided(P, g, r.decisions, Len(h) + 1)
  <2>1. PICK d2 : d2 = r.decisions
    OBVIOUS
  <2>2. Len(d2) = Len(d) + 1 /\ d2[Len(d) + 1] = f /\ \A i \in 1..Len(d) : d2[i] = d[i]
    BY <1>2, <1>5, <1>6, <2>1
  <2>3. /\ f.loc = P[Pre(h, Len(h))].loc /\ f.line = P[Pre(h, Len(h))].line
        /\ Len(h) < Len(g) /\ f.failed = g[Len(h) + 1]
    <3>1. Len(h) < Len(g)
      BY <1>2, <1>9
    <3>2. f.failed = g[Len(h) + 1]
      BY <1>5, <1>9, Zenon
    <3> QED
      BY <1>5, <1>14, <3>1, <3>2, Zenon
  <2>4. ASSUME NEW i \in 1..Len(d)
        PROVE  at[i] < Len(g) /\ d[i].failed = g[at[i] + 1]
    <3>1. at[i] \in 0..(Len(h) - 1) /\ d[i].failed = h[at[i] + 1]
      BY <1>12
    <3>2. at[i] < Len(g) /\ at[i] + 1 \in 1..Len(h)
      BY <1>2, <1>9, <3>1
    <3> QED
      BY <1>9, <3>1, <3>2
  <2>5. \A i \in 1..Len(d) : /\ at[i] < Len(g) => d[i].failed = g[at[i] + 1]
                             /\ ~(at[i] < Len(g)) => ~d[i].failed
    BY <2>4
  <2>6. Decided(P, g, d2, Len(h) + 1)
    BY <1>2, <1>10, <1>11, <1>14, <2>2, <2>3, <2>5, AlignedMore, Zenon
  <2> QED
    BY <2>1, <2>6
<1>17. Waits(P, q)
  BY <1>1, <1>6, <1>15 DEF Goes, Waits
<1>18. Goes(P, r)
  BY <1>7, <1>8, <1>9, <1>10, <1>16 DEF Goes
<1>19. ChildOf(P, q, r)
  <2>1. Len(h) < Len(g) /\ Pre(g, Len(h)) = h /\ g[Len(h) + 1]
    BY <1>2, <1>9
  <2>2. \A j \in (Len(h) + 1)..(Len(g) - 1) : ~g[j + 1]
    BY <1>2, <1>9
  <2> QED
    BY <1>1, <1>6, <1>8, <1>14, <2>1, <2>2 DEF ChildOf
<1> QED
  BY <1>1, <1>17, <1>18, <1>19

-----------------------------------------------------------------------------
(* The stack of the first run. *)

\* The code under test answers h with c, the same as ever.
Learns(P, h, c, P2) ==
    /\ P2 = [g \in DOMAIN P \cup {h} |-> IF g \in DOMAIN P THEN P[g] ELSE c]
    /\ h \in DOMAIN P => c = P[h]

\* What Learns says.
LEMMA LearnsMeans ==
    ASSUME NEW P, NEW h, NEW c, NEW P2, Learns(P, h, c, P2)
    PROVE  Grows(P, P2) /\ h \in DOMAIN P2 /\ P2[h] = c /\ DOMAIN P2 = DOMAIN P \cup {h}
BY DEF Learns, Grows

\* The stack is not disturbed by what is learnt about the program.
LEMMA WayGrows ==
    ASSUME NEW P, NEW P2, Grows(P, P2), NEW S \in Seq(Process), Len(S) \in Nat \ {0},
           WayDown(P, S)
    PROVE  WayDown(P2, S)
<1>1. \A k \in 1..Len(S) : S[k] \in Process
  OBVIOUS
<1>2. ASSUME NEW k \in 1..(Len(S) - 1)
      PROVE  Waits(P2, S[k]) /\ ChildOf(P2, S[k], S[k + 1])
  <2>1. PICK p, q : p = S[k] /\ q = S[k + 1]
    OBVIOUS
  <2>2. p \in Process /\ Waits(P, p) /\ ChildOf(P, p, q)
    BY <1>1, <2>1 DEF WayDown
  <2>3. p.hist \in DOMAIN P /\ p.hist \in Seq(BOOLEAN) /\ Traced(P, p.hist)
    BY <2>2 DEF ChildOf, Waits, Process
  <2>4. Waits(P2, p)
    BY <2>2, <2>3, WaitsGrow
  <2>5. ChildOf(P2, p, q)
    BY <2>2, <2>3, ChildGrows
  <2> QED
    BY <2>1, <2>4, <2>5
<1>3. Goes(P2, S[Len(S)])
  <2>1. Len(S) \in 1..Len(S)
    OBVIOUS
  <2>2. S[Len(S)] \in Process /\ Goes(P, S[Len(S)])
    BY <1>1, <2>1 DEF WayDown
  <2> QED
    BY <2>2, GoesGrow
<1> QED
  BY <1>2, <1>3 DEF WayDown

\* S2 is S with q on the top.
TopIs(S, S2, q) ==
    /\ Len(S2) = Len(S) /\ S2[Len(S)] = q
    /\ \A k \in 1..(Len(S) - 1) : S2[k] = S[k]

\* q stands where p stood, or has been answered FALSE there.
Follows(P, p, q) ==
    /\ \A a : a.hist \in Seq(BOOLEAN) /\ ChildOf(P, a, p) => ChildOf(P, a, q)
    /\ (\A j \in 1..Len(p.hist) : ~p.hist[j]) => \A j \in 1..Len(q.hist) : ~q.hist[j]

\* The top of the stack goes one step on.
LEMMA WayReplaced ==
    ASSUME NEW P, NEW S \in Seq(Process), Len(S) \in Nat \ {0}, WayDown(P, S),
           NEW S2, NEW q, TopIs(S, S2, q), Goes(P, q), Follows(P, S[Len(S)], q)
    PROVE  WayDown(P, S2)
<1>1. \A k \in 1..(Len(S) - 1) : S2[k] = S[k]
  BY DEF TopIs
<1>2. Len(S2) = Len(S) /\ S2[Len(S)] = q
  BY DEF TopIs
<1>3. ASSUME NEW k \in 1..(Len(S2) - 1)
      PROVE  Waits(P, S2[k]) /\ ChildOf(P, S2[k], S2[k + 1])
  <2>1. k \in 1..(Len(S) - 1) /\ S2[k] = S[k] /\ Waits(P, S[k]) /\ ChildOf(P, S[k], S[k + 1])
    BY <1>1, <1>2 DEF WayDown
  <2>2. CASE k + 1 = Len(S)
    <3>1. S[k].hist \in Seq(BOOLEAN)
      <4>1. S[k] \in Process
        BY <2>1, ElementOfSeq
      <4> QED
        BY <4>1 DEF Process
    <3>2. ChildOf(P, S[k], q)
      BY <2>1, <2>2, <3>1 DEF Follows
    <3> QED
      BY <1>2, <2>1, <2>2, <3>2
  <2>3. CASE k + 1 # Len(S)
    <3>1. k + 1 \in 1..(Len(S) - 1)
      BY <2>1, <2>3
    <3> QED
      BY <1>1, <2>1, <3>1
  <2> QED
    BY <2>2, <2>3
<1>4. \A j \in 1..Len(S2[1].hist) : ~S2[1].hist[j]
  <2>1. \A j \in 1..Len(S[1].hist) : ~S[1].hist[j]
    BY DEF WayDown
  <2>2. CASE Len(S) = 1
    BY <1>2, <2>1, <2>2 DEF Follows
  <2>3. CASE Len(S) # 1
    <3>1. 1 \in 1..(Len(S) - 1)
      <4>1. \A m \in Nat \ {0} : m # 1 => 1 \in 1..(m - 1)
        OBVIOUS
      <4> QED
        BY <2>3, <4>1, Zenon
    <3> QED
      BY <1>1, <2>1, <3>1
  <2> QED
    BY <2>2, <2>3
<1> QED
  BY <1>2, <1>3, <1>4 DEF WayDown

\* S2 is S with q in the place of its top and r on it.
TopsAre(S, S2, q, r) ==
    /\ Len(S2) = Len(S) + 1 /\ S2[Len(S)] = q /\ S2[Len(S) + 1] = r
    /\ \A k \in 1..(Len(S) - 1) : S2[k] = S[k]

\* The top of the stack forks.
LEMMA WayPushed ==
    ASSUME NEW P, NEW S \in Seq(Process), Len(S) \in Nat \ {0}, WayDown(P, S),
           NEW S2, NEW q, NEW r, TopsAre(S, S2, q, r), q.hist = S[Len(S)].hist,
           Waits(P, q), Goes(P, r), ChildOf(P, q, r)
    PROVE  WayDown(P, S2)
<1>1. \A k \in 1..(Len(S) - 1) : S2[k] = S[k]
  BY DEF TopsAre
<1>2. Len(S2) = Len(S) + 1 /\ S2[Len(S)] = q /\ S2[Len(S) + 1] = r
  BY DEF TopsAre
<1>3. ASSUME NEW k \in 1..(Len(S2) - 1)
      PROVE  Waits(P, S2[k]) /\ ChildOf(P, S2[k], S2[k + 1])
  <2>1. CASE k = Len(S)
    BY <1>2, <2>1
  <2>2. CASE k # Len(S)
    <3>1. k \in 1..(Len(S) - 1) /\ S2[k] = S[k] /\ Waits(P, S[k]) /\ ChildOf(P, S[k], S[k + 1])
      BY <1>1, <1>2, <2>2 DEF WayDown
    <3>2. CASE k + 1 = Len(S)
      <4>1. ChildOf(P, S[k], q)
        BY <3>1, <3>2 DEF ChildOf
      <4> QED
        BY <1>2, <3>1, <3>2, <4>1
    <3>3. CASE k + 1 # Len(S)
      <4>1. k + 1 \in 1..(Len(S) - 1)
        BY <3>1, <3>3
      <4> QED
        BY <1>1, <3>1, <4>1
    <3> QED
      BY <3>2, <3>3
  <2> QED
    BY <2>1, <2>2
<1>4. \A j \in 1..Len(S2[1].hist) : ~S2[1].hist[j]
  <2>1. \A j \in 1..Len(S[1].hist) : ~S[1].hist[j]
    BY DEF WayDown
  <2>2. CASE Len(S) = 1
    BY <1>2, <2>1, <2>2
  <2>3. CASE Len(S) # 1
    <3>1. 1 \in 1..(Len(S) - 1)
      <4>1. \A m \in Nat \ {0} : m # 1 => 1 \in 1..(m - 1)
        OBVIOUS
      <4> QED
        BY <2>3, <4>1, Zenon
    <3> QED
      BY <1>1, <2>1, <3>1
  <2> QED
    BY <2>2, <2>3
<1> QED
  BY <1>2, <1>3, <1>4 DEF WayDown

\* S2 is S without its top, with q in the place of the next.
TopLeft(S, S2, q) ==
    /\ Len(S2) = Len(S) - 1 /\ S2[Len(S) - 1] = q
    /\ \A k \in 1..(Len(S) - 2) : S2[k] = S[k]

\* The top of the stack leaves and its parent goes on.
LEMMA WayPopped ==
    ASSUME NEW P, NEW S \in Seq(Process), Len(S) \in Nat, Len(S) > 1, WayDown(P, S),
           NEW S2, NEW q, TopLeft(S, S2, q), Goes(P, q), Follows(P, S[Len(S) - 1], q)
    PROVE  WayDown(P, S2)
<1>1. \A k \in 1..(Len(S) - 2) : S2[k] = S[k]
  BY DEF TopLeft
<1>2. Len(S2) = Len(S) - 1 /\ S2[Len(S) - 1] = q
  BY DEF TopLeft
<1>3. ASSUME NEW k \in 1..(Len(S2) - 1)
      PROVE  Waits(P, S2[k]) /\ ChildOf(P, S2[k], S2[k + 1])
  <2>1. k \in 1..(Len(S) - 2) /\ S2[k] = S[k] /\ Waits(P, S[k]) /\ ChildOf(P, S[k], S[k + 1])
    BY <1>1, <1>2 DEF WayDown
  <2>2. CASE k + 1 = Len(S) - 1
    <3>1. S[k].hist \in Seq(BOOLEAN)
      <4>1. S[k] \in Process
        BY <2>1, ElementOfSeq
      <4> QED
        BY <4>1 DEF Process
    <3>2. ChildOf(P, S[k], q)
      BY <2>1, <2>2, <3>1 DEF Follows
    <3> QED
      BY <1>2, <2>1, <2>2, <3>2
  <2>3. CASE k + 1 # Len(S) - 1
    <3>1. k + 1 \in 1..(Len(S) - 2)
      BY <2>1, <2>3
    <3> QED
      BY <1>1, <2>1, <3>1
  <2> QED
    BY <2>2, <2>3
<1>4. \A j \in 1..Len(S2[1].hist) : ~S2[1].hist[j]
  <2>1. \A j \in 1..Len(S[1].hist) : ~S[1].hist[j]
    BY DEF WayDown
  <2>2. CASE Len(S) = 2
    BY <1>2, <2>1, <2>2 DEF Follows
  <2>3. CASE Len(S) # 2
    <3>1. 1 \in 1..(Len(S) - 2)
      <4>1. \A m \in Nat : m > 1 /\ m # 2 => 1 \in 1..(m - 2)
        OBVIOUS
      <4> QED
        BY <2>3, <4>1, Zenon
    <3> QED
      BY <1>1, <2>1, <3>1
  <2> QED
    BY <2>2, <2>3
<1> QED
  BY <1>2, <1>3, <1>4 DEF WayDown

\* A process that is answered FALSE follows where it stood.
LEMMA AnswerFollows ==
    ASSUME NEW P, NEW p \in Process PROVE Follows(P, p, Answer(p, FALSE))
<1>1. PICK g, q, f : g = p.hist /\ q = Answer(p, FALSE) /\ f = q.hist
  OBVIOUS
<1>2. g \in Seq(BOOLEAN) /\ f = Append(g, FALSE) /\ Len(g) \in Nat
  <2>1. g \in Seq(BOOLEAN) /\ Len(g) \in Nat
    BY <1>1 DEF Process
  <2>2. Answer(p, FALSE).hist = Append(p.hist, FALSE)
    BY AnswerFields
  <2> QED
    BY <1>1, <2>1, <2>2
<1>3. OneMore(p.hist, FALSE, q.hist)
  BY <1>1, <1>2 DEF OneMore
<1>4. ASSUME NEW a, a.hist \in Seq(BOOLEAN), ChildOf(P, a, p) PROVE ChildOf(P, a, q)
  BY <1>1, <1>2, <1>3, <1>4, ChildAnswered, Zenon
<1>5. ASSUME \A j \in 1..Len(g) : ~g[j] PROVE \A j \in 1..Len(f) : ~f[j]
  BY <1>2, <1>5
<1> QED
  BY <1>1, <1>4, <1>5 DEF Follows

-----------------------------------------------------------------------------
(* What has been tried. *)

\* What was tried stays tried while the top process runs.
LEMMA TriedStays ==
    ASSUME NEW P, NEW P2, NEW S, NEW S2, NEW p, S[Len(S)] = p, p.status = "running",
           Grows(P, P2), p.hist \in DOMAIN P2, Len(S) \in Nat \ {0},
           Len(S2) \in Nat, Len(S2) >= Len(S),
           \A k \in 1..(Len(S) - 1) : S2[k].hist = S[k].hist,
           NEW h \in Seq(BOOLEAN), h \in DOMAIN P, Past(P, h), Tried(P, S, h)
    PROVE  Past(P2, h) /\ Tried(P2, S2, h)
<1>1. Len(h) \in Nat /\ Len(h) + 1 \in Nat /\ Pre(h, Len(h)) = h
  BY PreProperties
<1>2. Past(P2, h) /\ P2[h] = P[h]
  BY DEF Past, Grows
<1>3. Forks(P2, h) <=> Forks(P, h)
  <2>1. Alike(P, h, P2, h, Len(h) + 1)
    BY <1>1 DEF Past, Grows, Alike
  <2>2. \A j \in 0..((Len(h) + 1) - 1) : AsksAt(P2, h, j) <=> AsksAt(P, h, j)
    BY <1>1, <2>1, AsksAlike
  <2>3. AsksAt(P2, h, Len(h)) <=> AsksAt(P, h, Len(h))
    BY <1>1, <2>2
  <2> QED
    BY <1>2, <2>3 DEF Forks
<1>4. ASSUME Forks(P2, h)
      PROVE  /\ Append(h, TRUE) \in DOMAIN P2
             /\ Append(h, FALSE) \in DOMAIN P2 \/ \E k \in 1..(Len(S2) - 1) : S2[k].hist = h
  <2>1. /\ Append(h, TRUE) \in DOMAIN P \/ p.hist = Append(h, TRUE)
        /\ \/ Append(h, FALSE) \in DOMAIN P \/ p.hist = Append(h, FALSE)
           \/ \E k \in 1..(Len(S) - 1) : S[k].hist = h
    BY <1>3, <1>4 DEF Tried
  <2>2. Append(h, TRUE) \in DOMAIN P2
    BY <2>1 DEF Grows
  <2>3. ASSUME NEW k \in 1..(Len(S) - 1), S[k].hist = h
        PROVE  \E m \in 1..(Len(S2) - 1) : S2[m].hist = h
    <3>1. k \in 1..(Len(S2) - 1)
      OBVIOUS
    <3> QED
      BY <2>3, <3>1
  <2> QED
    BY <2>1, <2>2, <2>3 DEF Grows
<1>5. ASSUME P2[h] \in ExitOf, \E i \in DOMAIN h : h[i]
      PROVE  P2[h].how \in {"success", "scriptfail"}
  <2>1. P[h].how \in {"success", "scriptfail"} \/ p.status = P[h].how
    BY <1>2, <1>5 DEF Tried
  <2>2. P[h].how \in Exits
    BY <1>2, <1>5, FailTestAssumption DEF ExitOf
  <2> QED
    BY <1>2, <2>1, <2>2 DEF Exits
<1> QED
  BY <1>2, <1>4, <1>5 DEF Tried

\* Learning what the code under test does next keeps the questions before it.
LEMMA PastLearned ==
    ASSUME NEW P, NEW P2, Grows(P, P2), NEW h, Traced(P, h)
    PROVE  Past(P2, h)
BY DEF Traced, Past, Grows

\* The running process makes a move of the first run, c.
LEMMA RunKnown ==
    ASSUME NEW P, NEW P2, NEW S \in Seq(Process), Len(S) \in Nat \ {0}, NEW S2,
           NEW p \in Process, S[Len(S)] = p, p.status = "running",
           NEW c, Learns(P, p.hist, c, P2), WayDown(P, S), Known(P, S),
           \/ c \in ExitOf /\ TopIs(S, S2, Die(p, c.how))
           \/ c \in CallOf /\ Unasked(p, c) /\ TopIs(S, S2, Answer(p, FALSE))
           \/ c \in CallOf /\ ~Unasked(p, c) /\ TopsAre(S, S2, Waiting(p, c), Child(p, c))
    PROVE  WayDown(P2, S2) /\ Known(P2, S2)
<1>1. Grows(P, P2) /\ p.hist \in DOMAIN P2 /\ P2[p.hist] = c /\ DOMAIN P2 = DOMAIN P \cup {p.hist}
  <2>1. PICK h : h = p.hist
    OBVIOUS
  <2>2. Learns(P, h, c, P2)
    BY <2>1, Zenon
  <2>3. Grows(P, P2) /\ h \in DOMAIN P2 /\ P2[h] = c /\ DOMAIN P2 = DOMAIN P \cup {h}
    BY <2>2, LearnsMeans
  <2> QED
    BY <2>1, <2>3
<1>2. WayDown(P2, S)
  BY <1>1, WayGrows
<1>3. Goes(P2, p) /\ Traced(P2, p.hist) /\ Decided(P2, p.hist, p.decisions, Len(p.hist))
  BY <1>2 DEF WayDown, Goes
<1>4. c \in CallOf => (Unasked(p, c) <=> ~AsksAt(P2, p.hist, Len(p.hist)))
  BY <1>1, <1>3, UnaskedMeans
<1>5. p.hist \in Seq(BOOLEAN) /\ Past(P2, p.hist)
  <2>1. Traced(P, p.hist)
    BY DEF WayDown, Goes
  <2> QED
    BY <1>1, <2>1, PastLearned DEF Process
<1>6. ASSUME Len(S2) \in Nat, Len(S2) >= Len(S),
             \A k \in 1..(Len(S) - 1) : S2[k].hist = S[k].hist,
             Tried(P2, S2, p.hist)
      PROVE  Known(P2, S2)
  <2> SUFFICES ASSUME NEW h \in DOMAIN P2
               PROVE  h \in Seq(BOOLEAN) /\ Past(P2, h) /\ Tried(P2, S2, h)
    BY DEF Known
  <2>1. CASE h = p.hist
    BY <1>5, <1>6, <2>1
  <2>2. CASE h \in DOMAIN P
    <3>1. h \in Seq(BOOLEAN) /\ Past(P, h) /\ Tried(P, S, h)
      BY <2>2 DEF Known
    <3> QED
      BY <1>1, <1>6, <2>2, <3>1, TriedStays
  <2> QED
    BY <1>1, <2>1, <2>2
<1>7. \A x : ~(x \in CallOf /\ x \in ExitOf)
  BY DEF CallOf, ExitOf
<1>8. CASE c \in ExitOf /\ TopIs(S, S2, Die(p, c.how))
  <2>1. PICK q : q = Die(p, c.how)
    OBVIOUS
  <2>2. q.hist = p.hist /\ q.status = c.how /\ TopIs(S, S2, q)
    BY <1>8, <2>1, DieFields
  <2>3. Goes(P2, q)
    BY <1>1, <1>3, <1>8, <2>1, DieGoes
  <2>4. Follows(P2, p, q)
    BY <2>2 DEF Follows, ChildOf
  <2>5. WayDown(P2, S2)
    BY <1>2, <2>2, <2>3, <2>4, WayReplaced
  <2>6. Len(S2) = Len(S) /\ S2[Len(S)] = q /\ \A k \in 1..(Len(S) - 1) : S2[k] = S[k]
    BY <2>2 DEF TopIs
  <2>7. Tried(P2, S2, p.hist)
    BY <1>1, <1>7, <1>8, <2>2, <2>6 DEF Tried, Forks
  <2> QED
    BY <1>6, <2>5, <2>6, <2>7
<1>9. CASE c \in CallOf /\ Unasked(p, c) /\ TopIs(S, S2, Answer(p, FALSE))
  <2>1. PICK q : q = Answer(p, FALSE)
    OBVIOUS
  <2>2. Goes(P2, q)
    BY <1>1, <1>3, <1>4, <1>9, <2>1, AnswerGoes, Zenon
  <2>3. Follows(P2, p, q)
    BY <2>1, AnswerFollows
  <2>4. WayDown(P2, S2)
    BY <1>2, <1>9, <2>1, <2>2, <2>3, WayReplaced
  <2>5. Len(S2) = Len(S) /\ \A k \in 1..(Len(S) - 1) : S2[k] = S[k]
    BY <1>9 DEF TopIs
  <2>6. Tried(P2, S2, p.hist)
    BY <1>1, <1>4, <1>7, <1>9 DEF Tried, Forks
  <2> QED
    BY <1>6, <2>4, <2>5, <2>6
<1>10. CASE c \in CallOf /\ ~Unasked(p, c) /\ TopsAre(S, S2, Waiting(p, c), Child(p, c))
  <2>1. PICK q, r : q = Waiting(p, c) /\ r = Child(p, c)
    OBVIOUS
  <2>2. AsksAt(P2, p.hist, Len(p.hist))
    BY <1>4, <1>10
  <2>3. Waits(P2, q) /\ Goes(P2, r) /\ ChildOf(P2, q, r)
    BY <1>1, <1>3, <1>10, <2>1, <2>2, ForkGoes
  <2>4. q.hist = p.hist /\ r.hist = Append(p.hist, TRUE) /\ r.status = "running"
    BY <1>10, <2>1, ForkFields, ForkType
  <2>5. /\ Len(S2) = Len(S) + 1 /\ S2[Len(S)] = q /\ S2[Len(S) + 1] = r
        /\ \A k \in 1..(Len(S) - 1) : S2[k] = S[k]
    BY <1>10, <2>1 DEF TopsAre
  <2>6. WayDown(P2, S2)
    BY <1>2, <1>10, <2>1, <2>3, <2>4, WayPushed
  <2>7. Tried(P2, S2, p.hist)
    <3>1. S2[Len(S2)].status = "running" /\ S2[Len(S2)].hist = Append(p.hist, TRUE)
      BY <2>4, <2>5
    <3>2. Len(S) \in 1..(Len(S2) - 1) /\ S2[Len(S)].hist = p.hist
      BY <2>4, <2>5
    <3> QED
      BY <1>1, <1>7, <1>10, <3>1, <3>2 DEF Tried
  <2> QED
    BY <1>6, <2>5, <2>6, <2>7
<1> QED
  BY <1>8, <1>9, <1>10

\* A child that ended well is forgotten.
LEMMA ReapKnown ==
    ASSUME NEW P, NEW S \in Seq(Process), Len(S) \in Nat, Len(S) > 1, NEW S2,
           NEW p \in Process, S[Len(S) - 1] = p, p.status = "running",
           S[Len(S)].status \in {"success", "scriptfail"},
           TopLeft(S, S2, Answer(p, FALSE)), WayDown(P, S), Known(P, S)
    PROVE  WayDown(P, S2) /\ Known(P, S2)
<1>1. PICK q : q = Answer(p, FALSE)
  OBVIOUS
<1>2. /\ q.hist = Append(p.hist, FALSE) /\ q.status = "running"
      /\ Len(S2) = Len(S) - 1 /\ S2[Len(S) - 1] = q /\ \A k \in 1..(Len(S) - 2) : S2[k] = S[k]
  BY <1>1, AnswerFields DEF TopLeft
<1>3. Waits(P, p) /\ p.hist \in DOMAIN P /\ P[p.hist] \in CallOf
  <2>1. Len(S) - 1 \in 1..(Len(S) - 1)
    OBVIOUS
  <2>2. Waits(P, S[Len(S) - 1]) /\ ChildOf(P, S[Len(S) - 1], S[(Len(S) - 1) + 1])
    BY <2>1 DEF WayDown
  <2> QED
    BY <2>2 DEF ChildOf
<1>4. Goes(P, q)
  BY <1>1, <1>3, AnswerGoes, Zenon DEF Waits
<1>5. Follows(P, p, q)
  BY <1>1, AnswerFollows
<1>6. WayDown(P, S2)
  BY <1>1, <1>4, <1>5, WayPopped
<1>7. ASSUME NEW h \in DOMAIN P PROVE Tried(P, S2, h)
  <2>1. Tried(P, S, h)
    BY DEF Known
  <2>2. ASSUME Forks(P, h)
        PROVE  /\ Append(h, TRUE) \in DOMAIN P
               /\ \/ Append(h, FALSE) \in DOMAIN P
                  \/ q.hist = Append(h, FALSE)
                  \/ \E k \in 1..(Len(S2) - 1) : S2[k].hist = h
    <3>1. /\ Append(h, TRUE) \in DOMAIN P
          /\ Append(h, FALSE) \in DOMAIN P \/ \E k \in 1..(Len(S) - 1) : S[k].hist = h
      BY <2>1, <2>2 DEF Tried
    <3>2. ASSUME NEW k \in 1..(Len(S) - 1), S[k].hist = h
          PROVE  q.hist = Append(h, FALSE) \/ \E m \in 1..(Len(S2) - 1) : S2[m].hist = h
      <4>1. CASE k = Len(S) - 1
        BY <1>2, <3>2, <4>1
      <4>2. CASE k # Len(S) - 1
        <5>1. k \in 1..(Len(S) - 2) /\ k \in 1..(Len(S2) - 1)
          BY <1>2, <4>2
        <5> QED
          BY <1>2, <3>2, <5>1
      <4> QED
        BY <4>1, <4>2
    <3> QED
      BY <3>1, <3>2
  <2>3. ASSUME P[h] \in ExitOf, \E i \in DOMAIN h : h[i]
        PROVE  P[h].how \in {"success", "scriptfail"}
    BY <2>1, <2>3 DEF Tried
  <2> QED
    BY <1>2, <2>2, <2>3 DEF Tried
<1> QED
  BY <1>6, <1>7 DEF Known

-----------------------------------------------------------------------------
(* The printed path. *)

\* The printed path stays the path to the crash when more of the program is known.
LEMMA CulpritGrows ==
    ASSUME NEW P, NEW P2, Grows(P, P2), NEW q \in Process, NEW d, Culprit(P, q, d)
    PROVE  Culprit(P2, q, d)
<1>1. PICK h : h = q.hist
  OBVIOUS
<1>2. h \in Seq(BOOLEAN) /\ Len(h) \in Nat
  BY <1>1 DEF Process
<1>3. Traced(P, h) /\ Ended(P, q)
  BY <1>1 DEF Culprit
<1>4. Traced(P2, h) /\ Alike(P, h, P2, h, Len(h))
  BY <1>2, <1>3, TracedGrows
<1>5. PICK n \in 1..Len(h) : \E at \in [1..Len(d) -> 0..(n - 1)] : PathOf(P, h, d, at, n)
  BY <1>1 DEF Culprit
<1>6. PICK at \in [1..Len(d) -> 0..(n - 1)] : PathOf(P, h, d, at, n)
  BY <1>5
<1>7. n \in Nat /\ Alike(P, h, P2, h, n)
  BY <1>2, <1>4 DEF Alike
<1>8. Aligned(P2, h, d, at, n)
  <2>1. Aligned(P, h, d, at, n)
    BY <1>6 DEF PathOf
  <2>2. \A i \in 1..Len(d) :
          /\ d[i].loc = d[i].loc /\ d[i].line = d[i].line
          /\ at[i] < Len(h) => d[i].failed = h[at[i] + 1]
          /\ ~(at[i] < Len(h)) => ~d[i].failed
    BY <2>1 DEF Aligned
  <2> QED
    BY <1>7, <2>1, <2>2, AlignedAlike
<1>9. PathOf(P2, h, d, at, n)
  BY <1>6, <1>8 DEF PathOf
<1>10. Ended(P2, q)
  BY <1>3 DEF Ended, Grows
<1> QED
  BY <1>1, <1>4, <1>5, <1>6, <1>9, <1>10 DEF Culprit

\* The last decision is turned into a failure.
Turned(d, d2) == d2 = [d EXCEPT ![Len(d)].failed = TRUE]

\* The path a parent prints leads to the end of its child.
LEMMA PathLeads ==
    ASSUME NEW P, NEW p \in Process, NEW q \in Process, Waits(P, p), ChildOf(P, p, q), Goes(P, q),
           q.status # "running",
           NEW d2, Turned(p.decisions, d2)
    PROVE  Culprit(P, q, d2)
<1>1. PICK h, g, d : h = p.hist /\ g = q.hist /\ d = p.decisions
  OBVIOUS
<1>2. /\ h \in Seq(BOOLEAN) /\ g \in Seq(BOOLEAN) /\ d \in Seq(Decision)
      /\ Len(h) \in Nat /\ Len(g) \in Nat /\ Len(d) \in Nat
  BY <1>1 DEF Process
<1>3. PICK at \in [1..Len(d) -> 0..((Len(h) + 1) - 1)] : Aligned(P, h, d, at, Len(h) + 1)
  BY <1>1 DEF Waits, Decided
<1>4. /\ AsksAt(P, h, Len(h)) /\ Len(h) < Len(g) /\ Pre(g, Len(h)) = h /\ g[Len(h) + 1]
      /\ \A j \in (Len(h) + 1)..(Len(g) - 1) : ~g[j + 1]
  BY <1>1 DEF ChildOf
<1>5. Len(d) # 0 /\ at[Len(d)] = Len(h)
  <2>1. PICK i \in 1..Len(d) : at[i] = Len(h)
    <3>1. Len(h) \in 0..((Len(h) + 1) - 1)
      BY <1>2
    <3> QED
      BY <1>3, <1>4, <3>1 DEF Aligned
  <2>2. CASE i = Len(d)
    BY <2>1, <2>2
  <2>3. CASE i # Len(d)
    <3>1. Len(d) \in 1..Len(d) /\ i < Len(d)
      BY <1>2, <2>3
    <3>2. at[i] < at[Len(d)] /\ at[Len(d)] \in 0..((Len(h) + 1) - 1)
      BY <1>3, <3>1 DEF Aligned
    <3> QED
      BY <1>2, <2>1, <3>2
  <2> QED
    BY <2>2, <2>3
<1>6. \A i \in 1..Len(d) : i # Len(d) => at[i] \in 0..(Len(h) - 1)
  <2> SUFFICES ASSUME NEW i \in 1..Len(d), i # Len(d) PROVE at[i] \in 0..(Len(h) - 1)
    OBVIOUS
  <2>1. Len(d) \in 1..Len(d) /\ i < Len(d)
    BY <1>2
  <2>2. at[i] < at[Len(d)] /\ at[i] \in 0..((Len(h) + 1) - 1)
    BY <1>3, <2>1 DEF Aligned
  <2> QED
    BY <1>2, <1>5, <2>2
<1>7. /\ Len(d2) = Len(d)
      /\ \A i \in 1..Len(d) : /\ d2[i].loc = d[i].loc /\ d2[i].line = d[i].line
                              /\ i # Len(d) => d2[i].failed = d[i].failed
      /\ d2[Len(d)].failed = TRUE
  <2>1. PICK e : e = [d[Len(d)] EXCEPT !.failed = TRUE]
    OBVIOUS
  <2>2. d2 = [d EXCEPT ![Len(d)] = e]
    BY <1>1, <2>1 DEF Turned
  <2>3. Len(d) \in 1..Len(d)
    BY <1>2, <1>5
  <2>4. d[Len(d)] \in Decision
    BY <1>2, <2>3
  <2>5. e.loc = d[Len(d)].loc /\ e.line = d[Len(d)].line /\ e.failed = TRUE
    BY <2>1, <2>4 DEF Decision
  <2>6. Len(d2) = Len(d) /\ d2[Len(d)] = e /\ \A i \in 1..Len(d) : i # Len(d) => d2[i] = d[i]
    BY <1>2, <2>2, <2>3
  <2> QED
    BY <2>5, <2>6
<1>8. /\ \A j \in 0..Len(h) : Pre(g, j) = Pre(h, j)
      /\ \A j \in 1..Len(h) : g[j] = h[j]
  <2>1. Len(h) \in 0..Len(g)
    BY <1>2, <1>4
  <2>2. /\ \A j \in 0..Len(h) : Pre(Pre(g, Len(h)), j) = Pre(g, j)
        /\ \A j \in 1..Len(h) : Pre(g, Len(h))[j] = g[j]
    BY <1>2, <2>1, PreProperties
  <2> QED
    BY <1>4, <2>2
<1>9. PICK n : n = Len(h) + 1
  OBVIOUS
<1>10. n \in 1..Len(g) /\ n \in Nat /\ n - 1 = Len(h)
  BY <1>2, <1>4, <1>9
<1>11. Alike(P, h, P, g, n)
  BY <1>8, <1>10 DEF Alike
<1>12. ASSUME NEW i \in 1..Len(d)
       PROVE  at[i] < Len(g) /\ d2[i].failed = g[at[i] + 1]
  <2>1. CASE i = Len(d)
    <3>1. g[Len(h) + 1] = TRUE
      <4>1. Len(h) + 1 \in 1..Len(g)
        BY <1>2, <1>4
      <4>2. g[Len(h) + 1] \in BOOLEAN
        BY <1>2, <4>1, ElementOfSeq
      <4> QED
        BY <1>4, <4>2
    <3>2. at[i] < Len(g) /\ g[at[i] + 1] = TRUE
      BY <1>4, <1>5, <2>1, <3>1
    <3> QED
      BY <1>7, <2>1, <3>2, Zenon
  <2>2. CASE i # Len(d)
    <3>1. at[i] \in 0..(Len(h) - 1)
      BY <1>6, <2>2
    <3>2. at[i] < Len(g) /\ at[i] < Len(h) /\ at[i] + 1 \in 1..Len(h)
      BY <1>2, <1>4, <3>1
    <3>3. d[i].failed = h[at[i] + 1]
      BY <1>3, <3>2 DEF Aligned
    <3>4. d2[i].failed = d[i].failed
      BY <1>7, <2>2, Zenon
    <3> QED
      BY <1>8, <3>2, <3>3, <3>4
  <2> QED
    BY <2>1, <2>2
<1>13. Aligned(P, g, d2, at, n)
  <2>1. Aligned(P, h, d, at, n)
    BY <1>3, <1>9
  <2>2. \A i \in 1..Len(d) :
          /\ d2[i].loc = d[i].loc /\ d2[i].line = d[i].line
          /\ at[i] < Len(g) => d2[i].failed = g[at[i] + 1]
          /\ ~(at[i] < Len(g)) => ~d2[i].failed
    BY <1>7, <1>12, Zenon
  <2>3. Len(d2) = Len(d) /\ n \in Nat
    BY <1>7, <1>10
  <2> QED
    BY <1>11, <2>1, <2>2, <2>3, AlignedAlike
<1>14. PathOf(P, g, d2, at, n)
  BY <1>4, <1>9, <1>13 DEF PathOf
<1>15. at \in [1..Len(d2) -> 0..(n - 1)]
  BY <1>3, <1>7, <1>9
<1>16. Traced(P, g) /\ Ended(P, q)
  BY <1>1 DEF Goes
<1>17. \E m \in 1..Len(g) : \E a \in [1..Len(d2) -> 0..(m - 1)] : PathOf(P, g, d2, a, m)
  BY <1>10, <1>14, <1>15
<1> QED
  BY <1>1, <1>16, <1>17 DEF Culprit

-----------------------------------------------------------------------------
(* The first run as a whole. *)

\* What a step of the process on the top makes of the stack.
LEMMA RunStack ==
    ASSUME IInv, Run
    PROVE  /\ procs \in Seq(Process) /\ Len(procs) \in Nat \ {0}
           /\ procs[Len(procs)] \in Process /\ procs[Len(procs)].status = "running"
           /\ UNCHANGED <<mode, reports, culprit>>
           /\ \E c \in CallOf \cup ExitOf :
                /\ Learns(prog, procs[Len(procs)].hist, c, prog')
                /\ mode = "record" =>
                     \/ c \in ExitOf /\ TopIs(procs, procs', Die(procs[Len(procs)], c.how))
                     \/ /\ c \in CallOf /\ Unasked(procs[Len(procs)], c)
                        /\ TopIs(procs, procs', Answer(procs[Len(procs)], FALSE))
                     \/ /\ c \in CallOf /\ ~Unasked(procs[Len(procs)], c)
                        /\ TopsAre(procs, procs', Waiting(procs[Len(procs)], c),
                                   Child(procs[Len(procs)], c))
<1>1. procs \in Seq(Process) /\ procs # <<>> /\ Len(procs) \in Nat \ {0}
  BY DEF IInv, TypeOK
<1>2. Cur \in Process /\ Cur = procs[Len(procs)] /\ Top = Len(procs)
  BY <1>1 DEF Cur, Top
<1>3. Cur.status = "running" /\ UNCHANGED <<mode, reports, culprit>>
  BY DEF Run
<1>4. ASSUME NEW q \in Process, procs' = [procs EXCEPT ![Top] = q]
      PROVE  TopIs(procs, procs', q)
  BY <1>1, <1>4, ReplaceTop DEF TopIs
<1>5. ASSUME NEW q \in Process, NEW r \in Process,
             procs' = Append([procs EXCEPT ![Top] = q], r)
      PROVE  TopsAre(procs, procs', q, r)
  BY <1>1, <1>5, PushTop DEF TopsAre
<1>6. PICK c \in CallOf \cup ExitOf :
        /\ Learns(prog, Cur.hist, c, prog')
        /\ mode = "record" =>
             \/ c \in ExitOf /\ procs' = [procs EXCEPT ![Top] = Die(Cur, c.how)]
             \/ /\ c \in CallOf /\ Unasked(Cur, c)
                /\ procs' = [procs EXCEPT ![Top] = Answer(Cur, FALSE)]
             \/ /\ c \in CallOf /\ ~Unasked(Cur, c)
                /\ procs' = Append([procs EXCEPT ![Top] = Waiting(Cur, c)], Child(Cur, c))
  BY RunMoves DEF Learns
<1>7. c \in ExitOf => Die(Cur, c.how) \in Process
  <2>1. c \in ExitOf => c.how \in Statuses
    BY FailTestAssumption DEF ExitOf, Statuses
  <2> QED
    BY <1>2, <2>1, DieType
<1>8. Answer(Cur, FALSE) \in Process
  BY <1>2, AnswerType
<1>9. c \in CallOf => Waiting(Cur, c) \in Process /\ Child(Cur, c) \in Process
  BY <1>2, ForkType
<1>10. mode = "record" =>
         \/ c \in ExitOf /\ TopIs(procs, procs', Die(Cur, c.how))
         \/ /\ c \in CallOf /\ Unasked(Cur, c)
            /\ TopIs(procs, procs', Answer(Cur, FALSE))
         \/ /\ c \in CallOf /\ ~Unasked(Cur, c)
            /\ TopsAre(procs, procs', Waiting(Cur, c), Child(Cur, c))
  BY <1>4, <1>5, <1>6, <1>7, <1>8, <1>9, Zenon
<1> QED
  BY <1>1, <1>2, <1>3, <1>6, <1>10, Zenon

\* A step of the code under test keeps Ways.
LEMMA RunWays == IInv /\ Ways /\ Run => Ways'
<1> SUFFICES ASSUME IInv, Ways, Run PROVE Ways'
  OBVIOUS
<1>1. PICK c \in CallOf \cup ExitOf :
        /\ Learns(prog, procs[Len(procs)].hist, c, prog')
        /\ mode = "record" =>
             \/ c \in ExitOf /\ TopIs(procs, procs', Die(procs[Len(procs)], c.how))
             \/ /\ c \in CallOf /\ Unasked(procs[Len(procs)], c)
                /\ TopIs(procs, procs', Answer(procs[Len(procs)], FALSE))
             \/ /\ c \in CallOf /\ ~Unasked(procs[Len(procs)], c)
                /\ TopsAre(procs, procs', Waiting(procs[Len(procs)], c),
                           Child(procs[Len(procs)], c))
  BY RunStack, Zenon
<1>2. /\ procs \in Seq(Process) /\ Len(procs) \in Nat \ {0}
      /\ procs[Len(procs)] \in Process /\ procs[Len(procs)].status = "running"
      /\ UNCHANGED <<mode, reports, culprit>>
  BY RunStack, Zenon
<1>3. Grows(prog, prog')
  BY <1>1, LearnsMeans
<1>4. ASSUME Exploring' PROVE WayDown(prog', procs') /\ Known(prog', procs')
  <2>1. mode = "record" /\ WayDown(prog, procs) /\ Known(prog, procs)
    BY <1>2, <1>4 DEF Exploring, Ways, Recorded, Explored
  <2> QED
    BY <1>1, <1>2, <2>1, RunKnown
<1>5. Printed'
  <2> SUFFICES ASSUME reports' # <<>> PROVE Culprit(prog', culprit', OrigFailpath')
    BY DEF Printed
  <2>1. culprit \in Process /\ Culprit(prog, culprit, OrigFailpath)
    BY <1>2 DEF IInv, TypeOK, Ways, Printed
  <2>2. Culprit(prog', culprit, OrigFailpath)
    BY <1>3, <2>1, CulpritGrows
  <2> QED
    BY <1>2, <2>2 DEF OrigFailpath
<1>6. EveryCombinationTried'
  <2>1. mode' # "done"
    BY <1>2 DEF Run
  <2> QED
    BY <2>1 DEF EveryCombinationTried
<1> QED
  BY <1>4, <1>5, <1>6 DEF Ways, Recorded, Explored

\* The end of a child keeps Ways: a good one is forgotten, a bad one gives the path.
LEMMA ReapWays == IInv /\ Ways /\ (ReapGood \/ ReapBad) => Ways'
<1> SUFFICES ASSUME IInv, Ways, ReapGood \/ ReapBad PROVE Ways'
  OBVIOUS
<1>1. /\ procs \in Seq(Process) /\ Top > 1
      /\ Top = Len(procs) /\ Len(procs) \in Nat /\ Len(procs) > 1
  <2>1. Top > 1
    BY DEF ReapGood, ReapBad
  <2> QED
    BY <2>1 DEF IInv, TypeOK, Top
<1>2. /\ Parent \in Process /\ Parent = procs[Len(procs) - 1] /\ Parent.status = "running"
      /\ Cur \in Process /\ Cur = procs[Len(procs)] /\ mode = "record"
  BY <1>1 DEF Parent, Cur, IInv, Stack, TypeOK
<1>3. mode' = mode /\ prog' = prog
  BY DEF ReapGood, ReapBad
<1>4. EveryCombinationTried'
  BY <1>2, <1>3 DEF EveryCombinationTried
<1>5. CASE ReapGood
  <2>1. UNCHANGED <<reports, culprit>> /\ procs' = [Waiters EXCEPT ![Top - 1] = Answer(Parent, FALSE)]
        /\ Cur.status \in {"success", "scriptfail"}
    BY <1>5 DEF ReapGood
  <2>2. Printed'
    BY <1>3, <2>1 DEF Ways, Printed, OrigFailpath
  <2>3. Answer(Parent, FALSE) \in Process
    BY <1>2, AnswerType
  <2>4. TopLeft(procs, procs', Answer(Parent, FALSE))
    BY <1>1, <2>1, <2>3, PopTop DEF TopLeft
  <2>5. ASSUME Exploring' PROVE WayDown(prog', procs') /\ Known(prog', procs')
    <3>1. WayDown(prog, procs) /\ Known(prog, procs)
      BY <1>3, <2>1, <2>5 DEF Exploring, Ways, Recorded, Explored
    <3>2. WayDown(prog, procs') /\ Known(prog, procs')
      BY <1>1, <1>2, <2>1, <2>4, <3>1, ReapKnown
    <3> QED
      BY <1>3, <3>2
  <2> QED
    BY <1>4, <2>2, <2>5 DEF Ways, Recorded, Explored
<1>6. CASE ReapBad
  <2>1. CASE Cur.status = "silent"
    <3>1. UNCHANGED <<reports, culprit>>
      BY <1>6, <2>1 DEF ReapBad
    <3>2. reports # <<>>
      BY <1>2, <2>1 DEF IInv, ReportedOnce
    <3>3. Printed' /\ ~Exploring'
      BY <1>3, <3>1, <3>2 DEF Ways, Printed, OrigFailpath, Exploring
    <3> QED
      BY <1>4, <3>3 DEF Ways, Recorded, Explored
  <2>2. CASE Cur.status # "silent"
    <3>1. PICK d : Turned(Parent.decisions, d)
      BY DEF Turned
    <3>2. reports' = Append(reports, [path |-> d, status |-> Cur.status]) /\ culprit' = Cur
      BY <1>6, <2>2, <3>1 DEF ReapBad, Turned
    <3>3. reports = <<>> /\ Exploring
      BY <1>2, <2>2 DEF IInv, ReportedOnce, Exploring
    <3>4. reports' # <<>> /\ OrigFailpath' = d
      BY <3>2, <3>3 DEF OrigFailpath
    <3>5. Waits(prog, Parent) /\ ChildOf(prog, Parent, Cur) /\ Goes(prog, Cur)
      <4>1. WayDown(prog, procs)
        BY <3>3 DEF Ways, Recorded
      <4>2. Len(procs) - 1 \in 1..(Len(procs) - 1) /\ (Len(procs) - 1) + 1 = Len(procs)
        BY <1>1
      <4>3. /\ Waits(prog, procs[Len(procs) - 1])
            /\ ChildOf(prog, procs[Len(procs) - 1], procs[(Len(procs) - 1) + 1])
            /\ Goes(prog, procs[Len(procs)])
        BY <4>1, <4>2 DEF WayDown
      <4> QED
        BY <1>2, <4>2, <4>3
    <3>6. Cur.status # "running"
      BY <1>6 DEF ReapBad
    <3>7. Culprit(prog, Cur, d)
      BY <1>2, <3>1, <3>5, <3>6, PathLeads
    <3>8. Printed' /\ ~Exploring'
      BY <1>3, <3>2, <3>4, <3>7 DEF Printed, Exploring
    <3> QED
      BY <1>4, <3>8 DEF Ways, Recorded, Explored
  <2> QED
    BY <2>1, <2>2
<1> QED
  BY <1>5, <1>6

\* A question that was asked is one that forks.
LEMMA AskedForks ==
    ASSUME TypeOK, NEW h \in DOMAIN prog, Past(prog, h), Asked(h)
    PROVE  Forks(prog, h)
<1>1. h \in Seq(BOOLEAN) /\ prog[h] \in CallOf \cup ExitOf
  BY DEF TypeOK
<1>2. prog[h] \in CallOf
  BY <1>1 DEF Asked, ExitOf
<1>3. Pre(h, Len(h)) = h
  BY <1>1, PreProperties
<1>4. \A k \in 0..(Len(h) - 1) : prog[Pre(h, k)] \in CallOf /\ prog[Pre(h, k)].op # "exit"
  BY DEF Past, CallOf
<1>5. AsksAt(prog, h, Len(h))
  <2>1. ~prog[h].sup
    BY DEF Asked
  <2>2. ASSUME prog[h].op = "once", NEW i \in 0..(Len(h) - 1), prog[Pre(h, i)].loc = prog[h].loc
        PROVE  prog[Pre(h, i)].sup
    BY <1>4, <2>2 DEF Asked, Pre
  <2> QED
    BY <1>3, <2>1, <2>2 DEF AsksAt
<1> QED
  BY <1>2, <1>5 DEF Forks

\* At the end of a run without a report there is nobody left to take a branch.
LEMMA FinishWays == IInv /\ Ways /\ Finish => Ways'
<1> SUFFICES ASSUME IInv, Ways, Finish PROVE Ways'
  OBVIOUS
<1>1. mode' = "done" /\ UNCHANGED <<prog, procs, reports, culprit>> /\ Top = 1 /\ Cur.status # "running"
  BY DEF Finish
<1>2. Printed' /\ ~Exploring'
  BY <1>1 DEF Ways, Printed, OrigFailpath, Exploring
<1>3. ASSUME reports = <<>>, NEW h \in DOMAIN prog
      PROVE  /\ Asked(h) => Append(h, TRUE) \in DOMAIN prog /\ Append(h, FALSE) \in DOMAIN prog
             /\ prog[h].op = "exit" /\ (\E i \in DOMAIN h : h[i])
                  => prog[h].how \in {"success", "scriptfail"}
  <2>1. Exploring
    BY <1>3 DEF Finish, IInv, Stack, Exploring
  <2>2. /\ WayDown(prog, procs) /\ h \in Seq(BOOLEAN) /\ Past(prog, h) /\ Tried(prog, procs, h)
    BY <2>1 DEF Ways, Recorded, Explored, Known
  <2>3. Len(procs) = 1 /\ procs[1].status # "running" /\ ~(\E k \in 1..(Len(procs) - 1) : TRUE)
    BY <1>1 DEF Top, Cur
  <2>4. \A j \in 1..Len(procs[1].hist) : ~procs[1].hist[j]
    BY <2>2 DEF WayDown
  <2>5. Asked(h) => Append(h, TRUE) \in DOMAIN prog /\ Append(h, FALSE) \in DOMAIN prog
    <3> SUFFICES ASSUME Asked(h)
                 PROVE  Append(h, TRUE) \in DOMAIN prog /\ Append(h, FALSE) \in DOMAIN prog
      OBVIOUS
    <3>1. Forks(prog, h)
      BY <2>2, AskedForks DEF IInv
    <3> QED
      BY <2>2, <2>3, <3>1 DEF Tried
  <2>6. prog[h].op = "exit" => prog[h] \in ExitOf
    BY DEF IInv, TypeOK, CallOf
  <2>7. DOMAIN h = 1..Len(h)
    BY <2>2
  <2>8. prog[h].op = "exit" /\ (\E i \in DOMAIN h : h[i]) => prog[h].how \in {"success", "scriptfail"}
    BY <2>2, <2>3, <2>4, <2>6, <2>7 DEF Tried
  <2> QED
    BY <2>5, <2>8
<1>4. EveryCombinationTried'
  BY <1>1, <1>3 DEF EveryCombinationTried, Asked
<1> QED
  BY <1>2, <1>4 DEF Ways, Recorded, Explored

\* The replay begins with what the first run found out.
LEMMA StartReplayWays == IInv /\ Ways /\ StartReplay => Ways'
BY DEF StartReplay, Ways, Recorded, Explored, Printed, Exploring, OrigFailpath, EveryCombinationTried

\* At first nothing is known and nothing decided.
LEMMA InitWays == Init => Ways
<1> SUFFICES ASSUME Init PROVE Ways
  OBVIOUS
<1>1. /\ DOMAIN prog = {} /\ Len(procs) = 1 /\ procs[1] = FreshProcess(0)
      /\ reports = <<>> /\ mode # "done"
  BY DEF Init
<1>2. PICK p : p = FreshProcess(0)
  OBVIOUS
<1>3. p.hist = <<>> /\ p.decisions = <<>> /\ p.status = "running"
  BY <1>2 DEF FreshProcess
<1>4. PICK e : e = <<>> /\ Len(e) = 0
  OBVIOUS
<1>5. PICK at : at \in [1..0 -> 0..(0 - 1)]
  <2>1. [i \in 1..0 |-> 0] \in [1..0 -> 0..(0 - 1)]
    OBVIOUS
  <2> QED
    BY <2>1
<1>6. Aligned(prog, e, e, at, 0)
  BY <1>4 DEF Aligned
<1>7. Decided(prog, e, e, 0)
  BY <1>4, <1>5, <1>6, Zenon DEF Decided
<1>8. Traced(prog, e)
  BY <1>4 DEF Traced
<1>9. WayDown(prog, procs)
  <2>1. Len(p.hist) = 0 /\ p.hist = e /\ p.decisions = e
    BY <1>3, <1>4
  <2>2. Goes(prog, p)
    BY <1>3, <1>7, <1>8, <2>1 DEF Goes
  <2> QED
    BY <1>1, <1>2, <2>1, <2>2 DEF WayDown
<1> QED
  BY <1>1, <1>9 DEF Ways, Recorded, Explored, Known, Printed, EveryCombinationTried

\* Ways holds all the time.
LEMMA AlwaysWays == Spec => []Ways
<1>1. IInv /\ Ways /\ [Next]_vars => Ways'
  <2>1. Ways /\ UNCHANGED vars => Ways'
    BY DEF vars, Ways, Recorded, Explored, Printed, Exploring, OrigFailpath, EveryCombinationTried,
           Asked
  <2> QED
    BY <2>1, RunWays, ReapWays, FinishWays, StartReplayWays DEF Next
<1> QED
  BY <1>1, InitWays, Invariance, PTL DEF Spec

\* For every program and every set of failure points: when --failtest has nothing to
\* report, both answers of every failure point it met have been tried, and no branch in
\* which something failed ended in a crash or a barf (should_i_fail).
THEOREM EveryCombinationAlwaysTried == Spec => []EveryCombinationTried
<1>1. Ways => EveryCombinationTried
  BY DEF Ways
<1> QED
  BY <1>1, AlwaysWays, PTL

-----------------------------------------------------------------------------
(* The replay. *)

\* No once-only name is part of another name: then the strstr of should_i_fail_once finds
\* the decision it looks for.
Exact == \A l \in OnceLoc, m \in Loc : <<l, m>> \in Within => l = m

\* The replay has had the first j answers of g and has read the decisions before f, which
\* are those of these answers.
OnPath(P, g, d, j, f) ==
    \E n \in 1..Len(g) : \E at \in [1..Len(d) -> 0..(n - 1)] :
        /\ PathOf(P, g, d, at, n)
        /\ \A i \in 1..Len(d) : (f = 0 \/ i < f) <=> at[i] < j

\* What AlreadyReplayed says when names are exact.
Replayed(d, f, l) == \E i \in 1..Len(d) : d[i].loc = l /\ i < f

\* With exact names, AlreadyReplayed finds a decision for the place among those read.
LEMMA ReplayedMeans ==
    ASSUME Exact, NEW p \in Process, NEW l \in OnceLoc, NEW d \in Seq(Decision), d = OrigFailpath
    PROVE  AlreadyReplayed(p, l) <=> Replayed(d, p.failpath, l)
<1> DEFINE hits == {i \in DOMAIN d : <<l, d[i].loc>> \in Within}
<1>1. Len(d) \in Nat /\ DOMAIN d = 1..Len(d) /\ \A i \in 1..Len(d) : d[i].loc \in Loc
  <2>1. Len(d) \in Nat /\ DOMAIN d = 1..Len(d) /\ \A i \in 1..Len(d) : d[i] \in Decision
    OBVIOUS
  <2> QED
    BY <2>1 DEF Decision
<1>2. hits = {i \in 1..Len(d) : d[i].loc = l}
  BY <1>1, FailTestAssumption DEF Exact
<1>3. AlreadyReplayed(p, l) <=> \E i \in hits : /\ \A j \in hits : i <= j
                                                /\ i < p.failpath /\ d[i].loc = l
  BY DEF AlreadyReplayed
<1>4. p.failpath \in Nat
  BY DEF Process
<1> HIDE DEF hits
<1>5. ASSUME NEW i \in 1..Len(d), d[i].loc = l, i < p.failpath
      PROVE  \E m \in hits : /\ \A j \in hits : m <= j
                             /\ m < p.failpath /\ d[m].loc = l
  <2>1. i \in hits /\ hits \subseteq Nat
    BY <1>1, <1>2, <1>5
  <2>2. PICK m \in hits : \A j \in hits : m <= j
    BY <2>1, Least
  <2>3. m \in Nat /\ m <= i /\ d[m].loc = l
    BY <1>2, <2>1, <2>2
  <2>4. m < p.failpath
    BY <1>1, <1>4, <1>5, <2>3
  <2> QED
    BY <2>2, <2>3, <2>4
<1>6. AlreadyReplayed(p, l) => Replayed(d, p.failpath, l)
  BY <1>2, <1>3 DEF Replayed
<1>7. Replayed(d, p.failpath, l) => AlreadyReplayed(p, l)
  BY <1>3, <1>5 DEF Replayed
<1> QED
  BY <1>6, <1>7

\* While there is path left, the replay takes no decision exactly where the first run was
\* not asked.
LEMMA SkippedMeans ==
    ASSUME NEW P, NEW g \in Seq(BOOLEAN), NEW d \in Seq(Decision), NEW n \in 1..Len(g),
           NEW at, Aligned(P, g, d, at, n), NEW j \in 0..(n - 1), NEW f \in Nat,
           \A i \in 1..Len(d) : i < f <=> at[i] < j,
           NEW c, c = P[Pre(g, j)]
    PROVE  (c.sup \/ (c.op = "once" /\ Replayed(d, f, c.loc))) <=> ~AsksAt(P, g, j)
<1>1. Len(g) \in Nat /\ n \in Nat /\ Len(d) \in Nat
  OBVIOUS
<1>2. ASSUME c.op = "once", Replayed(d, f, c.loc) PROVE ~AsksAt(P, g, j)
  <2>1. PICK i \in 1..Len(d) : d[i].loc = c.loc /\ i < f
    BY <1>2 DEF Replayed
  <2>2. at[i] < j /\ at[i] \in 0..(n - 1) /\ AsksAt(P, g, at[i]) /\ P[Pre(g, at[i])].loc = c.loc
    BY <2>1 DEF Aligned
  <2>3. at[i] \in 0..(j - 1) /\ ~P[Pre(g, at[i])].sup
    BY <1>1, <2>2 DEF AsksAt
  <2> QED
    BY <1>2, <2>2, <2>3 DEF AsksAt
<1>3. ASSUME ~c.sup, ~AsksAt(P, g, j) PROVE c.op = "once" /\ Replayed(d, f, c.loc)
  <2> DEFINE T == {k \in 0..(j - 1) : P[Pre(g, k)].loc = c.loc /\ ~P[Pre(g, k)].sup}
  <2>1. c.op = "once" /\ T # {} /\ T \subseteq Nat
    BY <1>1, <1>3 DEF AsksAt
  <2>2. PICK m \in T : \A k \in T : m <= k
    BY <2>1, Least
  <2>3. /\ m \in 0..(j - 1) /\ P[Pre(g, m)].loc = c.loc /\ ~P[Pre(g, m)].sup
        /\ \A k \in 0..(m - 1) : P[Pre(g, k)].loc = c.loc => P[Pre(g, k)].sup
    BY <1>1, <2>2
  <2>4. AsksAt(P, g, m) /\ m \in 0..(n - 1)
    BY <1>1, <2>3 DEF AsksAt
  <2>5. PICK i \in 1..Len(d) : at[i] = m
    BY <2>4 DEF Aligned
  <2>6. d[i].loc = c.loc
    BY <2>3, <2>5 DEF Aligned
  <2>7. i < f
    BY <1>1, <2>3, <2>5
  <2> QED
    BY <2>1, <2>6, <2>7 DEF Replayed
<1>4. c.sup => ~AsksAt(P, g, j)
  BY DEF AsksAt
<1> QED
  BY <1>2, <1>3, <1>4

\* What the replay does next is what the first run did.
LEMMA ReplaySays ==
    ASSUME NEW P, NEW g \in Seq(BOOLEAN), NEW d \in Seq(Decision), Traced(P, g),
           NEW j \in 0..(Len(g) - 1), NEW f \in Nat, OnPath(P, g, d, j, f),
           NEW c \in CallOf, c = P[Pre(g, j)],
           NEW skip \in BOOLEAN, skip <=> c.sup \/ (c.op = "once" /\ Replayed(d, f, c.loc))
    PROVE  /\ f = 0 => ~g[j + 1] /\ OnPath(P, g, d, j + 1, 0)
           /\ f # 0 /\ skip => ~g[j + 1] /\ OnPath(P, g, d, j + 1, f)
           /\ f # 0 /\ ~skip /\ f > Len(d) => ~g[j + 1] /\ OnPath(P, g, d, j + 1, 0)
           /\ f # 0 /\ ~skip /\ ~(f > Len(d)) =>
                /\ d[f].loc = c.loc /\ d[f].line = c.line /\ d[f].failed = g[j + 1]
                /\ OnPath(P, g, d, j + 1, f + 1)
<1>1. Len(g) \in Nat /\ Len(d) \in Nat /\ j \in Nat
  OBVIOUS
<1>2. PICK n \in 1..Len(g) : \E at \in [1..Len(d) -> 0..(n - 1)] :
        /\ PathOf(P, g, d, at, n)
        /\ \A i \in 1..Len(d) : (f = 0 \/ i < f) <=> at[i] < j
  BY DEF OnPath
<1>3. PICK at \in [1..Len(d) -> 0..(n - 1)] :
        /\ PathOf(P, g, d, at, n)
        /\ \A i \in 1..Len(d) : (f = 0 \/ i < f) <=> at[i] < j
  BY <1>2
<1>4. /\ Aligned(P, g, d, at, n) /\ n \in Nat /\ \A i \in 1..Len(d) : at[i] \in 0..(n - 1)
      /\ \A k \in n..(Len(g) - 1) : ~g[k + 1]
      /\ \A i, k \in 1..Len(d) : i < k => at[i] < at[k]
  BY <1>1, <1>3, SMTT(60) DEF PathOf, Aligned
<1>5. ASSUME NEW e \in Nat, \A i \in 1..Len(d) : (e = 0 \/ i < e) <=> at[i] < j + 1
      PROVE  OnPath(P, g, d, j + 1, e)
  BY <1>3, <1>5 DEF OnPath
<1>6. CASE j >= n
  <2>1. ~g[j + 1] /\ \A i \in 1..Len(d) : at[i] < j /\ at[i] < j + 1
    BY <1>1, <1>4, <1>6
  <2>2. f = 0 \/ f > Len(d)
    <3>1. CASE Len(d) = 0
      BY <3>1
    <3>2. CASE Len(d) # 0
      <4>1. Len(d) \in 1..Len(d)
        BY <1>1, <3>2
      <4> QED
        BY <1>1, <1>3, <2>1, <4>1
    <3> QED
      BY <3>1, <3>2
  <2>3. OnPath(P, g, d, j + 1, 0)
    BY <1>5, <2>1
  <2>4. f # 0 => OnPath(P, g, d, j + 1, f)
    BY <1>1, <1>5, <2>1, <2>2
  <2> QED
    BY <2>1, <2>2, <2>3, <2>4
<1>7. CASE j < n
  <2>1. j \in 0..(n - 1)
    BY <1>1, <1>4, <1>7
  <2>2. ~AsksAt(P, g, j) => ~g[j + 1]
    BY DEF Traced
  <2>3. AsksAt(P, g, j) => \E i \in 1..Len(d) : at[i] = j
    BY <1>4, <2>1 DEF Aligned
  <2>4. ~AsksAt(P, g, j) => \A i \in 1..Len(d) : at[i] # j
    BY <1>4 DEF Aligned
  <2>5. CASE f = 0
    <3>1. \A i \in 1..Len(d) : at[i] < j /\ at[i] < j + 1 /\ at[i] # j
      BY <1>1, <1>3, <1>4, <2>5
    <3>2. OnPath(P, g, d, j + 1, 0)
      BY <1>5, <3>1
    <3> QED
      BY <2>2, <2>3, <2>5, <3>1, <3>2
  <2>6. CASE f # 0
    <3>0. \A i \in 1..Len(d) : i < f <=> at[i] < j
      BY <1>3, <2>6
    <3>1. skip <=> ~AsksAt(P, g, j)
      BY <1>4, <2>1, <3>0, SkippedMeans, ZenonT(60)
    <3>2. CASE skip
      <4>1. \A i \in 1..Len(d) : i < f <=> at[i] < j + 1
        BY <1>1, <1>4, <2>4, <3>0, <3>1, <3>2
      <4>2. OnPath(P, g, d, j + 1, f)
        BY <1>5, <2>6, <4>1
      <4> QED
        BY <2>2, <2>6, <3>1, <3>2, <4>2
    <3>3. CASE ~skip
      <4>1. PICK i \in 1..Len(d) : at[i] = j
        BY <2>3, <3>1, <3>3
      <4>2. f = i
        <5>1. ~(i < f)
          BY <1>1, <3>0, <4>1
        <5>2. CASE f < i
          <6>1. f \in 1..Len(d) /\ at[f] < at[i]
            BY <1>1, <1>4, <2>6, <5>2
          <6>2. f < f
            BY <3>0, <4>1, <6>1
          <6> QED
            BY <6>2
        <5> QED
          BY <1>1, <5>1, <5>2
      <4>3. d[f].loc = c.loc /\ d[f].line = c.line /\ d[f].failed = g[j + 1]
        BY <1>1, <1>4, <4>1, <4>2, SMTT(60) DEF Aligned
      <4>4. ASSUME NEW k \in 1..Len(d) PROVE k < f + 1 <=> at[k] < j + 1
        <5>1. CASE k < f
          BY <1>1, <1>4, <3>0, <5>1
        <5>2. CASE k = f
          BY <1>1, <4>1, <4>2, <5>2
        <5>3. CASE k > f
          <6>1. at[f] < at[k] /\ at[f] = j
            BY <1>4, <4>1, <4>2, <5>3
          <6> QED
            BY <1>1, <1>4, <5>3, <6>1
        <5> QED
          BY <1>1, <5>1, <5>2, <5>3
      <4>5. OnPath(P, g, d, j + 1, f + 1)
        BY <1>5, <4>4
      <4> QED
        BY <1>1, <2>6, <3>3, <4>2, <4>3, <4>5
    <3> QED
      BY <3>2, <3>3
  <2> QED
    BY <2>5, <2>6
<1> QED
  BY <1>1, <1>4, <1>6, <1>7

\* p is the process of the replay, on its way to the end of q.
Replays(P, q, d, p) ==
    /\ Len(p.hist) <= Len(q.hist) /\ p.hist = Pre(q.hist, Len(p.hist))
    /\ p.status # "running" => p.hist = q.hist /\ p.status = q.status
    /\ OnPath(P, q.hist, d, Len(p.hist), p.failpath)

Following ==
    mode # "record" /\ reports # <<>> =>
        /\ Replays(prog, culprit, OrigFailpath, procs[1])
        /\ mode = "done" => procs[1].status # "running"

\* The replay stays on its path when more of the program is known.
LEMMA OnPathGrows ==
    ASSUME NEW P, NEW P2, Grows(P, P2), NEW h \in Seq(BOOLEAN), Traced(P, h), NEW d, NEW j, NEW f,
           OnPath(P, h, d, j, f)
    PROVE  OnPath(P2, h, d, j, f)
<1>1. Len(h) \in Nat
  OBVIOUS
<1>2. Alike(P, h, P2, h, Len(h))
  BY TracedGrows
<1>3. PICK n \in 1..Len(h) : \E at \in [1..Len(d) -> 0..(n - 1)] :
        /\ PathOf(P, h, d, at, n)
        /\ \A i \in 1..Len(d) : (f = 0 \/ i < f) <=> at[i] < j
  BY DEF OnPath
<1>4. PICK at \in [1..Len(d) -> 0..(n - 1)] :
        /\ PathOf(P, h, d, at, n)
        /\ \A i \in 1..Len(d) : (f = 0 \/ i < f) <=> at[i] < j
  BY <1>3
<1>5. n \in Nat /\ Alike(P, h, P2, h, n)
  BY <1>1, <1>2 DEF Alike
<1>6. Aligned(P2, h, d, at, n)
  <2>1. Aligned(P, h, d, at, n)
    BY <1>4 DEF PathOf
  <2>2. \A i \in 1..Len(d) :
          /\ d[i].loc = d[i].loc /\ d[i].line = d[i].line
          /\ at[i] < Len(h) => d[i].failed = h[at[i] + 1]
          /\ ~(at[i] < Len(h)) => ~d[i].failed
    BY <2>1 DEF Aligned
  <2> QED
    BY <1>5, <2>1, <2>2, AlignedAlike
<1>7. PathOf(P2, h, d, at, n)
  BY <1>4, <1>6 DEF PathOf
<1> QED
  BY <1>3, <1>4, <1>7 DEF OnPath

\* The answers up to the next one.
LEMMA PreNext ==
    ASSUME NEW g \in Seq(BOOLEAN), NEW j \in 0..(Len(g) - 1), NEW b \in BOOLEAN, b = g[j + 1],
           NEW f, OneMore(Pre(g, j), b, f)
    PROVE  f = Pre(g, j + 1) /\ Len(f) = j + 1
<1>1. j \in 0..Len(g) /\ j + 1 \in 0..Len(g) /\ j \in Nat /\ Len(g) \in Nat
  OBVIOUS
<1>2. PICK h : h = Pre(g, j)
  OBVIOUS
<1>3. h \in Seq(BOOLEAN) /\ Len(h) = j /\ \A i \in 1..j : h[i] = g[i]
  BY <1>1, <1>2, PreProperties
<1>4. /\ f \in Seq(BOOLEAN) /\ Len(f) = Len(h) + 1 /\ f[Len(h) + 1] = b
      /\ \A i \in 1..Len(h) : f[i] = h[i]
  <2>1. OneMore(h, b, f)
    BY <1>2
  <2> QED
    BY <1>3, <2>1, PreAppend
<1>5. /\ Pre(g, j + 1) \in Seq(BOOLEAN) /\ Len(Pre(g, j + 1)) = j + 1
      /\ \A i \in 1..(j + 1) : Pre(g, j + 1)[i] = g[i]
  BY <1>1, PreProperties
<1>6. ASSUME NEW i \in 1..(j + 1) PROVE f[i] = Pre(g, j + 1)[i]
  <2>1. CASE i = j + 1
    <3>1. f[i] = b
      BY <1>3, <1>4, <2>1
    <3>2. Pre(g, j + 1)[i] = g[i]
      BY <1>5
    <3> QED
      BY <2>1, <3>1, <3>2
  <2>2. CASE i # j + 1
    <3>1. i \in 1..j
      BY <1>1, <2>2
    <3>2. f[i] = h[i] /\ h[i] = g[i]
      BY <1>3, <1>4, <3>1
    <3>3. Pre(g, j + 1)[i] = g[i]
      BY <1>5
    <3> QED
      BY <3>2, <3>3
  <2> QED
    BY <2>1, <2>2
<1>7. Len(f) = j + 1 /\ Len(f) = Len(Pre(g, j + 1))
  BY <1>3, <1>4, <1>5
<1> QED
  BY <1>4, <1>5, <1>6, <1>7, SeqEqual

\* A replay that gets the next answer of the culprit is still on its path.
LEMMA ReplayGoesOn ==
    ASSUME NEW P, NEW q, q.hist \in Seq(BOOLEAN), NEW d, NEW p, Replays(P, q, d, p),
           Len(p.hist) \in 0..(Len(q.hist) - 1), NEW b \in BOOLEAN, b = q.hist[Len(p.hist) + 1],
           NEW r, OneMore(p.hist, b, r.hist), r.status = "running",
           NEW f, r.failpath = f, OnPath(P, q.hist, d, Len(p.hist) + 1, f)
    PROVE  Replays(P, q, d, r)
<1>1. PICK g, j, h : g = q.hist /\ j = Len(p.hist) /\ h = r.hist
  OBVIOUS
<1>2. g \in Seq(BOOLEAN) /\ j \in 0..(Len(g) - 1) /\ b = g[j + 1]
  BY <1>1
<1>3. OneMore(Pre(g, j), b, h)
  <2>1. p.hist = Pre(g, j)
    BY <1>1 DEF Replays
  <2> QED
    BY <1>1, <2>1
<1>4. h = Pre(g, j + 1) /\ Len(h) = j + 1
  BY <1>2, <1>3, PreNext
<1>5. Len(h) <= Len(g)
  BY <1>2, <1>4
<1> QED
  BY <1>1, <1>4, <1>5 DEF Replays

\* s is p with the answer b, about to read decision n next.
Reads(p, n, b, s) == s = Answer([p EXCEPT !.failpath = n], b)

\* s is p after it has asked the path d for its answer to c.
Consults(p, c, d, s) == d = OrigFailpath /\ s = DoFailpath(p, c)

\* What that leaves in the fields, as long as the decision is the right one.
Consulted(p, c, d, s) ==
    /\ p.failpath > Len(d) =>
         s.hist = Append(p.hist, FALSE) /\ s.failpath = 0 /\ s.status = "running"
    /\ ~(p.failpath > Len(d)) /\ d[p.failpath].loc = c.loc /\ d[p.failpath].line = c.line =>
         /\ s.hist = Append(p.hist, d[p.failpath].failed)
         /\ s.failpath = p.failpath + 1 /\ s.status = "running"

\* do_failpath gives the recorded answer when place and line agree, and FALSE past the end.
LEMMA DoFailpathFields ==
    ASSUME NEW p \in Process, p.status = "running", NEW c, NEW d, NEW s, Consults(p, c, d, s)
    PROVE  Consulted(p, c, d, s)
<1>1. p.failpath \in Nat /\ p.failpath + 1 \in Nat /\ 0 \in Nat
  BY DEF Process
<1>2. ASSUME NEW n \in Nat, NEW b, NEW t, Reads(p, n, b, t)
      PROVE  t.hist = Append(p.hist, b) /\ t.failpath = n /\ t.status = "running"
  <2>1. PICK r : r = [p EXCEPT !.failpath = n]
    OBVIOUS
  <2>2. r \in Process /\ r.hist = p.hist /\ r.failpath = n /\ r.status = "running"
    BY <1>2, <2>1, NumberFields
  <2>3. /\ Answer(r, b).hist = Append(r.hist, b) /\ Answer(r, b).failpath = r.failpath
        /\ Answer(r, b).status = r.status
    BY <2>2, AnswerFields
  <2> QED
    BY <1>2, <2>1, <2>2, <2>3 DEF Reads
<1>3. s = DoFailpath(p, c) /\ d = OrigFailpath
  BY DEF Consults
<1>4. ASSUME p.failpath > Len(d)
      PROVE  s.hist = Append(p.hist, FALSE) /\ s.failpath = 0 /\ s.status = "running"
  <2>1. Reads(p, 0, FALSE, s)
    BY <1>3, <1>4, Zenon DEF DoFailpath, Reads
  <2> QED
    BY <1>1, <1>2, <2>1, Zenon
<1>5. ASSUME ~(p.failpath > Len(d)), d[p.failpath].loc = c.loc, d[p.failpath].line = c.line
      PROVE  /\ s.hist = Append(p.hist, d[p.failpath].failed)
             /\ s.failpath = p.failpath + 1 /\ s.status = "running"
  <2>1. PICK n, b : n = p.failpath + 1 /\ b = d[p.failpath].failed
    OBVIOUS
  <2>2. Reads(p, n, b, s)
    BY <1>3, <1>5, <2>1, Zenon DEF DoFailpath, Reads
  <2>3. n \in Nat
    BY <1>1, <2>1
  <2>4. s.hist = Append(p.hist, b) /\ s.failpath = n /\ s.status = "running"
    BY <1>2, <2>2, <2>3, Zenon
  <2> QED
    BY <2>1, <2>4
<1> QED
  BY <1>4, <1>5, Zenon DEF Consulted

\* One step of the replay.
LEMMA ReplayStep ==
    ASSUME NEW P, NEW q \in Process, NEW d \in Seq(Decision), Culprit(P, q, d),
           NEW p \in Process, p.status = "running", Replays(P, q, d, p),
           NEW c \in CallOf \cup ExitOf, c = P[p.hist],
           NEW skip \in BOOLEAN,
           skip <=> c.sup \/ (c.op = "once" /\ Replayed(d, p.failpath, c.loc)),
           NEW r,
           c \in ExitOf => r.hist = p.hist /\ r.status = c.how /\ r.failpath = p.failpath,
           c \in CallOf /\ p.failpath = 0 =>
             r.hist = Append(p.hist, FALSE) /\ r.status = "running" /\ r.failpath = 0,
           c \in CallOf /\ p.failpath # 0 /\ skip =>
             r.hist = Append(p.hist, FALSE) /\ r.status = "running" /\ r.failpath = p.failpath,
           c \in CallOf /\ p.failpath # 0 /\ ~skip /\ p.failpath > Len(d) =>
             r.hist = Append(p.hist, FALSE) /\ r.status = "running" /\ r.failpath = 0,
           c \in CallOf /\ p.failpath # 0 /\ ~skip /\ ~(p.failpath > Len(d))
             /\ d[p.failpath].loc = c.loc /\ d[p.failpath].line = c.line =>
               /\ r.hist = Append(p.hist, d[p.failpath].failed)
               /\ r.status = "running" /\ r.failpath = p.failpath + 1
    PROVE  Replays(P, q, d, r)
<1>1. PICK g, j, f : g = q.hist /\ j = Len(p.hist) /\ f = p.failpath
  OBVIOUS
<1>2. g \in Seq(BOOLEAN) /\ p.hist \in Seq(BOOLEAN) /\ j \in Nat /\ Len(g) \in Nat /\ f \in Nat
  BY <1>1 DEF Process
<1>3. j <= Len(g) /\ p.hist = Pre(g, j) /\ OnPath(P, g, d, j, f)
  BY <1>1 DEF Replays
<1>4. Traced(P, g) /\ g \in DOMAIN P /\ P[g] \in ExitOf /\ P[g].how = q.status
  BY <1>1 DEF Culprit, Ended
<1>5. \A x : ~(x \in CallOf /\ x \in ExitOf)
  BY DEF CallOf, ExitOf
<1>6. CASE j = Len(g)
  <2>1. p.hist = g
    BY <1>2, <1>3, <1>6, PreProperties
  <2>2. c \in ExitOf /\ c.how = q.status
    BY <1>4, <2>1
  <2>3. r.hist = g /\ r.status = q.status /\ r.failpath = f /\ r.hist = p.hist
    BY <1>1, <2>1, <2>2
  <2> QED
    BY <1>1, <1>3, <2>1, <2>3 DEF Replays
<1>7. CASE j # Len(g)
  <2>1. j \in 0..(Len(g) - 1) /\ j + 1 \in 1..Len(g)
    BY <1>2, <1>3, <1>7
  <2>2. c \in CallOf /\ c = P[Pre(g, j)]
    BY <1>3, <1>4, <2>1 DEF Traced
  <2>3. PICK b \in BOOLEAN : b = g[j + 1]
    BY <1>2, <2>1, ElementOfSeq
  <2>4. ASSUME r.status = "running", NEW e, r.failpath = e, OnPath(P, g, d, j + 1, e),
               r.hist = Append(p.hist, b)
        PROVE  Replays(P, q, d, r)
    <3>1. OneMore(p.hist, b, r.hist)
      BY <2>4 DEF OneMore
    <3>2. q.hist \in Seq(BOOLEAN) /\ Len(p.hist) \in 0..(Len(q.hist) - 1)
          /\ b = q.hist[Len(p.hist) + 1] /\ OnPath(P, q.hist, d, Len(p.hist) + 1, e)
      BY <1>1, <1>2, <2>1, <2>3, <2>4
    <3> QED
      BY <2>4, <3>1, <3>2, ReplayGoesOn
  <2>5. ASSUME r.status = "running", NEW e, r.failpath = e, OnPath(P, g, d, j + 1, e),
               r.hist = Append(p.hist, FALSE), ~g[j + 1]
        PROVE  Replays(P, q, d, r)
    <3>1. b = FALSE
      BY <2>3, <2>5
    <3>2. r.hist = Append(p.hist, b)
      BY <2>5, <3>1, Zenon
    <3> QED
      BY <2>4, <2>5, <3>2
  <2>6. skip <=> c.sup \/ (c.op = "once" /\ Replayed(d, f, c.loc))
    BY <1>1
  <2>7. /\ f = 0 => ~g[j + 1] /\ OnPath(P, g, d, j + 1, 0)
        /\ f # 0 /\ skip => ~g[j + 1] /\ OnPath(P, g, d, j + 1, f)
        /\ f # 0 /\ ~skip /\ f > Len(d) => ~g[j + 1] /\ OnPath(P, g, d, j + 1, 0)
        /\ f # 0 /\ ~skip /\ ~(f > Len(d)) =>
             /\ d[f].loc = c.loc /\ d[f].line = c.line /\ d[f].failed = g[j + 1]
             /\ OnPath(P, g, d, j + 1, f + 1)
    BY <1>2, <1>3, <1>4, <2>1, <2>2, <2>6, ReplaySays
  <2>8. CASE f = 0
    BY <1>1, <2>2, <2>5, <2>7, <2>8, Zenon
  <2>9. CASE f # 0 /\ skip
    BY <1>1, <2>2, <2>5, <2>7, <2>9, Zenon
  <2>10. CASE f # 0 /\ ~skip /\ f > Len(d)
    BY <1>1, <2>2, <2>5, <2>7, <2>10, Zenon
  <2>11. CASE f # 0 /\ ~skip /\ ~(f > Len(d))
    <3>1. /\ d[f].loc = c.loc /\ d[f].line = c.line /\ d[f].failed = b
          /\ OnPath(P, g, d, j + 1, f + 1)
      BY <2>3, <2>7, <2>11, Zenon
    <3>2. r.hist = Append(p.hist, d[f].failed) /\ r.status = "running" /\ r.failpath = f + 1
      BY <1>1, <2>2, <2>11, <3>1, Zenon
    <3>3. r.hist = Append(p.hist, b)
      BY <3>1, <3>2, Zenon
    <3> QED
      BY <2>4, <3>1, <3>2, <3>3, Zenon
  <2> QED
    BY <2>8, <2>9, <2>10, <2>11
<1> QED
  BY <1>6, <1>7

\* A step of the replay keeps it on the way of the culprit.
LEMMA RunFollowing ==
    ASSUME Exact, IInv, Ways, Following, Run PROVE Following'
<1> SUFFICES ASSUME mode' # "record", reports' # <<>>
             PROVE  /\ Replays(prog', culprit', OrigFailpath', procs'[1])
                    /\ mode' = "done" => procs'[1].status # "running"
  BY DEF Following
<1>1. /\ mode' = mode /\ reports' = reports /\ culprit' = culprit /\ mode = "replay"
      /\ reports # <<>> /\ OrigFailpath' = OrigFailpath
  <2>1. mode' = mode /\ reports' = reports /\ culprit' = culprit /\ mode # "done"
    BY DEF Run
  <2> QED
    BY <2>1 DEF IInv, TypeOK, OrigFailpath
<1>2. /\ procs \in Seq(Process) /\ Len(procs) = 1 /\ Top = 1 /\ Cur = procs[1] /\ Cur \in Process
      /\ Cur.status = "running" /\ culprit \in Process /\ OrigFailpath \in Seq(Decision)
  <2>1. procs \in Seq(Process) /\ Len(procs) = 1 /\ culprit \in Process /\ Cur.status = "running"
    BY <1>1 DEF Run, IInv, TypeOK, Stack
  <2>2. OrigFailpath \in Seq(Decision)
    BY <1>1, PathType
  <2> QED
    BY <2>1, <2>2 DEF Top, Cur
<1>3. PICK p, q, d, P, P2 : /\ p = Cur /\ q = culprit /\ d = OrigFailpath
                            /\ P = prog /\ P2 = prog'
  OBVIOUS
<1>4. /\ p \in Process /\ p.status = "running" /\ q \in Process /\ d \in Seq(Decision)
      /\ Culprit(P, q, d) /\ Replays(P, q, d, p)
  <2>1. Culprit(prog, culprit, OrigFailpath) /\ Replays(prog, culprit, OrigFailpath, procs[1])
    BY <1>1 DEF Ways, Printed, Following
  <2> QED
    BY <1>2, <1>3, <2>1
<1>5. PICK c \in CallOf \cup ExitOf :
        /\ Learns(prog, Cur.hist, c, prog')
        /\ \/ c \in ExitOf /\ procs' = [procs EXCEPT ![Top] = Die(Cur, c.how)]
           \/ /\ c \in CallOf /\ Cur.failpath = 0
              /\ \E s \in {Cur, [Cur EXCEPT !.failpoints = @ + 1]} :
                   procs' = [procs EXCEPT ![Top] = Answer(s, FALSE)]
           \/ /\ c \in CallOf /\ Cur.failpath # 0 /\ Skipped(Cur, c)
              /\ procs' = [procs EXCEPT ![Top] = Answer(Cur, FALSE)]
           \/ /\ c \in CallOf /\ Cur.failpath # 0 /\ ~Skipped(Cur, c)
              /\ procs' = [procs EXCEPT ![Top] = DoFailpath(Cur, c)]
  <2>1. mode # "record"
    BY <1>1
  <2> QED
    BY <2>1, RunMoves, Zenon DEF Learns
<1>6. PICK r : r = procs'[1]
  OBVIOUS
<1>7. \A x : procs' = [procs EXCEPT ![Top] = x] => r = x
  BY <1>2, <1>6
<1>8. Learns(P, p.hist, c, P2)
  BY <1>3, <1>5, Zenon
<1>9. Grows(P, P2) /\ P2[p.hist] = c
  <2>1. PICK h : h = p.hist
    OBVIOUS
  <2>2. Learns(P, h, c, P2)
    BY <1>8, <2>1, Zenon
  <2>3. Grows(P, P2) /\ h \in DOMAIN P2 /\ P2[h] = c /\ DOMAIN P2 = DOMAIN P \cup {h}
    BY <2>2, LearnsMeans
  <2> QED
    BY <2>1, <2>3
<1>10. Culprit(P2, q, d) /\ Replays(P2, q, d, p)
  <2>1. Culprit(P2, q, d)
    BY <1>4, <1>9, CulpritGrows
  <2>2. q.hist \in Seq(BOOLEAN) /\ Traced(P, q.hist) /\ OnPath(P, q.hist, d, Len(p.hist), p.failpath)
    BY <1>4 DEF Process, Culprit, Replays
  <2>3. OnPath(P2, q.hist, d, Len(p.hist), p.failpath)
    BY <1>9, <2>2, OnPathGrows
  <2> QED
    BY <1>4, <2>1, <2>3 DEF Replays
<1>11. PICK skip \in BOOLEAN : skip <=> Skipped(p, c)
  OBVIOUS
<1>12. c \in CallOf => (Skipped(p, c) <=> c.sup \/ (c.op = "once" /\ Replayed(d, p.failpath, c.loc)))
  <2>1. c \in CallOf /\ c.op = "once" => c.loc \in OnceLoc
    BY DEF CallOf
  <2>2. c \in CallOf /\ c.op = "once"
          => (AlreadyReplayed(p, c.loc) <=> Replayed(d, p.failpath, c.loc))
    BY <1>3, <1>4, <2>1, ReplayedMeans
  <2> QED
    BY <2>2 DEF Skipped
<1>13. ASSUME c \in CallOf, NEW s \in {p, [p EXCEPT !.failpoints = @ + 1]}
       PROVE  /\ Answer(s, FALSE).hist = Append(p.hist, FALSE)
              /\ Answer(s, FALSE).status = "running" /\ Answer(s, FALSE).failpath = p.failpath
  <2>1. s \in Process /\ s.hist = p.hist /\ s.status = "running" /\ s.failpath = p.failpath
    <3>1. p.failpoints + 1 \in Nat
      BY <1>4 DEF Process
    <3>2. CASE s = p
      BY <1>4, <3>2
    <3>3. CASE s = [p EXCEPT !.failpoints = p.failpoints + 1]
      BY <1>4, <3>1, <3>3, NumberFields
    <3> QED
      BY <1>13, <3>2, <3>3
  <2> QED
    BY <2>1, AnswerFields
<1>14. Replays(P2, q, d, r)
  <2>1. CASE c \in ExitOf
    <3>1. PICK s \in BOOLEAN : s <=> c.sup \/ (c.op = "once" /\ Replayed(d, p.failpath, c.loc))
      OBVIOUS
    <3>2. c \notin CallOf
      BY <2>1 DEF CallOf, ExitOf
    <3>3. r = Die(p, c.how)
      BY <1>3, <1>5, <1>7, <3>2, Zenon
    <3>4. r.hist = p.hist /\ r.status = c.how /\ r.failpath = p.failpath
      BY <1>4, <3>3, DieFields
    <3> QED
      BY <1>4, <1>9, <1>10, <3>1, <3>2, <3>4, ReplayStep, Zenon
  <2>2. CASE c \in CallOf
    <3>1. c \notin ExitOf
      BY <2>2 DEF CallOf, ExitOf
    <3>2. skip <=> c.sup \/ (c.op = "once" /\ Replayed(d, p.failpath, c.loc))
      BY <1>11, <1>12, <2>2
    <3>3. p.failpath = 0 =>
            r.hist = Append(p.hist, FALSE) /\ r.status = "running" /\ r.failpath = 0
      <4> SUFFICES ASSUME p.failpath = 0
                   PROVE  r.hist = Append(p.hist, FALSE) /\ r.status = "running" /\ r.failpath = 0
        OBVIOUS
      <4>1. PICK s \in {p, [p EXCEPT !.failpoints = @ + 1]} : r = Answer(s, FALSE)
        BY <1>3, <1>5, <1>7, <3>1, Zenon
      <4> QED
        BY <1>13, <2>2, <4>1, Zenon
    <3>4. p.failpath # 0 /\ skip =>
            r.hist = Append(p.hist, FALSE) /\ r.status = "running" /\ r.failpath = p.failpath
      <4> SUFFICES ASSUME p.failpath # 0, skip
                   PROVE  /\ r.hist = Append(p.hist, FALSE) /\ r.status = "running"
                          /\ r.failpath = p.failpath
        OBVIOUS
      <4>1. r = Answer(p, FALSE)
        BY <1>3, <1>5, <1>7, <1>11, <3>1, Zenon
      <4> QED
        BY <1>4, <4>1, AnswerFields
    <3>5. p.failpath # 0 /\ ~skip => r = DoFailpath(p, c)
      BY <1>3, <1>5, <1>7, <1>11, <3>1, Zenon
    <3>6. PICK s : s = DoFailpath(p, c)
      OBVIOUS
    <3>7. p \in Process /\ p.status = "running" /\ Consults(p, c, d, s)
      BY <1>3, <1>4, <3>6 DEF Consults
    <3>8. Consulted(p, c, d, s)
      BY <3>7, DoFailpathFields
    <3>9. p.failpath # 0 /\ ~skip /\ p.failpath > Len(d) =>
            r.hist = Append(p.hist, FALSE) /\ r.status = "running" /\ r.failpath = 0
      BY <3>5, <3>6, <3>8, Zenon DEF Consulted
    <3>10. p.failpath # 0 /\ ~skip /\ ~(p.failpath > Len(d))
            /\ d[p.failpath].loc = c.loc /\ d[p.failpath].line = c.line =>
              /\ r.hist = Append(p.hist, d[p.failpath].failed)
              /\ r.status = "running" /\ r.failpath = p.failpath + 1
      BY <3>5, <3>6, <3>8, Zenon DEF Consulted
    <3> QED
      BY <1>4, <1>9, <1>10, <3>1, <3>2, <3>3, <3>4, <3>9, <3>10, ReplayStep, Zenon
  <2> QED
    BY <2>1, <2>2
<1> QED
  BY <1>1, <1>3, <1>6, <1>14

\* The replay begins at the beginning of the way of the culprit.
LEMMA StartFollowing ==
    ASSUME IInv, Ways, StartReplay PROVE Following'
<1>1. /\ mode' = "replay" /\ procs' = <<FreshProcess(1)>> /\ UNCHANGED <<prog, reports, culprit>>
      /\ reports # <<>> /\ OrigFailpath' = OrigFailpath
  BY DEF StartReplay, OrigFailpath
<1>2. PICK p, q, d : p = FreshProcess(1) /\ q = culprit /\ d = OrigFailpath
  OBVIOUS
<1>3. Culprit(prog, q, d) /\ q.hist \in Seq(BOOLEAN) /\ d \in Seq(Decision)
  BY <1>1, <1>2, PathType DEF Ways, Printed, IInv, TypeOK, Process
<1>4. p.hist = <<>> /\ Len(p.hist) = 0 /\ p.status = "running" /\ p.failpath = 1
  BY <1>2 DEF FreshProcess
<1>5. Len(q.hist) \in Nat /\ Len(d) \in Nat /\ 0 \in 0..Len(q.hist)
  BY <1>3
<1>6. Pre(q.hist, 0) = <<>>
  <2>1. Pre(q.hist, 0) \in Seq(BOOLEAN) /\ Len(Pre(q.hist, 0)) = 0
    BY <1>3, <1>5, PreProperties
  <2> QED
    BY <2>1, EmptySeq
<1>7. OnPath(prog, q.hist, d, 0, 1)
  <2>1. PICK n \in 1..Len(q.hist) : \E at \in [1..Len(d) -> 0..(n - 1)] : PathOf(prog, q.hist, d, at, n)
    BY <1>3 DEF Culprit
  <2>2. PICK at \in [1..Len(d) -> 0..(n - 1)] : PathOf(prog, q.hist, d, at, n)
    BY <2>1
  <2>3. \A i \in 1..Len(d) : ~(1 = 0 \/ i < 1) /\ ~(at[i] < 0)
    BY <1>5, <2>2
  <2> QED
    BY <2>1, <2>2, <2>3 DEF OnPath
<1>8. Replays(prog, q, d, p)
  BY <1>4, <1>5, <1>6, <1>7 DEF Replays
<1>9. procs'[1] = p
  BY <1>1, <1>2
<1> QED
  BY <1>1, <1>2, <1>8, <1>9 DEF Following

\* For every program and every set of failure points, as long as no once-only name is part
\* of another name: the path printed by --failtest, given to --failpath, leads through the
\* same answers to the same end (do_failpath, should_i_fail_once).
THEOREM ReplayAlwaysReproduces ==
    ASSUME Exact PROVE Spec => []ReplayReproduces
<1>1. Init => Following
  BY DEF Init, Following
<1>2. IInv /\ Ways /\ Following /\ [Next]_vars => Following'
  <2>1. Following /\ UNCHANGED vars => Following'
    BY DEF vars, Following, OrigFailpath
  <2>2. IInv /\ (ReapGood \/ ReapBad) => Following'
    <3> SUFFICES ASSUME IInv, ReapGood \/ ReapBad PROVE Following'
      OBVIOUS
    <3>1. Top > 1 /\ mode' = mode
      BY DEF ReapGood, ReapBad
    <3>2. mode' = "record"
      <4>1. Len(procs) # 1
        BY <3>1 DEF Top
      <4> QED
        BY <3>1, <4>1 DEF IInv, Stack
    <3> QED
      BY <3>2 DEF Following
  <2>3. IInv /\ Following /\ Finish => Following'
    <3> SUFFICES ASSUME IInv, Following, Finish PROVE Following'
      OBVIOUS
    <3>1. /\ UNCHANGED <<prog, procs, reports, culprit>> /\ procs[1].status # "running"
          /\ reports # <<>> => mode # "record"
      BY DEF Finish, Top, Cur
    <3> QED
      BY <3>1 DEF Following, OrigFailpath
  <2> QED
    BY <2>1, <2>2, <2>3, RunFollowing, StartFollowing DEF Next
<1>3. Following => ReplayReproduces
  BY DEF Following, Replays, ReplayReproduces
<1> QED
  BY <1>1, <1>2, <1>3, AlwaysWays, Invariance, PTL DEF Spec
==============================================================================
