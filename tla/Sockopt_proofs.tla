--------------------------- MODULE Sockopt_proofs ---------------------------
(***************************************************************************)
(* The protocol between simulators and programs, for any number of them.   *)
(*                                                                         *)
(* Simulator n and program n talk over socket n.  Talk says which states   *)
(* the two can be in, given what is on its way between them and what the   *)
(* program's birth and death depend on: whether the request to fork it is  *)
(* still on its way, and whether the program it was copied from waits for  *)
(* it (Bond).  Links says how simulators, requests to fork and waiting     *)
(* programs belong together.                                               *)
(***************************************************************************)
EXTENDS Sockopt, FiniteSetTheorems, SequenceTheorems, TLAPS

ForkIn(Q, m) == \E i \in DOMAIN Q : Q[i].op = "fork" /\ Q[i].id = m

\* "asked": the request to fork program n has not been read yet; "held": the program
\* that forked it waits for it, or has yet to tell how it ended.
Bond(n) ==
    IF parent[n] = 0 THEN "none"
    ELSE IF ForkIn(toProg[parent[n]], n) THEN "asked"
    ELSE IF prog[parent[n]].kid = n THEN "held" ELSE "none"

Forks(Q) == \A i \in DOMAIN Q : Q[i].op = "fork"
ForksThen(Q, op) ==
    /\ Q # <<>> /\ Q[Len(Q)].op = op
    /\ \A i \in DOMAIN Q : i # Len(Q) => Q[i].op = "fork"

\* The simulator runs kernel code for its program, or waits in it for a child; it is
\* back in its script, or waits for a child there.
InKernel(s) == s.pc = "kernel" \/ (s.pc = "waitpid" /\ s.then = "kernel")
InScript(s) == s.pc = "script" \/ (s.pc = "waitpid" /\ s.then = "script")
InSyscall(p) == p.pc \in {"syscall", "waitpid", "told"}

\* What is on its way while a system call is served.
Served(s, p, Q, R) ==
    \/ s.pc = "select" /\ R = <<>> /\ ForksThen(Q, "result")
    \/ InKernel(s) /\ R = <<>> /\ Forks(Q)
    \/ s.pc = "reply" /\ R = <<>> /\ ForksThen(Q, "copy")
    \/ s.pc = "dead" /\ R = <<>> /\ Forks(Q)
    \/ s.pc = "select" /\ p.pc = "syscall" /\ Q = <<>> /\ Len(R) = 1 /\ R[1].op = "syscall"
    \/ s.pc = "reply" /\ p.pc = "syscall" /\ Q = <<>> /\ Len(R) = 1 /\ R[1].op = "copied"

\* How its end reaches the simulator of a program that is not its own child.
Told(s, p, R, b) ==
    \/ b = "held" /\ R = <<>> /\ s.pc \in {"select", "reply", "dead"}
    \/ b = "none" /\ Len(R) = 1 /\ R[1].op = p.status /\ s.pc \in {"select", "reply"}
    \/ b = "none" /\ R = <<>> /\ s.status = p.status /\ (s.pc = "select" \/ InScript(s))
    \/ b = "none" /\ R = <<>> /\ s.pc = "dead"

Talk(n, s, p, Q, R, b) ==
    /\ s.pc = "absent" => p.pc = "absent" /\ b = "none" /\ n # 1
    /\ n = 1 => b = "none" /\ p.pc # "absent"
    /\ b = "asked" => p.pc = "absent"
    /\ b = "held" => p.pc # "absent"
    /\ p.pc \in {"user", "syscall", "waitpid", "told"} /\ n # 1 => b = "held"
    /\ p.kid # 0 <=> p.pc \in {"waitpid", "told"}
    /\ p.pc = "absent" /\ b = "none" => Q = <<>> /\ R = <<>>
    /\ p.pc = "user" => s.pc = "select" /\ Q = <<>> /\ R = <<>>
    /\ InSyscall(p) \/ b = "asked" => Served(s, p, Q, R)
    /\ p.pc = "dead" =>
         /\ Q = <<>> /\ p.status # "none"
         /\ n = 1 => R = <<>>
         /\ n # 1 => Told(s, p, R, b)
    /\ n = 1 /\ s.pc # "dead" /\ ~InScript(s) => s.status = "none"
    /\ InScript(s) => /\ p.pc \in {"absent", "dead"} /\ b = "none" /\ R = <<>>
                      /\ p.pc = "dead" => s.status = p.status
    /\ InKernel(s) \/ s.pc = "reply" => s.msg_fd
    /\ s.pc = "select" /\ ~s.msg_fd => p.pc \in {"absent", "dead"} /\ b = "none" /\ R = <<>>

\* No two requests to fork have the same program in mind.
AskedOnce(Q) ==
    \A i, j \in DOMAIN Q :
        Q[i].op = "fork" /\ Q[j].op = "fork" /\ Q[i].id = Q[j].id => i = j

Links ==
    /\ \A n, m \in Id : ForkIn(toProg[n], m) => parent[m] = n
    /\ \A n \in Id : AskedOnce(toProg[n])
    /\ \A n \in Id : prog[n].kid # 0 =>
         /\ parent[prog[n].kid] = n
         /\ prog[prog[n].kid].pc # "absent"
         /\ prog[n].pc = "told" => prog[prog[n].kid].pc = "dead"

Talks == \A n \in Id : Talk(n, sim[n], prog[n], toProg[n], toSim[n], Bond(n))

IInv == TypeOK /\ Links /\ Talks
-----------------------------------------------------------------------------
\* One simulator that runs a script, and its program.
LEMMA InitHolds == Init => IInv
<1> SUFFICES ASSUME Init PROVE IInv
  OBVIOUS
<1> USE DEF NewSim, NewProg, NoSim, NoProg
<1>1. /\ parent = [n \in Id |-> 0]
      /\ toProg = [n \in Id |-> <<>>] /\ toSim = [n \in Id |-> <<>>] /\ out = [n \in Id |-> 0]
      /\ sim = [n \in Id |-> IF n = 1 THEN NewSim("select", "script", TRUE, 0) ELSE NoSim]
      /\ prog = [n \in Id |-> IF n = 1 THEN NewProg("user", 0, 0) ELSE NoProg]
  BY DEF Init
<1>2. TypeOK
  <2>1. \A n \in Id : sim[n] \in Sim
    BY <1>1, SockoptAssumption DEF Sim
  <2>2. \A n \in Id : prog[n] \in Prog
    BY <1>1, SockoptAssumption DEF Prog
  <2>3. sim \in [Id -> Sim] /\ prog \in [Id -> Prog]
    BY <1>1, <2>1, <2>2
  <2>4. parent \in [Id -> 0..MaxSim] /\ out \in [Id -> 0..PipeCap]
    BY <1>1, SockoptAssumption
  <2>5. toProg \in [Id -> Seq(Message)] /\ toSim \in [Id -> Seq(Message)]
    BY <1>1
  <2> QED
    BY <2>3, <2>4, <2>5 DEF TypeOK
<1>3. Links
  BY <1>1 DEF Links, ForkIn, AskedOnce
<1>4. ASSUME NEW n \in Id
      PROVE  Talk(n, sim[n], prog[n], toProg[n], toSim[n], Bond(n))
  <2>1. Bond(n) = "none" /\ toProg[n] = <<>> /\ toSim[n] = <<>>
    BY <1>1 DEF Bond
  <2>2. CASE n = 1
    <3>1. sim[n] = NewSim("select", "script", TRUE, 0) /\ prog[n] = NewProg("user", 0, 0)
      BY <1>1, <2>2
    <3> QED
      BY <2>1, <2>2, <3>1 DEF Talk, InSyscall, InScript, InKernel
  <2>3. CASE n # 1
    <3>1. sim[n] = NoSim /\ prog[n] = NoProg
      BY <1>1, <2>3
    <3> QED
      BY <2>1, <2>3, <3>1 DEF Talk, InSyscall, InScript, InKernel
  <2> QED
    BY <2>2, <2>3
<1> QED
  BY <1>2, <1>3, <1>4 DEF IInv, Talks

\* The program's end of socket n is open while there is a program, and as long as
\* somebody may yet make one or say how it ended.
LEMMA OpenEnd ==
    ASSUME IInv, NEW n \in Id
    PROVE  ProgEndOpen(n) <=> ProgAlive(n) \/ Bond(n) # "none"
<1>1. TypeOK /\ Links /\ \A k \in Id : Talk(k, sim[k], prog[k], toProg[k], toSim[k], Bond(k))
  BY DEF IInv, Talks
<1>2. ASSUME NEW k \in Id, NEW i \in DOMAIN toProg[k]
      PROVE  /\ toProg[k][i] = Msg("fork", n) <=> toProg[k][i].op = "fork" /\ toProg[k][i].id = n
             /\ prog[k].pc # "dead"
  <2>1. toProg[k] \in Seq(Message) /\ toProg[k][i] \in Message
    BY <1>1 DEF TypeOK
  <2>2. toProg[k] # <<>>
    OBVIOUS
  <2>3. prog[k].pc # "dead"
    BY <1>1, <2>2 DEF Talk
  <2> QED
    BY <2>1, <2>3 DEF Message, Msg
<1>3. ASSUME NEW k \in Id, ForkIn(toProg[k], n) PROVE Bond(n) = "asked"
  <2>1. parent[n] = k
    BY <1>1, <1>3 DEF Links
  <2>2. k # 0
    BY DEF Id
  <2> QED
    BY <1>3, <2>1, <2>2 DEF Bond
<1>4. ASSUME NEW k \in Id, prog[k].kid = n PROVE Bond(n) \in {"asked", "held"}
  <2>1. k # 0 /\ n # 0
    BY DEF Id
  <2>2. parent[n] = k
    BY <1>1, <1>4, <2>1 DEF Links
  <2> QED
    BY <1>4, <2>1, <2>2 DEF Bond
<1>5. ASSUME Bond(n) = "asked" PROVE ProgEndOpen(n)
  <2>1. parent[n] \in Id /\ ForkIn(toProg[parent[n]], n)
    BY <1>1, <1>5 DEF Bond, TypeOK, Id
  <2>2. PICK i \in DOMAIN toProg[parent[n]] :
          toProg[parent[n]][i].op = "fork" /\ toProg[parent[n]][i].id = n
    BY <2>1 DEF ForkIn
  <2> QED
    BY <1>2, <2>1, <2>2 DEF ProgEndOpen
<1>6. ASSUME Bond(n) = "held" PROVE ProgEndOpen(n)
  <2>1. parent[n] \in Id /\ prog[parent[n]].kid = n
    BY <1>1, <1>6 DEF Bond, TypeOK, Id
  <2>2. prog[parent[n]].pc \in {"waitpid", "told"}
    <3>1. prog[parent[n]].kid # 0
      BY <2>1 DEF Id
    <3> QED
      BY <1>1, <2>1, <3>1 DEF Talk
  <2> QED
    BY <2>1, <2>2 DEF ProgEndOpen
<1>7. Bond(n) \in {"none", "asked", "held"}
  BY DEF Bond
<1>8. ASSUME ProgEndOpen(n), ~ProgAlive(n) PROVE Bond(n) # "none"
  <2>1. PICK k \in Id : /\ prog[k].pc # "dead"
                        /\ \/ prog[k].kid = n
                           \/ \E i \in DOMAIN toProg[k] : toProg[k][i] = Msg("fork", n)
    BY <1>8 DEF ProgEndOpen
  <2>2. CASE prog[k].kid = n
    BY <1>4, <2>2
  <2>3. CASE \E i \in DOMAIN toProg[k] : toProg[k][i] = Msg("fork", n)
    <3>1. ForkIn(toProg[k], n)
      BY <1>2, <2>3 DEF ForkIn
    <3> QED
      BY <1>3, <3>1
  <2> QED
    BY <2>1, <2>2, <2>3
<1>9. ProgAlive(n) => ProgEndOpen(n)
  BY DEF ProgEndOpen
<1> QED
  BY <1>5, <1>6, <1>7, <1>8, <1>9

\* The messages that are left or added ask for no fork.
SameForks(Q, Q2) ==
    \/ Q2 = Q
    \/ \E m \in Message : m.op # "fork" /\ Q2 = Append(Q, m)
    \/ Q # <<>> /\ Q[1].op # "fork" /\ Q2 = Tail(Q)

\* Messages about other things leave the requests to fork alone.
LEMMA ForksKept ==
    ASSUME NEW Q \in Seq(Message), NEW Q2, SameForks(Q, Q2)
    PROVE  /\ \A m : ForkIn(Q2, m) <=> ForkIn(Q, m)
           /\ AskedOnce(Q) => AskedOnce(Q2)
<1>1. Len(Q) \in Nat /\ DOMAIN Q = 1 .. Len(Q)
  OBVIOUS
<1>2. CASE Q2 = Q
  BY <1>2
<1>3. CASE \E m \in Message : m.op # "fork" /\ Q2 = Append(Q, m)
  <2>1. PICK m \in Message : m.op # "fork" /\ Q2 = Append(Q, m)
    BY <1>3
  <2>2. /\ DOMAIN Q2 = 1 .. Len(Q) + 1 /\ \A i \in DOMAIN Q : Q2[i] = Q[i] /\ i \in DOMAIN Q2
        /\ Q2[Len(Q) + 1].op # "fork"
        /\ \A i \in DOMAIN Q2 : i # Len(Q) + 1 => i \in DOMAIN Q
    BY <1>1, <2>1
  <2> QED
    BY <2>2 DEF ForkIn, AskedOnce
<1>4. CASE Q # <<>> /\ Q[1].op # "fork" /\ Q2 = Tail(Q)
  <2>1. /\ DOMAIN Q2 = 1 .. Len(Q) - 1
        /\ \A i \in DOMAIN Q2 : Q2[i] = Q[i + 1] /\ i + 1 \in DOMAIN Q /\ i \in Int
        /\ \A i \in DOMAIN Q : i # 1 => i - 1 \in DOMAIN Q2 /\ Q2[i - 1] = Q[i]
    BY <1>1, <1>4
  <2>2. ASSUME NEW m, ForkIn(Q, m) PROVE ForkIn(Q2, m)
    <3>1. PICK i \in DOMAIN Q : Q[i].op = "fork" /\ Q[i].id = m
      BY <2>2 DEF ForkIn
    <3>2. i - 1 \in DOMAIN Q2 /\ Q2[i - 1] = Q[i]
      BY <1>4, <2>1, <3>1
    <3> QED
      BY <3>1, <3>2 DEF ForkIn
  <2>3. ASSUME NEW m, ForkIn(Q2, m) PROVE ForkIn(Q, m)
    BY <2>1, <2>3 DEF ForkIn
  <2>4. AskedOnce(Q) => AskedOnce(Q2)
    BY <2>1 DEF AskedOnce
  <2> QED
    BY <2>2, <2>3, <2>4
<1> QED
  BY <1>2, <1>3, <1>4 DEF SameForks
-----------------------------------------------------------------------------
\* Most steps change what simulator n, program n and their socket do, and leave the
\* others and what ties them together alone.
Plain(n) ==
    /\ parent' = parent
    /\ \A k \in Id : k # n => /\ sim'[k] = sim[k] /\ prog'[k] = prog[k]
                            /\ toProg'[k] = toProg[k] /\ toSim'[k] = toSim[k]
    /\ SameForks(toProg[n], toProg'[n])
    /\ prog'[n].kid = prog[n].kid
    /\ prog[n].pc # "absent" => prog'[n].pc # "absent"
    /\ prog[n].pc = "dead" => prog'[n].pc = "dead"
    /\ prog'[n].pc = "told" => prog[n].pc = "told" \/ prog[prog[n].kid].pc = "dead"

\* A step of pair n that leaves its bond and the other pairs alone.
LEMMA PlainStep ==
    ASSUME IInv, TypeOK', NEW n \in Id, Plain(n),
           Talk(n, sim'[n], prog'[n], toProg'[n], toSim'[n], Bond(n))
    PROVE  IInv'
<1>1. TypeOK /\ Links /\ \A k \in Id : Talk(k, sim[k], prog[k], toProg[k], toSim[k], Bond(k))
  BY DEF IInv, Talks
<1>2. ASSUME NEW k \in Id
      PROVE  /\ \A m : ForkIn(toProg'[k], m) <=> ForkIn(toProg[k], m)
             /\ AskedOnce(toProg[k]) => AskedOnce(toProg'[k])
             /\ prog'[k].kid = prog[k].kid
  <2>1. toProg[k] \in Seq(Message)
    BY <1>1 DEF TypeOK
  <2>2. SameForks(toProg[k], toProg'[k])
    BY DEF Plain, SameForks
  <2> QED
    BY <2>1, <2>2, ForksKept DEF Plain
<1>3. Links'
  <2>1. ASSUME NEW k \in Id, prog'[k].kid # 0
        PROVE  /\ parent'[prog'[k].kid] = k
               /\ prog'[prog'[k].kid].pc # "absent"
               /\ prog'[k].pc = "told" => prog'[prog'[k].kid].pc = "dead"
    <3>1. prog[k].kid # 0 /\ prog'[k].kid = prog[k].kid
      BY <1>2, <2>1
    <3>2. prog[k].kid \in 0 .. MaxSim
      BY <1>1 DEF TypeOK, Prog
    <3>3. prog[k].kid \in Id
      BY <3>1, <3>2, SockoptAssumption DEF Id
    <3> QED
      BY <1>1, <3>1, <3>3 DEF Links, Plain
  <2> QED
    BY <1>1, <1>2, <2>1 DEF Links, Plain
<1>4. ASSUME NEW k \in Id PROVE Bond(k)' = Bond(k)
  <2>1. parent[k] = 0 \/ parent[k] \in Id
    BY <1>1 DEF TypeOK, Id
  <2> QED
    BY <1>2, <2>1 DEF Plain, Bond
<1>5. Talks'
  BY <1>1, <1>4 DEF Talks, Plain
<1> QED
  BY <1>3, <1>5 DEF IInv

Becomes(n, s, p, Q, R) ==
    /\ sim' = [sim EXCEPT ![n] = s] /\ prog' = [prog EXCEPT ![n] = p]
    /\ toProg' = [toProg EXCEPT ![n] = Q] /\ toSim' = [toSim EXCEPT ![n] = R]
    /\ parent' = parent
    /\ out' \in [Id -> 0 .. PipeCap]

Follows(n, s, p, Q, R) ==
    /\ s \in Sim /\ p \in Prog /\ Q \in Seq(Message) /\ R \in Seq(Message)
    /\ SameForks(toProg[n], Q)
    /\ p.kid = prog[n].kid
    /\ p.pc = "absent" => prog[n].pc = "absent"
    /\ prog[n].pc = "dead" => p.pc = "dead"
    /\ p.pc = "told" => prog[n].pc = "told" \/ prog[prog[n].kid].pc = "dead"

\* The same, with the new state of the pair written out.
LEMMA LocalStep ==
    ASSUME IInv, NEW n \in Id, NEW s, NEW p, NEW Q, NEW R,
           Becomes(n, s, p, Q, R), Follows(n, s, p, Q, R), Talk(n, s, p, Q, R, Bond(n))
    PROVE  IInv'
<1>1. TypeOK
  BY DEF IInv
<1>2. TypeOK'
  BY <1>1 DEF TypeOK, Becomes, Follows
<1>3. sim'[n] = s /\ prog'[n] = p /\ toProg'[n] = Q /\ toSim'[n] = R
  BY <1>1 DEF TypeOK, Becomes
<1>4. Plain(n)
  BY <1>1, <1>3 DEF TypeOK, Becomes, Follows, Plain
<1> QED
  BY <1>2, <1>3, <1>4, PlainStep

\* A queue asks for the forks it asks for.
LEMMA SameForksAgain == \A Q : SameForks(Q, Q)
BY DEF SameForks

\* What holds of simulator n, program n and their socket.
LEMMA AtHand ==
    ASSUME IInv, NEW n \in Id
    PROVE  /\ sim[n] \in Sim /\ prog[n] \in Prog /\ sim \in [Id -> Sim] /\ prog \in [Id -> Prog]
           /\ toProg[n] \in Seq(Message) /\ toSim[n] \in Seq(Message)
           /\ toProg \in [Id -> Seq(Message)] /\ toSim \in [Id -> Seq(Message)]
           /\ out \in [Id -> 0 .. PipeCap]
           /\ Talk(n, sim[n], prog[n], toProg[n], toSim[n], Bond(n))
           /\ Bond(n) \in {"none", "asked", "held"}
<1>1. Bond(n) \in {"none", "asked", "held"}
  BY DEF Bond
<1> QED
  BY <1>1 DEF IInv, TypeOK, Talks

\* Reading what a program has printed keeps IInv.
LEMMA ReadOutputKeeps ==
    ASSUME IInv, NEW n \in Id, ReadOutput(n) PROVE IInv'
<1> USE AtHand
<1>1. out' \in [Id -> 0 .. PipeCap]
  BY SockoptAssumption DEF ReadOutput
<1>2. Becomes(n, sim[n], prog[n], toProg[n], toSim[n])
  BY <1>1 DEF ReadOutput, Becomes
<1>3. Follows(n, sim[n], prog[n], toProg[n], toSim[n])
  BY SameForksAgain DEF Follows
<1> QED
  BY <1>2, <1>3, LocalStep

\* A step of simulator n alone.
LEMMA SimAlone ==
    ASSUME IInv, NEW n \in Id, NEW s \in Sim, sim' = [sim EXCEPT ![n] = s],
           UNCHANGED <<prog, parent, toProg, toSim, out>>,
           Talk(n, s, prog[n], toProg[n], toSim[n], Bond(n))
    PROVE  IInv'
<1> USE AtHand
<1>1. Becomes(n, s, prog[n], toProg[n], toSim[n])
  BY DEF Becomes
<1>2. Follows(n, s, prog[n], toProg[n], toSim[n])
  BY SameForksAgain DEF Follows
<1> QED
  BY <1>1, <1>2, LocalStep

\* So does the end of its output.
LEMMA OutputEndsKeeps ==
    ASSUME IInv, NEW n \in Id, OutputEnds(n) PROVE IInv'
<1> DEFINE s == [sim[n] EXCEPT !.io_fd = FALSE]
<1>1. /\ s \in Sim /\ s.pc = sim[n].pc /\ s.then = sim[n].then
      /\ s.status = sim[n].status /\ s.msg_fd = sim[n].msg_fd
  BY AtHand DEF Sim
<1>2. sim' = [sim EXCEPT ![n] = s] /\ UNCHANGED <<prog, parent, toProg, toSim, out>>
  BY DEF OutputEnds, SimSet
<1> HIDE DEF s
<1>3. Talk(n, s, prog[n], toProg[n], toSim[n], Bond(n))
  BY <1>1, AtHand DEF Talk, Served, Told, InKernel, InScript
<1> QED
  BY <1>1, <1>2, <1>3, SimAlone

\* So does the end of the message socket.
LEMMA MessagesEndKeeps ==
    ASSUME IInv, NEW n \in Id, MessagesEnd(n) PROVE IInv'
<1> DEFINE s == [sim[n] EXCEPT !.msg_fd = FALSE]
<1>1. /\ s \in Sim /\ s.pc = sim[n].pc /\ s.then = sim[n].then
      /\ s.status = sim[n].status /\ ~s.msg_fd
  BY AtHand DEF Sim
<1>2. /\ sim' = [sim EXCEPT ![n] = s] /\ UNCHANGED <<prog, parent, toProg, toSim, out>>
      /\ sim[n].pc = "select" /\ toSim[n] = <<>> /\ ~ProgEndOpen(n)
  BY DEF MessagesEnd, MayLookAtSocket, SimSet
<1> HIDE DEF s
<1>3. prog[n].pc \in {"absent", "dead"} /\ Bond(n) = "none"
  BY <1>2, OpenEnd DEF ProgAlive
<1>4. Talk(n, s, prog[n], toProg[n], toSim[n], Bond(n))
  BY <1>1, <1>2, <1>3, AtHand DEF Talk, Served, Told, InKernel, InScript, InSyscall
<1> QED
  BY <1>1, <1>2, <1>4, SimAlone

\* So does collecting the status of a program.
LEMMA ProgramEndsKeeps ==
    ASSUME IInv, NEW n \in Id, ProgramEnds(n) PROVE IInv'
<1>1. PICK s : /\ sim' = [sim EXCEPT ![n] = s] /\ UNCHANGED <<prog, parent, toProg, toSim, out>>
               /\ \/ /\ sim[n].status # "none" \/ n # 1
                     /\ s = [sim[n] EXCEPT !.pc = "script"]
                  \/ /\ sim[n].status = "none" /\ n = 1 /\ prog[n].pc = "dead"
                     /\ s = [sim[n] EXCEPT !.pc = "script", !.status = prog[n].status]
  BY DEF ProgramEnds, SimSet
<1>2. /\ s \in Sim /\ s.pc = "script" /\ s.then = sim[n].then /\ s.msg_fd = sim[n].msg_fd
      /\ \/ s.status = sim[n].status /\ (sim[n].status # "none" \/ n # 1)
         \/ s.status = prog[n].status /\ n = 1
  BY <1>1, AtHand, ZenonT(60) DEF Sim, Prog
<1>3. sim[n].pc = "select" /\ ~sim[n].msg_fd
  BY DEF ProgramEnds
<1>4. Talk(n, s, prog[n], toProg[n], toSim[n], Bond(n))
  BY <1>2, <1>3, AtHand DEF Talk, Served, Told, InKernel, InScript, InSyscall
<1> QED
  BY <1>1, <1>2, <1>4, SimAlone

\* So does the exit of a simulator.
LEMMA SimExitsKeeps ==
    ASSUME IInv, NEW n \in Id, NEW how \in {"good", "bad"}, SimExits(n, how) PROVE IInv'
<1> DEFINE s == [sim[n] EXCEPT !.pc = "dead", !.end = how]
<1>1. s \in Sim /\ s.pc = "dead" /\ s.status = sim[n].status
  BY AtHand DEF Sim
<1>2. /\ sim' = [sim EXCEPT ![n] = s] /\ UNCHANGED <<prog, parent, toProg, toSim, out>>
      /\ sim[n].pc \in {"script", "kernel"}
  BY DEF SimExits, SimSet
<1> HIDE DEF s
<1>3. Talk(n, s, prog[n], toProg[n], toSim[n], Bond(n))
  BY <1>1, <1>2, AtHand DEF Talk, Served, Told, InKernel, InScript, InSyscall
<1> QED
  BY <1>1, <1>2, <1>3, SimAlone

\* So does reaping a forked simulator.
LEMMA ChildReapedKeeps ==
    ASSUME IInv, NEW n \in Id, ChildReaped(n) PROVE IInv'
<1>1. PICK s : /\ sim' = [sim EXCEPT ![n] = s] /\ UNCHANGED <<prog, parent, toProg, toSim, out>>
               /\ \/ s = [sim[n] EXCEPT !.pc = sim[n].then]
                  \/ s = [sim[n] EXCEPT !.pc = "dead", !.end = "bad"]
  BY DEF ChildReaped, SimSet
<1>2. sim[n].pc = "waitpid"
  BY DEF ChildReaped
<1>3. /\ s \in Sim /\ s.pc \in {sim[n].then, "dead"} /\ s.then = sim[n].then
      /\ s.msg_fd = sim[n].msg_fd /\ s.status = sim[n].status
      /\ sim[n].then \in {"kernel", "script"}
  BY <1>1, AtHand, ZenonT(60) DEF Sim
<1>4. Talk(n, s, prog[n], toProg[n], toSim[n], Bond(n))
  BY <1>2, <1>3, AtHand DEF Talk, Served, Told, InKernel, InScript, InSyscall
<1> QED
  BY <1>1, <1>3, <1>4, SimAlone

\* The message taken is the only one.
LEMMA OneLess ==
    ASSUME NEW R \in Seq(Message), Len(R) = 1 \/ R = <<>>, R # <<>>
    PROVE  Head(R) = R[1] /\ Len(R) = 1 /\ Tail(R) = <<>> /\ R[1] \in Message
<1>1. Head(R) = R[1] /\ Len(R) = 1 /\ R[1] \in Message
  OBVIOUS
<1>2. Tail(R) \in Seq(Message) /\ Len(Tail(R)) = 0
  BY <1>1, HeadTailProperties
<1> QED
  BY <1>1, <1>2, EmptySeq

\* So does reading a message of the program.
LEMMA HandleMessageKeeps ==
    ASSUME IInv, NEW n \in Id, HandleMessage(n) PROVE IInv'
<1> DEFINE R == Tail(toSim[n])
<1>1. PICK s : /\ sim' = [sim EXCEPT ![n] = s] /\ toSim' = [toSim EXCEPT ![n] = R]
               /\ UNCHANGED <<prog, parent, toProg, out>>
               /\ \/ /\ Head(toSim[n]).op = "syscall"
                     /\ s = [sim[n] EXCEPT !.pc = "kernel", !.copies = 0]
                  \/ /\ Head(toSim[n]).op # "syscall"
                     /\ s = [sim[n] EXCEPT !.status = Head(toSim[n]).op]
  BY DEF HandleMessage, SimSet
<1>2. sim[n].pc = "select" /\ sim[n].msg_fd /\ toSim[n] # <<>>
  BY DEF HandleMessage, MayLookAtSocket
<1>3. /\ Len(toSim[n]) = 1
      /\ \/ /\ prog[n].pc = "syscall" /\ toProg[n] = <<>> /\ toSim[n][1].op = "syscall"
         \/ /\ prog[n].pc = "dead" /\ n # 1 /\ Bond(n) = "none" /\ toProg[n] = <<>>
            /\ toSim[n][1].op = prog[n].status /\ prog[n].status \in {"ok", "fail"}
  <2>1. prog[n].status \in {"none", "ok", "fail"} 
        /\ prog[n].pc \in {"absent", "user", "syscall", "waitpid", "told", "dead"}
    BY AtHand DEF Prog
  <2> QED
    BY <1>2, <2>1, AtHand DEF Talk, Served, Told, InKernel, InScript, InSyscall
<1>4. /\ Head(toSim[n]) = toSim[n][1] /\ R = <<>>
  BY <1>2, <1>3, OneLess, AtHand
<1> HIDE DEF R
<1>5. /\ s \in Sim /\ s.msg_fd
      /\ \/ s.pc = "kernel" /\ s.status = sim[n].status /\ prog[n].pc = "syscall"
         \/ s.pc = "select" /\ s.status = prog[n].status /\ prog[n].pc = "dead"
  <2>1. sim[n] \in Sim /\ 0 \in 0 .. MaxCopies
    BY AtHand, SockoptAssumption
  <2>2. CASE Head(toSim[n]).op = "syscall"
    <3>1. s = [sim[n] EXCEPT !.pc = "kernel", !.copies = 0] /\ prog[n].pc = "syscall"
      BY <1>1, <1>3, <1>4, <2>2
    <3> QED
      BY <1>2, <2>1, <3>1 DEF Sim
  <2>3. CASE Head(toSim[n]).op # "syscall"
    <3>1. /\ s = [sim[n] EXCEPT !.status = prog[n].status] /\ prog[n].pc = "dead"
          /\ prog[n].status \in {"ok", "fail"}
      BY <1>1, <1>3, <1>4, <2>3
    <3> QED
      BY <1>2, <2>1, <3>1 DEF Sim
  <2> QED
    BY <2>2, <2>3
<1>6. Talk(n, s, prog[n], toProg[n], R, Bond(n))
  BY <1>2, <1>3, <1>4, <1>5, AtHand DEF Talk, Served, Told, InKernel, InScript, InSyscall, Forks
<1>7. Becomes(n, s, prog[n], toProg[n], R)
  BY <1>1, AtHand DEF Becomes
<1>8. Follows(n, s, prog[n], toProg[n], R)
  BY <1>4, <1>5, SameForksAgain, AtHand DEF Follows
<1> QED
  BY <1>6, <1>7, <1>8, LocalStep

\* A message for a program is one more behind the requests to fork.
LEMMA OneMore ==
    ASSUME NEW Q \in Seq(Message), Forks(Q), NEW m \in Message
    PROVE  /\ Append(Q, m) \in Seq(Message)
           /\ ForksThen(Append(Q, m), m.op)
           /\ m.op # "fork" => SameForks(Q, Append(Q, m))
           /\ m.op = "fork" => Forks(Append(Q, m))
<1>1. Append(Q, m) \in Seq(Message)
  OBVIOUS
<1>2. /\ Len(Append(Q, m)) = Len(Q) + 1 /\ Append(Q, m)[Len(Q) + 1] = m /\ Len(Q) \in Nat
      /\ Append(Q, m) # <<>>
  BY AppendProperties
<1>3. \A i \in DOMAIN Append(Q, m) : i # Len(Q) + 1 => i \in DOMAIN Q /\ Append(Q, m)[i] = Q[i]
  OBVIOUS
<1>4. ForksThen(Append(Q, m), m.op)
  BY <1>1, <1>2, <1>3 DEF Forks, ForksThen
<1>5. m.op = "fork" => Forks(Append(Q, m))
  BY <1>2, <1>3 DEF Forks
<1> QED
  BY <1>1, <1>4, <1>5 DEF SameForks

\* The simulator sends a message and goes on at pc.
LEMMA SimSends ==
    ASSUME IInv, NEW n \in Id, NEW s \in Sim, NEW op \in {"copy", "result"},
           s.pc = IF op = "copy" THEN "reply" ELSE "select",
           s.msg_fd = sim[n].msg_fd, s.status = sim[n].status, sim[n].pc = "kernel",
           sim' = [sim EXCEPT ![n] = s], SendToProg(n, Msg(op, n)),
           UNCHANGED <<prog, parent, toSim, out>>
    PROVE  IInv'
<1> DEFINE Q == IF ProgEndOpen(n) THEN Append(toProg[n], Msg(op, n)) ELSE toProg[n]
<1>1. toProg' = [toProg EXCEPT ![n] = Q]
  BY DEF SendToProg
<1>2. Msg(op, n) \in Message /\ Msg(op, n).op = op
  BY DEF Msg, Message
<1>3. InKernel(sim[n]) /\ sim[n].msg_fd /\ toSim[n] = <<>>
      /\ prog[n].pc \in {"absent", "user", "syscall", "waitpid", "told", "dead"}
  <2>1. InKernel(sim[n]) /\ ~InScript(sim[n])
    BY DEF InKernel, InScript
  <2>2. prog[n].pc \in {"absent", "user", "syscall", "waitpid", "told", "dead"}
    BY AtHand DEF Prog
  <2> QED
    BY <2>1, <2>2, AtHand DEF Talk, Served, Told, InSyscall
<1>4. CASE ProgEndOpen(n)
  <2>1. Q = Append(toProg[n], Msg(op, n))
    BY <1>4
  <2> HIDE DEF Q
  <2>2. ProgAlive(n) \/ Bond(n) # "none"
    BY <1>4, OpenEnd
  <2>3. (InSyscall(prog[n]) \/ Bond(n) = "asked") /\ Forks(toProg[n])
    BY <1>3, <2>2, AtHand DEF Talk, Served, Told, InSyscall, InScript, InKernel, ProgAlive
  <2>4. Q \in Seq(Message) /\ ForksThen(Q, op) /\ SameForks(toProg[n], Q)
    BY <1>2, <2>1, <2>3, OneMore, AtHand
  <2>5. Talk(n, s, prog[n], Q, toSim[n], Bond(n))
    BY <1>3, <2>3, <2>4, AtHand DEF Talk, Served, Told, InSyscall, InScript, InKernel
  <2>6. Becomes(n, s, prog[n], Q, toSim[n])
    BY <1>1, AtHand DEF Becomes
  <2>7. Follows(n, s, prog[n], Q, toSim[n])
    BY <2>4, AtHand DEF Follows
  <2> QED
    BY <2>5, <2>6, <2>7, LocalStep
<1>5. CASE ~ProgEndOpen(n)
  <2>1. Q = toProg[n]
    BY <1>5
  <2> HIDE DEF Q
  <2>2. prog[n].pc \in {"absent", "dead"} /\ Bond(n) = "none"
    BY <1>5, OpenEnd DEF ProgAlive
  <2>3. Talk(n, s, prog[n], toProg[n], toSim[n], Bond(n))
    BY <1>3, <2>2, AtHand DEF Talk, Served, Told, InSyscall, InScript, InKernel
  <2>4. toProg' = toProg
    BY <1>1, <2>1, AtHand
  <2> QED
    BY <2>3, <2>4, SimAlone
<1> QED
  BY <1>4, <1>5

\* So does asking the program to copy.
LEMMA CopyKeeps ==
    ASSUME IInv, NEW n \in Id, Copy(n) PROVE IInv'
<1> DEFINE s == [sim[n] EXCEPT !.pc = "reply", !.copies = @ + 1]
<1>1. sim[n].copies + 1 \in 0 .. MaxCopies
  <2>1. sim[n].copies < MaxCopies /\ sim[n].copies \in 0 .. MaxCopies
    BY AtHand DEF Copy, Sim
  <2> QED
    BY <2>1, SockoptAssumption
<1>2. s \in Sim /\ s.pc = "reply" /\ s.msg_fd = sim[n].msg_fd /\ s.status = sim[n].status
  BY <1>1, AtHand DEF Sim
<1>3. /\ sim' = [sim EXCEPT ![n] = s] /\ sim[n].pc = "kernel" /\ SendToProg(n, Msg("copy", n))
      /\ UNCHANGED <<prog, parent, toSim, out>>
  BY DEF Copy, SimSet
<1> HIDE DEF s
<1> QED
  BY <1>2, <1>3, SimSends

\* So does the result of a system call.
LEMMA SyscallReturnsKeeps ==
    ASSUME IInv, NEW n \in Id, SyscallReturns(n) PROVE IInv'
<1> DEFINE s == [sim[n] EXCEPT !.pc = "select"]
<1>1. s \in Sim /\ s.pc = "select" /\ s.msg_fd = sim[n].msg_fd /\ s.status = sim[n].status
  BY AtHand DEF Sim
<1>2. /\ sim' = [sim EXCEPT ![n] = s] /\ sim[n].pc = "kernel" /\ SendToProg(n, Msg("result", n))
      /\ UNCHANGED <<prog, parent, toSim, out>>
  BY DEF SyscallReturns, SimSet
<1> HIDE DEF s
<1> QED
  BY <1>1, <1>2, SimSends

\* So does the answer to a copy.
LEMMA CopyDoneKeeps ==
    ASSUME IInv, NEW n \in Id, CopyDone(n) PROVE IInv'
<1>1. sim[n].pc = "reply" /\ sim[n].msg_fd
  BY AtHand DEF CopyDone, Talk
<1>2. prog[n].pc \in {"absent", "user", "syscall", "waitpid", "told", "dead"}
      /\ prog[n].status \in {"none", "ok", "fail"}
  BY AtHand DEF Prog
<1>3. CASE toSim[n] # <<>>
  <2> DEFINE R == Tail(toSim[n])
  <2>1. /\ Len(toSim[n]) = 1
        /\ \/ prog[n].pc = "syscall" /\ toProg[n] = <<>> /\ toSim[n][1].op = "copied"
           \/ /\ prog[n].pc = "dead" /\ n # 1 /\ Bond(n) = "none" /\ toProg[n] = <<>>
              /\ toSim[n][1].op \in {"ok", "fail"}
    BY <1>1, <1>2, <1>3, AtHand DEF Talk, Served, Told, InKernel, InScript, InSyscall
  <2>2. Head(toSim[n]) = toSim[n][1] /\ R = <<>>
    BY <1>3, <2>1, OneLess, AtHand
  <2>3. PICK s : /\ sim' = [sim EXCEPT ![n] = s] /\ toSim' = [toSim EXCEPT ![n] = R]
                 /\ UNCHANGED <<prog, parent, toProg, out>>
                 /\ \/ /\ Head(toSim[n]).op = "copied" /\ s = [sim[n] EXCEPT !.pc = "kernel"]
                    \/ /\ Head(toSim[n]).op # "copied"
                       /\ s = [sim[n] EXCEPT !.pc = "dead", !.end = "bad"]
    BY <1>3 DEF CopyDone, SimSet
  <2> HIDE DEF R
  <2>4. /\ s \in Sim /\ s.msg_fd /\ s.status = sim[n].status
        /\ \/ s.pc = "kernel" /\ prog[n].pc = "syscall"
           \/ s.pc = "dead" /\ prog[n].pc = "dead" /\ n # 1 /\ Bond(n) = "none"
    BY <1>1, <2>1, <2>2, <2>3, AtHand DEF Sim
  <2>5. Talk(n, s, prog[n], toProg[n], R, Bond(n))
    BY <1>1, <2>1, <2>2, <2>4, AtHand
       DEF Talk, Served, Told, InKernel, InScript, InSyscall, Forks
  <2>6. Becomes(n, s, prog[n], toProg[n], R)
    BY <2>3, AtHand DEF Becomes
  <2>7. Follows(n, s, prog[n], toProg[n], R)
    BY <2>2, <2>4, SameForksAgain, AtHand DEF Follows
  <2> QED
    BY <2>5, <2>6, <2>7, LocalStep
<1>4. CASE toSim[n] = <<>>
  <2> DEFINE s == [sim[n] EXCEPT !.pc = "kernel"]
  <2>1. s \in Sim /\ s.pc = "kernel" /\ s.msg_fd /\ s.status = sim[n].status
    BY <1>1, AtHand DEF Sim
  <2>2. /\ sim' = [sim EXCEPT ![n] = s] /\ UNCHANGED <<prog, parent, toProg, toSim, out>>
        /\ ~ProgEndOpen(n)
    BY <1>4 DEF CopyDone, SimSet
  <2> HIDE DEF s
  <2>3. prog[n].pc \in {"absent", "dead"} /\ Bond(n) = "none"
    BY <2>2, OpenEnd DEF ProgAlive
  <2>4. prog[n].pc = "dead" => n = 1
    <3>1. Len(toSim[n]) # 1
      BY <1>4
    <3> QED
      BY <1>1, <2>3, <3>1, AtHand DEF Talk, Told, InScript
  <2>5. Talk(n, s, prog[n], toProg[n], toSim[n], Bond(n))
    BY <1>1, <1>4, <2>1, <2>3, <2>4, AtHand DEF Talk, InKernel, InScript, InSyscall
  <2> QED
    BY <2>1, <2>2, <2>5, SimAlone
<1> QED
  BY <1>3, <1>4

-----------------------------------------------------------------------------
\* A step of program n on its own socket.
LEMMA ProgLocal ==
    ASSUME IInv, NEW n \in Id, NEW p \in Prog, NEW Q \in Seq(Message), NEW R \in Seq(Message),
           Talk(n, sim[n], p, Q, R, Bond(n)),
           prog' = [prog EXCEPT ![n] = p], toProg' = [toProg EXCEPT ![n] = Q],
           toSim' = [toSim EXCEPT ![n] = R], UNCHANGED <<sim, parent>>,
           out' \in [Id -> 0 .. PipeCap], SameForks(toProg[n], Q), p.kid = prog[n].kid,
           p.pc # "absent" /\ prog[n].pc # "dead",
           p.pc = "told" => prog[n].pc = "told" \/ prog[prog[n].kid].pc = "dead"
    PROVE  IInv'
<1>1. Becomes(n, sim[n], p, Q, R)
  BY AtHand DEF Becomes
<1>2. Follows(n, sim[n], p, Q, R)
  BY AtHand DEF Follows
<1> QED
  BY <1>1, <1>2, LocalStep

\* So does a line the program prints.
LEMMA ProgPrintsKeeps ==
    ASSUME IInv, NEW n \in Id, ProgPrints(n) PROVE IInv'
<1> DEFINE p == [prog[n] EXCEPT !.prints = @ + 1]
<1>1. prog[n].prints + 1 \in 0 .. MaxPrints
  <2>1. prog[n].prints < MaxPrints /\ prog[n].prints \in 0 .. MaxPrints
    BY AtHand DEF ProgPrints, Prog
  <2> QED
    BY <2>1, SockoptAssumption
<1>2. p \in Prog /\ p.pc = "user" /\ p.kid = prog[n].kid /\ p.status = prog[n].status
  BY <1>1, AtHand DEF Prog, ProgPrints
<1>3. out' \in [Id -> 0 .. PipeCap]
  <2>1. out[n] < PipeCap /\ out[n] \in 0 .. PipeCap
    BY AtHand DEF ProgPrints
  <2>2. out[n] + 1 \in 0 .. PipeCap
    BY <2>1, SockoptAssumption
  <2> QED
    BY <2>2, AtHand DEF ProgPrints
<1>4. /\ prog' = [prog EXCEPT ![n] = p] /\ UNCHANGED <<sim, parent, toProg, toSim>>
      /\ prog[n].pc = "user"
  BY DEF ProgPrints, ProgSet
<1> HIDE DEF p
<1>5. Talk(n, sim[n], p, toProg[n], toSim[n], Bond(n))
  BY <1>2, <1>4, AtHand DEF Talk, InSyscall, Served
<1>6. toProg' = [toProg EXCEPT ![n] = toProg[n]] /\ toSim' = [toSim EXCEPT ![n] = toSim[n]]
  BY <1>4, AtHand
<1> QED
  BY <1>2, <1>3, <1>4, <1>5, <1>6, SameForksAgain, AtHand, ProgLocal

\* So does a system call of the program.
LEMMA SyscallKeeps ==
    ASSUME IInv, NEW n \in Id, Syscall(n) PROVE IInv'
<1> DEFINE p == [prog[n] EXCEPT !.pc = "syscall", !.calls = @ + 1]
           R == Append(toSim[n], Msg("syscall", n))
<1>1. prog[n].calls + 1 \in 0 .. MaxCalls
  <2>1. prog[n].calls < MaxCalls /\ prog[n].calls \in 0 .. MaxCalls
    BY AtHand DEF Syscall, Prog
  <2> QED
    BY <2>1, SockoptAssumption
<1>2. p \in Prog /\ p.pc = "syscall" /\ p.kid = prog[n].kid /\ p.status = prog[n].status
  BY <1>1, AtHand DEF Prog
<1>3. prog[n].pc = "user" /\ sim[n].pc = "select" /\ toProg[n] = <<>> /\ toSim[n] = <<>>
  BY AtHand DEF Talk, Syscall
<1>4. SimAlive(n)
  BY <1>3 DEF SimAlive
<1>5. /\ prog' = [prog EXCEPT ![n] = p] /\ UNCHANGED <<sim, parent, toProg, out>>
      /\ toSim' = [toSim EXCEPT ![n] = R]
  BY <1>4 DEF Syscall, ProgSet, SendToSim
<1>6. R \in Seq(Message) /\ Len(R) = 1 /\ R[1].op = "syscall"
  <2>1. Msg("syscall", n) \in Message /\ Msg("syscall", n).op = "syscall"
    BY DEF Msg, Message
  <2> QED
    BY <1>3, <2>1
<1> HIDE DEF p, R
<1>7. Talk(n, sim[n], p, toProg[n], R, Bond(n))
  BY <1>2, <1>3, <1>6, AtHand DEF Talk, InSyscall, Served, InScript, InKernel
<1>8. toProg' = [toProg EXCEPT ![n] = toProg[n]] /\ out' \in [Id -> 0 .. PipeCap]
  BY <1>5, AtHand
<1> QED
  BY <1>2, <1>3, <1>5, <1>6, <1>7, <1>8, SameForksAgain, AtHand, ProgLocal

\* A program ends in its own code, or in a system call whose simulator is gone.
LEMMA ProgDiesKeeps ==
    ASSUME IInv, NEW n \in Id, NEW status \in {"ok", "fail"},
           ProgExits(n, status) \/ (ReadFails(n) /\ status = "fail")
    PROVE  IInv'
<1> DEFINE p == [prog[n] EXCEPT !.pc = "dead", !.status = status]
<1>1. p \in Prog /\ p.pc = "dead" /\ p.kid = prog[n].kid /\ p.status # "none"
  BY AtHand DEF Prog
<1>2. /\ prog' = [prog EXCEPT ![n] = p] /\ UNCHANGED <<sim, parent, toProg, toSim, out>>
      /\ \/ prog[n].pc = "user"
         \/ prog[n].pc = "syscall" /\ toProg[n] = <<>> /\ ~SimAlive(n)
  BY DEF ProgExits, ReadFails, ProgDies, ProgSet
<1>3. /\ prog[n].pc \in {"user", "syscall"} /\ toProg[n] = <<>> /\ toSim[n] = <<>>
      /\ sim[n].pc \in {"select", "dead"}
  <2>1. sim[n].pc = "absent" => prog[n].pc = "absent"
    BY AtHand DEF Talk
  <2> QED
    BY <1>2, <2>1, AtHand DEF Talk, Served, InSyscall, SimAlive, InKernel
<1> HIDE DEF p
<1>4. Talk(n, sim[n], p, toProg[n], toSim[n], Bond(n))
  BY <1>1, <1>3, AtHand DEF Talk, InSyscall, Told, InScript, InKernel
<1>5. toProg' = [toProg EXCEPT ![n] = toProg[n]] /\ toSim' = [toSim EXCEPT ![n] = toSim[n]]
      /\ out' \in [Id -> 0 .. PipeCap]
  BY <1>2, AtHand
<1> QED
  BY <1>1, <1>2, <1>3, <1>4, <1>5, SameForksAgain, AtHand, ProgLocal

\* So does the news that a copy of the program has ended.
LEMMA TellKidExitedKeeps ==
    ASSUME IInv, NEW n \in Id, TellKidExited(n) PROVE IInv'
<1> DEFINE p == [prog[n] EXCEPT !.pc = "told"]
<1>1. p \in Prog /\ p.pc = "told" /\ p.kid = prog[n].kid /\ p.status = prog[n].status
  BY AtHand DEF Prog
<1>2. out' \in [Id -> 0 .. PipeCap]
  <2>1. CASE out' = out
    BY <2>1, AtHand
  <2>2. CASE out[n] < PipeCap /\ out' = [out EXCEPT ![n] = @ + 1]
    <3>1. out[n] + 1 \in 0 .. PipeCap
      BY <2>2, SockoptAssumption, AtHand
    <3> QED
      BY <2>2, <3>1, AtHand
  <2> QED
    BY <2>1, <2>2 DEF TellKidExited
<1>3. /\ prog' = [prog EXCEPT ![n] = p] /\ UNCHANGED <<sim, parent, toProg, toSim>>
      /\ prog[n].pc = "waitpid" /\ prog[prog[n].kid].pc = "dead"
  BY DEF TellKidExited, ProgSet
<1> HIDE DEF p
<1>4. Talk(n, sim[n], p, toProg[n], toSim[n], Bond(n))
  BY <1>1, <1>3, AtHand DEF Talk, InSyscall, Served, InScript, InKernel
<1>5. toProg' = [toProg EXCEPT ![n] = toProg[n]] /\ toSim' = [toSim EXCEPT ![n] = toSim[n]]
  BY <1>3, AtHand
<1> QED
  BY <1>1, <1>2, <1>3, <1>4, <1>5, SameForksAgain, AtHand, ProgLocal

\* Behind the requests to fork there is at most one message, which is the first when
\* there are none.
LEMMA LastIsFirst ==
    ASSUME NEW Q \in Seq(Message), NEW op, ForksThen(Q, op), Head(Q).op # "fork"
    PROVE  Head(Q) = Q[1] /\ Q[1].op = op /\ Tail(Q) = <<>>
<1>1. Q # <<>> /\ Head(Q) = Q[1] /\ Len(Q) \in Nat /\ 1 \in DOMAIN Q
  BY DEF ForksThen
<1>2. Len(Q) = 1
  BY <1>1 DEF ForksThen
<1> QED
  BY <1>1, <1>2, OneLess DEF ForksThen

\* So does reading a reply.
LEMMA ReadReplyKeeps ==
    ASSUME IInv, NEW n \in Id, ReadReply(n) PROVE IInv'
<1>1. prog[n].pc = "syscall" /\ toProg[n] # <<>> /\ toProg[n] \in Seq(Message)
  BY AtHand DEF ReadReply
<1>2. /\ Head(toProg[n]) = toProg[n][1] /\ 1 \in DOMAIN toProg[n]
      /\ Head(toProg[n]).op \in {"result", "copy"}
  BY <1>1 DEF ReadReply
<1>3. Served(sim[n], prog[n], toProg[n], toSim[n])
  BY <1>1, AtHand DEF Talk, InSyscall
<1>4. ~Forks(toProg[n])
  BY <1>2 DEF Forks
<1>5. /\ toSim[n] = <<>>
      /\ \/ sim[n].pc = "select" /\ ForksThen(toProg[n], "result")
         \/ sim[n].pc = "reply" /\ ForksThen(toProg[n], "copy")
  BY <1>1, <1>3, <1>4 DEF Served
<1>6. /\ Tail(toProg[n]) = <<>>
      /\ \/ sim[n].pc = "select" /\ Head(toProg[n]).op = "result"
         \/ sim[n].pc = "reply" /\ Head(toProg[n]).op = "copy"
  BY <1>1, <1>2, <1>5, LastIsFirst
<1>7. toProg' = [toProg EXCEPT ![n] = <<>>] /\ UNCHANGED <<sim, parent, out>>
  BY <1>6 DEF ReadReply
<1>8. SameForks(toProg[n], <<>>) /\ out' \in [Id -> 0 .. PipeCap] /\ <<>> \in Seq(Message)
  BY <1>1, <1>2, <1>6, <1>7, AtHand DEF SameForks
<1>9. CASE Head(toProg[n]).op = "result"
  <2> DEFINE p == [prog[n] EXCEPT !.pc = "user"]
  <2>1. p \in Prog /\ p.pc = "user" /\ p.kid = prog[n].kid /\ p.status = prog[n].status
    BY AtHand DEF Prog
  <2>2. prog' = [prog EXCEPT ![n] = p] /\ toSim' = [toSim EXCEPT ![n] = toSim[n]]
    BY <1>9, AtHand DEF ReadReply, ProgSet
  <2> HIDE DEF p
  <2>3. sim[n].pc = "select"
    BY <1>6, <1>9
  <2>4. Talk(n, sim[n], p, <<>>, toSim[n], Bond(n))
    BY <1>1, <1>5, <2>1, <2>3, AtHand DEF Talk, InSyscall, InScript, InKernel
  <2> QED
    BY <1>1, <1>7, <1>8, <2>1, <2>2, <2>4, AtHand, ProgLocal
<1>10. CASE /\ Head(toProg[n]).op = "copy"
            /\ SendToSim(n, Msg("copied", n)) /\ UNCHANGED prog
  <2> DEFINE R == Append(toSim[n], Msg("copied", n))
  <2>1. sim[n].pc = "reply"
    BY <1>6, <1>10
  <2>2. SimAlive(n)
    BY <2>1 DEF SimAlive
  <2>3. prog' = [prog EXCEPT ![n] = prog[n]]
    BY <1>10, AtHand
  <2>4. toSim' = [toSim EXCEPT ![n] = R]
    BY <1>10, <2>2 DEF SendToSim
  <2>5. R \in Seq(Message) /\ Len(R) = 1 /\ R[1].op = "copied"
    <3>1. Msg("copied", n) \in Message /\ Msg("copied", n).op = "copied"
      BY DEF Msg, Message
    <3> QED
      BY <1>5, <3>1
  <2> HIDE DEF R
  <2>6. Talk(n, sim[n], prog[n], <<>>, R, Bond(n))
    BY <1>1, <2>1, <2>5, AtHand DEF Talk, InSyscall, Served, InScript, InKernel
  <2> QED
    BY <1>1, <1>7, <1>8, <2>3, <2>4, <2>5, <2>6, AtHand, ProgLocal
<1>11. CASE Head(toProg[n]).op = "copy" /\ ProgDies(n, "fail") /\ UNCHANGED toSim
  <2> DEFINE p == [prog[n] EXCEPT !.pc = "dead", !.status = "fail"]
  <2>1. p \in Prog /\ p.pc = "dead" /\ p.kid = prog[n].kid /\ p.status = "fail"
    BY AtHand DEF Prog
  <2>2. prog' = [prog EXCEPT ![n] = p] /\ toSim' = [toSim EXCEPT ![n] = toSim[n]]
    BY <1>11, AtHand DEF ProgDies, ProgSet
  <2> HIDE DEF p
  <2>3. sim[n].pc = "reply"
    BY <1>6, <1>11
  <2>4. Talk(n, sim[n], p, <<>>, toSim[n], Bond(n))
    BY <1>1, <1>5, <2>1, <2>3, AtHand DEF Talk, InSyscall, InScript, InKernel, Told
  <2> QED
    BY <1>1, <1>7, <1>8, <2>1, <2>2, <2>4, AtHand, ProgLocal
<1> QED
  BY <1>9, <1>10, <1>11 DEF ReadReply

-----------------------------------------------------------------------------
\* Whom a request to fork, or a program that waits, has in mind.
LEMMA WhoAsks ==
    ASSUME IInv, NEW k \in Id, NEW m \in Id, ForkIn(toProg[k], m)
    PROVE  parent[m] = k /\ Bond(m) = "asked" /\ prog[m].pc = "absent"
<1>1. parent[m] = k /\ k # 0
  BY DEF IInv, Links, Id
<1>2. Bond(m) = "asked"
  BY <1>1 DEF Bond
<1> QED
  BY <1>1, <1>2, AtHand DEF Talk

\* A copy that a program waits for is bound to it and no longer asked for.
LEMMA WhoHolds ==
    ASSUME IInv, NEW k \in Id, prog[k].kid # 0
    PROVE  /\ prog[k].kid \in Id /\ parent[prog[k].kid] = k
           /\ Bond(prog[k].kid) = "held" /\ ~ForkIn(toProg[k], prog[k].kid)
<1>1. prog[k].kid \in 0 .. MaxSim
  BY AtHand DEF Prog
<1>2. prog[k].kid \in Id
  BY <1>1, SockoptAssumption DEF Id
<1>3. parent[prog[k].kid] = k /\ prog[prog[k].kid].pc # "absent" /\ k # 0
  BY DEF IInv, Links, Id
<1>4. ~ForkIn(toProg[k], prog[k].kid)
  BY <1>2, <1>3, WhoAsks
<1> QED
  BY <1>2, <1>3, <1>4 DEF Bond

\* One more request to fork.
OneAskedToo(Q, m, Q2) == Q2 = Append(Q, Msg("fork", m))

\* One more request to fork, for a program nobody asked for yet.
LEMMA AskedToo ==
    ASSUME NEW Q \in Seq(Message), NEW m \in Id, ~ForkIn(Q, m), NEW Q2, OneAskedToo(Q, m, Q2)
    PROVE  /\ \A x : ForkIn(Q2, x) <=> ForkIn(Q, x) \/ x = m
           /\ AskedOnce(Q) => AskedOnce(Q2)
<1>1. /\ Msg("fork", m) \in Message /\ Msg("fork", m).op = "fork" /\ Msg("fork", m).id = m
  BY DEF Msg, Message
<1>2. /\ DOMAIN Q2 = 1 .. Len(Q) + 1 /\ Len(Q) + 1 \in DOMAIN Q2
      /\ \A i \in DOMAIN Q : Q2[i] = Q[i] /\ i \in DOMAIN Q2
      /\ Q2[Len(Q) + 1].op = "fork" /\ Q2[Len(Q) + 1].id = m
      /\ \A i \in DOMAIN Q2 : i # Len(Q) + 1 => i \in DOMAIN Q
  BY <1>1 DEF OneAskedToo
<1>3. \A x : ForkIn(Q2, x) <=> ForkIn(Q, x) \/ x = m
  BY <1>2 DEF ForkIn
<1>4. AskedOnce(Q) => AskedOnce(Q2)
  BY <1>2 DEF ForkIn, AskedOnce
<1> QED
  BY <1>3, <1>4

\* A request to fork is taken from the socket.
LEMMA AskedBefore ==
    ASSUME NEW Q \in Seq(Message), Q # <<>>, Q[1].op = "fork", AskedOnce(Q), NEW Q2, Q2 = Tail(Q)
    PROVE  /\ Q2 \in Seq(Message) /\ AskedOnce(Q2)
           /\ \A x : ForkIn(Q2, x) <=> ForkIn(Q, x) /\ x # Q[1].id
           /\ Forks(Q) => Forks(Q2)
           /\ \A op \in {"copy", "result"} : ForksThen(Q, op) => ForksThen(Q2, op)
<1>1. Len(Q) \in Nat /\ DOMAIN Q = 1 .. Len(Q) /\ 1 \in DOMAIN Q
  OBVIOUS
<1>2. /\ Q2 \in Seq(Message) /\ DOMAIN Q2 = 1 .. Len(Q) - 1 /\ Len(Q2) = Len(Q) - 1
      /\ \A i \in DOMAIN Q2 : Q2[i] = Q[i + 1] /\ i + 1 \in DOMAIN Q /\ i + 1 # 1 /\ i \in Int
      /\ \A i \in DOMAIN Q : i # 1 => i - 1 \in DOMAIN Q2 /\ Q2[i - 1] = Q[i]
  BY <1>1
<1>3. AskedOnce(Q2)
  BY <1>2 DEF AskedOnce
<1>4. ASSUME NEW x, ForkIn(Q2, x) PROVE ForkIn(Q, x) /\ x # Q[1].id
  <2>1. PICK i \in DOMAIN Q2 : Q2[i].op = "fork" /\ Q2[i].id = x
    BY <1>4 DEF ForkIn
  <2>2. i + 1 \in DOMAIN Q /\ i + 1 # 1 /\ Q[i + 1].op = "fork" /\ Q[i + 1].id = x
    BY <1>2, <2>1
  <2> QED
    BY <1>1, <2>2 DEF ForkIn, AskedOnce
<1>5. ASSUME NEW x, ForkIn(Q, x), x # Q[1].id PROVE ForkIn(Q2, x)
  <2>1. PICK i \in DOMAIN Q : Q[i].op = "fork" /\ Q[i].id = x
    BY <1>5 DEF ForkIn
  <2>2. i - 1 \in DOMAIN Q2 /\ Q2[i - 1] = Q[i]
    BY <1>2, <1>5, <2>1
  <2> QED
    BY <2>1, <2>2 DEF ForkIn
<1>6. Forks(Q) => Forks(Q2)
  BY <1>2 DEF Forks
<1>7. ASSUME NEW op \in {"copy", "result"}, ForksThen(Q, op) PROVE ForksThen(Q2, op)
  <2>1. Len(Q) # 1 /\ Q[Len(Q)].op = op
    BY <1>7 DEF ForksThen
  <2>2. Len(Q2) \in DOMAIN Q2 /\ Q2[Len(Q2)].op = op
    BY <1>1, <1>2, <2>1
  <2>3. Q2 # <<>>
    BY <1>1, <1>2, <2>1
  <2>4. \A i \in DOMAIN Q2 : i # Len(Q2) => Q2[i].op = "fork"
    BY <1>1, <1>2, <1>7 DEF ForksThen
  <2> QED
    BY <2>2, <2>3, <2>4 DEF ForksThen
<1> QED
  BY <1>2, <1>3, <1>4, <1>5, <1>6, <1>7

\* The program forks: its copy is now held by it.
LEMMA DoForkKeeps ==
    ASSUME IInv, NEW n \in Id, DoFork(n) PROVE IInv'
<1>0. PICK m \in Id : m = Head(toProg[n]).id
  <2>1. Head(toProg[n]) \in Message
    BY AtHand DEF DoFork
  <2> QED
    BY <2>1 DEF Message
<1> DEFINE q == [prog[n] EXCEPT !.pc = "waitpid", !.kid = m]
           p == NewProg("syscall", prog[n].calls, prog[n].prints)
           Q == Tail(toProg[n])
<1>1. TypeOK /\ Links /\ \A k \in Id : Talk(k, sim[k], prog[k], toProg[k], toSim[k], Bond(k))
  BY DEF IInv, Talks
<1>2. /\ prog[n].pc = "syscall" /\ toProg[n] # <<>> /\ toProg[n] \in Seq(Message)
      /\ toProg[n][1].op = "fork" /\ m = toProg[n][1].id /\ 1 \in DOMAIN toProg[n]
  BY <1>0, AtHand DEF DoFork
<1>3. ForkIn(toProg[n], m)
  BY <1>2 DEF ForkIn
<1>4. parent[m] = n /\ Bond(m) = "asked" /\ prog[m].pc = "absent" /\ m # n
  BY <1>2, <1>3, WhoAsks
<1>5. /\ Q \in Seq(Message) /\ AskedOnce(Q)
      /\ \A x : ForkIn(Q, x) <=> ForkIn(toProg[n], x) /\ x # m
      /\ Forks(toProg[n]) => Forks(Q)
      /\ \A op \in {"copy", "result"} : ForksThen(toProg[n], op) => ForksThen(Q, op)
  <2>1. AskedOnce(toProg[n])
    BY <1>1 DEF Links
  <2> QED
    BY <1>2, <2>1, AskedBefore
<1>6. /\ q \in Prog /\ q.pc = "waitpid" /\ q.kid = m
      /\ p \in Prog /\ p.pc = "syscall" /\ p.kid = 0
  <2>1. m \in 0 .. MaxSim /\ 0 \in 0 .. MaxSim
    BY SockoptAssumption DEF Id
  <2>2. prog[n] \in Prog
    BY AtHand
  <2> QED
    BY <2>1, <2>2 DEF Prog, NewProg
<1>7. /\ prog' = [prog EXCEPT ![n] = q, ![m] = p] /\ toProg' = [toProg EXCEPT ![n] = Q]
      /\ UNCHANGED <<sim, parent, toSim, out>>
  <2>1. prog' = [prog EXCEPT ![n].pc = "waitpid", ![n].kid = m, ![m] = p]
    BY <1>0 DEF DoFork
  <2>2. prog \in [Id -> Prog] /\ prog[n] \in Prog
    BY AtHand
  <2>3. prog' = [prog EXCEPT ![n] = q, ![m] = p]
    BY <1>4, <2>1, <2>2 DEF Prog
  <2> QED
    BY <2>3 DEF DoFork
<1> HIDE DEF q, p, Q
<1>8. TypeOK'
  BY <1>1, <1>5, <1>6, <1>7 DEF TypeOK
<1>9. /\ prog'[n] = q /\ prog'[m] = p /\ toProg'[n] = Q
      /\ \A k \in Id : k # n => toProg'[k] = toProg[k]
      /\ \A k \in Id : k # n /\ k # m => prog'[k] = prog[k]
  BY <1>1, <1>3, <1>4, <1>7 DEF TypeOK
<1>10. prog[n].kid = 0 /\ prog[m].kid = 0
  BY <1>2, <1>3, <1>4, AtHand DEF Talk
<1>11. Bond(m)' = "held"
  <2>1. n # 0
    BY DEF Id
  <2> QED
    BY <1>4, <1>5, <1>6, <1>7, <1>9, <2>1 DEF Bond
<1>12. ASSUME NEW k \in Id, k # m PROVE Bond(k)' = Bond(k)
  <2>1. parent[k] = 0 \/ parent[k] \in Id
    BY <1>1 DEF TypeOK, Id
  <2>2. k # 0
    BY DEF Id
  <2> QED
    <3>1. CASE parent[k] \in Id
      <4>1. ForkIn(toProg'[parent[k]], k) <=> ForkIn(toProg[parent[k]], k)
        BY <1>5, <1>9, <1>12, <3>1
      <4>2. prog'[parent[k]].kid = k <=> prog[parent[k]].kid = k
        BY <1>6, <1>9, <1>10, <1>12, <2>2, <3>1
      <4> QED
        BY <1>7, <4>1, <4>2 DEF Bond
    <3>2. CASE parent[k] = 0
      BY <1>7, <3>2 DEF Bond
    <3> QED
      BY <2>1, <3>1, <3>2
<1>13. Links'
  <2>1. \A k, x \in Id : ForkIn(toProg'[k], x) => parent'[x] = k
    BY <1>1, <1>5, <1>7, <1>9 DEF Links
  <2>2. \A k \in Id : AskedOnce(toProg'[k])
    BY <1>1, <1>5, <1>9 DEF Links
  <2>3. ASSUME NEW k \in Id, prog'[k].kid # 0
        PROVE  /\ parent'[prog'[k].kid] = k
               /\ prog'[prog'[k].kid].pc # "absent"
               /\ prog'[k].pc = "told" => prog'[prog'[k].kid].pc = "dead"
    <3>1. CASE k = n
      BY <1>3, <1>4, <1>6, <1>7, <1>9, <3>1
    <3>2. CASE k # n
      <4>1. k # m /\ prog'[k] = prog[k] /\ prog[k].kid # 0
        BY <1>6, <1>9, <2>3, <3>2
      <4>2. prog[k].kid \in Id /\ parent[prog[k].kid] = k
        BY <4>1, WhoHolds
      <4>3. /\ prog[prog[k].kid].pc # "absent"
            /\ prog[k].pc = "told" => prog[prog[k].kid].pc = "dead"
        BY <1>1, <4>1 DEF Links
      <4>4. prog[k].kid # m /\ prog[k].kid = n => prog[k].pc # "told"
        BY <1>2, <1>4, <4>3
      <4>5. prog[k].kid # m
        BY <1>4, <4>3
      <4> QED
        BY <1>2, <1>6, <1>7, <1>9, <4>1, <4>2, <4>3, <4>4, <4>5, ZenonT(60)
    <3> QED
      BY <3>1, <3>2
  <2> QED
    BY <2>1, <2>2, <2>3 DEF Links
<1>14. Talk(n, sim[n], q, Q, toSim[n], Bond(n))
  <2>1. Served(sim[n], prog[n], toProg[n], toSim[n])
    BY <1>2, AtHand DEF Talk, InSyscall
  <2>2. Served(sim[n], q, Q, toSim[n])
    BY <1>2, <1>5, <2>1 DEF Served
  <2>3. m # 0
    BY DEF Id
  <2> QED
    BY <1>2, <1>6, <2>2, <2>3, AtHand DEF Talk, InSyscall, InScript, InKernel
<1>15. Talk(m, sim[m], p, toProg[m], toSim[m], "held")
  BY <1>3, <1>4, <1>6, AtHand DEF Talk, InSyscall, Served, InScript, InKernel
<1>16. Talks'
  BY <1>1, <1>3, <1>4, <1>7, <1>9, <1>11, <1>12, <1>14, <1>15 DEF Talks
<1> QED
  BY <1>8, <1>13, <1>16 DEF IInv

\* The program reports how its copy ended.
LEMMA ReportKidKeeps ==
    ASSUME IInv, NEW n \in Id, ReportKid(n) PROVE IInv'
<1>1. TypeOK /\ Links /\ \A k \in Id : Talk(k, sim[k], prog[k], toProg[k], toSim[k], Bond(k))
  BY DEF IInv, Talks
<1>2. prog[n].pc = "told" /\ prog[n].kid # 0
  BY AtHand DEF ReportKid, Talk
<1>3. PICK m \in Id : m = prog[n].kid
  BY <1>2, WhoHolds
<1>4. parent[m] = n /\ Bond(m) = "held" /\ ~ForkIn(toProg[n], m) /\ prog[m].pc = "dead" /\ m # n
  <2>1. prog[m].pc = "dead"
    BY <1>1, <1>2, <1>3 DEF Links
  <2> QED
    BY <1>2, <1>3, <2>1, WhoHolds
<1>5. /\ m # 1 /\ toProg[m] = <<>> /\ toSim[m] = <<>> /\ prog[m].status \in {"ok", "fail"}
      /\ sim[m].pc \in {"select", "reply", "dead"}
  <2>1. prog[m].status \in {"none", "ok", "fail"}
    BY AtHand DEF Prog
  <2> QED
    BY <1>4, <2>1, AtHand DEF Talk, Told
<1> DEFINE p == [prog[n] EXCEPT !.pc = "syscall", !.kid = 0]
           R == IF SimAlive(m) THEN Append(toSim[m], Msg(prog[m].status, m)) ELSE toSim[m]
<1>6. p \in Prog /\ p.pc = "syscall" /\ p.kid = 0 /\ p.status = prog[n].status
  <2>1. prog[n] \in Prog /\ 0 \in 0 .. MaxSim
    BY AtHand, SockoptAssumption
  <2> QED
    BY <2>1 DEF Prog
<1>7. /\ prog' = [prog EXCEPT ![n] = p] /\ toSim' = [toSim EXCEPT ![m] = R]
      /\ UNCHANGED <<sim, parent, toProg, out>>
  BY <1>3 DEF ReportKid, ProgSet, SendToSim
<1>8. /\ R \in Seq(Message)
      /\ \/ sim[m].pc = "dead" /\ R = <<>>
         \/ sim[m].pc \in {"select", "reply"} /\ Len(R) = 1 /\ R[1].op = prog[m].status
  <2>1. /\ Msg(prog[m].status, m) \in Message
        /\ Msg(prog[m].status, m).op = prog[m].status
    BY <1>5 DEF Msg, Message
  <2>2. CASE sim[m].pc = "dead"
    BY <1>5, <2>2 DEF SimAlive
  <2>3. CASE sim[m].pc \in {"select", "reply"}
    <3>1. R = Append(<<>>, Msg(prog[m].status, m))
      BY <1>5, <2>3 DEF SimAlive
    <3> HIDE DEF R
    <3>2. ASSUME NEW e \in Message, R = Append(<<>>, e)
          PROVE  R \in Seq(Message) /\ Len(R) = 1 /\ R[1] = e
      BY <3>2
    <3> QED
      BY <2>1, <2>3, <3>1, <3>2
  <2> QED
    BY <1>5, <2>2, <2>3
<1> HIDE DEF p, R
<1>9. TypeOK'
  BY <1>1, <1>6, <1>7, <1>8 DEF TypeOK
<1>10. /\ prog'[n] = p /\ toSim'[m] = R
       /\ \A k \in Id : k # n => prog'[k] = prog[k]
       /\ \A k \in Id : k # m => toSim'[k] = toSim[k]
  BY <1>1, <1>7 DEF TypeOK
<1>11. Bond(m)' = "none"
  <2>1. n # 0 /\ m # 0
    BY DEF Id
  <2> QED
    BY <1>4, <1>6, <1>7, <1>10, <2>1 DEF Bond
<1>12. ASSUME NEW k \in Id, k # m PROVE Bond(k)' = Bond(k)
  <2>1. parent[k] = 0 \/ parent[k] \in Id
    BY <1>1 DEF TypeOK, Id
  <2>2. k # 0
    BY DEF Id
  <2> QED
    BY <1>3, <1>6, <1>7, <1>10, <1>12, <2>1, <2>2 DEF Bond
<1>13. Links'
  <2>1. ASSUME NEW k \in Id, prog'[k].kid # 0
        PROVE  /\ parent'[prog'[k].kid] = k
               /\ prog'[prog'[k].kid].pc # "absent"
               /\ prog'[k].pc = "told" => prog'[prog'[k].kid].pc = "dead"
    <3>1. k # n /\ prog'[k] = prog[k] /\ prog[k].kid # 0
      BY <1>6, <1>10, <2>1
    <3>2. prog[k].kid \in Id
      BY <3>1, WhoHolds
    <3> QED
      BY <1>1, <1>2, <1>6, <1>7, <1>10, <3>1, <3>2 DEF Links
  <2> QED
    BY <1>1, <1>7, <2>1 DEF Links
<1>14. Talk(n, sim[n], p, toProg[n], toSim[n], Bond(n))
  BY <1>2, <1>6, AtHand DEF Talk, InSyscall, Served, InScript, InKernel
<1>15. Talk(m, sim[m], prog[m], toProg[m], R, "none")
  BY <1>4, <1>5, <1>8, AtHand DEF Talk, InSyscall, Told, InScript, InKernel
<1>16. Talks'
  BY <1>1, <1>4, <1>7, <1>10, <1>11, <1>12, <1>14, <1>15 DEF Talks
<1> QED
  BY <1>9, <1>13, <1>16 DEF IInv

\* The simulator forks and asks its program to fork too.
LEMMA FailPointKeeps ==
    ASSUME IInv, NEW n \in Id, NEW m \in Id, FailPoint(n, m) PROVE IInv'
<1>1. TypeOK /\ Links /\ \A k \in Id : Talk(k, sim[k], prog[k], toProg[k], toSim[k], Bond(k))
  BY DEF IInv, Talks
<1>2. sim[n].pc \in {"kernel", "script"} /\ sim[m].pc = "absent" /\ m # n
  BY DEF FailPoint
<1>3. /\ prog[m].pc = "absent" /\ prog[m].kid = 0 /\ Bond(m) = "none" /\ m # 1
      /\ toProg[m] = <<>> /\ toSim[m] = <<>>
  BY <1>2, AtHand DEF Talk
<1>4. \A k \in Id : ~ForkIn(toProg[k], m) /\ prog[k].kid # m
  <2>1. m # 0
    BY DEF Id
  <2> QED
    BY <1>3, <2>1, WhoAsks, WhoHolds
<1> DEFINE s == [sim[n] EXCEPT !.pc = "waitpid", !.then = sim[n].pc]
           t == NewSim(sim[n].pc, sim[n].pc, sim[n].pc = "kernel", sim[n].copies)
           asks == sim[n].pc = "kernel" /\ ProgEndOpen(n)
           Q == IF asks THEN Append(toProg[n], Msg("fork", m)) ELSE toProg[n]
<1>5. /\ s \in Sim /\ s.pc = "waitpid" /\ s.then = sim[n].pc /\ s.msg_fd = sim[n].msg_fd
      /\ s.status = sim[n].status
      /\ t \in Sim /\ t.pc = sim[n].pc /\ t.msg_fd = (sim[n].pc = "kernel") /\ t.status = "none"
  <2>1. sim[n] \in Sim
    BY AtHand
  <2> QED
    BY <1>2, <2>1 DEF Sim, NewSim
<1>6. sim' = [sim EXCEPT ![n] = s, ![m] = t]
  <2>1. sim' = [sim EXCEPT ![n].pc = "waitpid", ![n].then = sim[n].pc, ![m] = t]
    BY DEF FailPoint
  <2>2. sim \in [Id -> Sim] /\ sim[n] \in Sim
    BY AtHand
  <2> QED
    BY <1>2, <2>1, <2>2 DEF Sim
<1>7. toProg' = [toProg EXCEPT ![n] = Q] /\ parent' = [parent EXCEPT ![m] = n]
      /\ UNCHANGED <<prog, toSim, out>>
  BY AtHand DEF FailPoint, SendToProg
<1>8. /\ Q \in Seq(Message) /\ AskedOnce(Q)
      /\ \A x : ForkIn(Q, x) <=> ForkIn(toProg[n], x) \/ (asks /\ x = m)
  <2>1. toProg[n] \in Seq(Message) /\ AskedOnce(toProg[n]) /\ ~ForkIn(toProg[n], m)
    BY <1>1, <1>4, AtHand DEF Links
  <2>2. CASE asks
    <3>1. Q = Append(toProg[n], Msg("fork", m)) /\ Msg("fork", m) \in Message
      BY <2>2 DEF Msg, Message
    <3>2. Q \in Seq(Message)
      BY <2>1, <3>1
    <3> HIDE DEF Q, asks
    <3>3. (\A x : ForkIn(Q, x) <=> ForkIn(toProg[n], x) \/ x = m) /\ AskedOnce(Q)
      <4>1. OneAskedToo(toProg[n], m, Q)
        BY <3>1 DEF OneAskedToo
      <4> QED
        BY <2>1, <4>1, AskedToo
    <3> QED
      BY <2>2, <3>2, <3>3
  <2>3. CASE ~asks
    BY <2>1, <2>3
  <2> QED
    BY <2>2, <2>3
<1>9. /\ asks => (InSyscall(prog[n]) \/ Bond(n) = "asked") /\ Forks(Q) /\ toSim[n] = <<>>
      /\ ~asks => prog[n].pc \in {"absent", "dead"} /\ Bond(n) = "none" /\ Q = toProg[n]
  <2>1. prog[n].pc \in {"absent", "user", "syscall", "waitpid", "told", "dead"}
    BY AtHand DEF Prog
  <2>2. ProgEndOpen(n) <=> ProgAlive(n) \/ Bond(n) # "none"
    BY OpenEnd
  <2>3. CASE asks
    <3>1. InKernel(sim[n]) /\ sim[n].pc = "kernel" /\ (ProgAlive(n) \/ Bond(n) # "none")
      BY <2>2, <2>3 DEF InKernel
    <3>2. /\ InSyscall(prog[n]) \/ Bond(n) = "asked"
          /\ Forks(toProg[n]) /\ toSim[n] = <<>>
      BY <2>1, <3>1, AtHand DEF Talk, Served, Told, InSyscall, InScript, InKernel, ProgAlive
    <3>3. Msg("fork", m) \in Message /\ Msg("fork", m).op = "fork"
      BY DEF Msg, Message
    <3>4. Forks(Q)
      BY <2>3, <3>2, <3>3, OneMore, AtHand
    <3> QED
      BY <2>3, <3>2, <3>4
  <2>4. CASE ~asks
    <3>1. sim[n].pc = "kernel" => prog[n].pc \in {"absent", "dead"} /\ Bond(n) = "none"
      BY <2>2, <2>4 DEF ProgAlive
    <3>2. sim[n].pc = "script" => prog[n].pc \in {"absent", "dead"} /\ Bond(n) = "none"
      BY AtHand DEF Talk, InScript
    <3> QED
      BY <1>2, <2>4, <3>1, <3>2
  <2> QED
    BY <2>3, <2>4
<1>10. asks => sim[n].pc = "kernel"
  OBVIOUS
<1> HIDE DEF s, t, Q
<1>11. TypeOK'
  <2>1. n \in 0 .. MaxSim
    BY SockoptAssumption DEF Id
  <2> QED
    BY <1>1, <1>5, <1>6, <1>7, <1>8, <2>1 DEF TypeOK
<1>12. /\ sim'[n] = s /\ sim'[m] = t /\ toProg'[n] = Q /\ parent'[m] = n
       /\ \A k \in Id : k # n => toProg'[k] = toProg[k]
       /\ \A k \in Id : k # m => parent'[k] = parent[k]
       /\ \A k \in Id : k # n /\ k # m => sim'[k] = sim[k]
  BY <1>1, <1>2, <1>6, <1>7 DEF TypeOK
<1>13. PICK b : b = Bond(m)'
  OBVIOUS
<1>14. b = IF asks THEN "asked" ELSE "none"
  <2>1. n # 0
    BY DEF Id
  <2>2. ForkIn(Q, m) <=> asks
    BY <1>4, <1>8
  <2>3. prog'[n].kid # m
    BY <1>4, <1>7
  <2> HIDE DEF asks
  <2> QED
    BY <1>12, <1>13, <2>1, <2>2, <2>3 DEF Bond
<1>15. ASSUME NEW k \in Id, k # m PROVE Bond(k)' = Bond(k)
  <2>1. parent[k] = 0 \/ parent[k] \in Id
    BY <1>1 DEF TypeOK, Id
  <2> HIDE DEF asks
  <2> QED
    BY <1>7, <1>8, <1>12, <1>15, <2>1 DEF Bond
<1>16. Links'
  <2>1. ASSUME NEW k \in Id, NEW x \in Id, ForkIn(toProg'[k], x) PROVE parent'[x] = k
    <3>1. CASE x = m
      <4>1. k = n
        BY <1>4, <1>12, <2>1, <3>1
      <4> QED
        BY <1>12, <3>1, <4>1
    <3>2. CASE x # m
      BY <1>1, <1>8, <1>12, <2>1, <3>2 DEF Links
    <3> QED
      BY <3>1, <3>2
  <2>2. \A k \in Id : AskedOnce(toProg'[k])
    BY <1>1, <1>8, <1>12 DEF Links
  <2>3. ASSUME NEW k \in Id, prog'[k].kid # 0
        PROVE  /\ parent'[prog'[k].kid] = k
               /\ prog'[prog'[k].kid].pc # "absent"
               /\ prog'[k].pc = "told" => prog'[prog'[k].kid].pc = "dead"
    <3>1. prog' = prog /\ prog[k].kid # 0
      BY <1>7, <2>3
    <3>2. prog[k].kid \in Id /\ prog[k].kid # m
      BY <1>4, <3>1, WhoHolds
    <3> QED
      BY <1>1, <1>12, <3>1, <3>2 DEF Links
  <2> QED
    BY <2>1, <2>2, <2>3 DEF Links
<1> HIDE DEF asks
<1>17. Talk(n, s, prog[n], Q, toSim[n], Bond(n))
  <2>1. CASE asks
    BY <1>2, <1>5, <1>9, <1>10, <2>1, AtHand DEF Talk, Served, Told, InSyscall, InScript, InKernel
  <2>2. CASE ~asks
    BY <1>2, <1>5, <1>9, <2>2, AtHand DEF Talk, Told, InSyscall, InScript, InKernel
  <2> QED
    BY <2>1, <2>2
<1>18. Talk(m, t, prog[m], toProg[m], toSim[m], b)
  <2>1. Forks(<<>>)
    BY DEF Forks
  <2> QED
    BY <1>2, <1>3, <1>5, <1>10, <1>14, <2>1 DEF Talk, Served, InSyscall, InScript, InKernel
<1>19. Talks'
  BY <1>1, <1>2, <1>7, <1>12, <1>13, <1>15, <1>17, <1>18 DEF Talks
<1> QED
  BY <1>11, <1>16, <1>19 DEF IInv

-----------------------------------------------------------------------------
\* Every step keeps IInv.
LEMMA StepKeeps == IInv /\ [Next]_vars => IInv'
<1> SUFFICES ASSUME IInv, [Next]_vars PROVE IInv'
  OBVIOUS
<1>1. ASSUME UNCHANGED vars PROVE IInv'
  BY <1>1 DEF vars, IInv, TypeOK, Links, Talks, Bond
<1>2. ASSUME NEW n \in Id, SimStep(n) PROVE IInv'
  BY <1>2, ReadOutputKeeps, OutputEndsKeeps, HandleMessageKeeps, MessagesEndKeeps,
     ProgramEndsKeeps, CopyKeeps, CopyDoneKeeps, SyscallReturnsKeeps, FailPointKeeps,
     SimExitsKeeps, ChildReapedKeeps, Zenon DEF SimStep
<1>3. ASSUME NEW n \in Id, ProgStep(n) PROVE IInv'
  <2>1. ReadFails(n) => IInv'
    BY ProgDiesKeeps
  <2>2. ASSUME NEW status \in {"ok", "fail"}, ProgExits(n, status) PROVE IInv'
    BY <2>2, ProgDiesKeeps
  <2> QED
    BY <1>3, <2>1, <2>2, ProgPrintsKeeps, SyscallKeeps, ReadReplyKeeps, DoForkKeeps,
       TellKidExitedKeeps, ReportKidKeeps, Zenon DEF ProgStep
<1> QED
  BY <1>1, <1>2, <1>3, Zenon DEF Next, Done

\* IInv holds all the time.
LEMMA IInvAlways == Spec => []IInv
BY InitHolds, StepKeeps, PTL DEF Spec

\* Simulators and programs stay in step, however many there are: nothing is copied behind
\* the back of a running program, both sides never talk at once, and each program is asked
\* for once (send_userspace_message, fake_syscall, do_fork).
THEOREM AlwaysInStep == Spec => []InStep
<1>1. ASSUME IInv PROVE ServedInsideSyscall
  <2>1. ASSUME NEW n \in Id
        PROVE  /\ prog[n].pc = "user" =>
                    toProg[n] = <<>> /\ sim[n].pc \notin {"kernel", "reply"}
               /\ sim[n].pc = "reply" /\ ProgAlive(n) => prog[n].pc # "user"
    BY <1>1, AtHand DEF Talk
  <2> QED
    BY <2>1 DEF ServedInsideSyscall
<1>2. ASSUME IInv PROVE HalfDuplex
  <2>1. ASSUME NEW n \in Id, NEW i \in DOMAIN toSim[n], toSim[n][i].op \in {"syscall", "copied"}
        PROVE  Len(toSim[n]) = 1 /\ toProg[n] = <<>> /\ prog[n].pc = "syscall"
    <3>1. /\ toSim[n] \in Seq(Message) /\ toSim[n] # <<>>
          /\ prog[n].pc \in {"absent", "user", "syscall", "waitpid", "told", "dead"}
          /\ prog[n].status \in {"none", "ok", "fail"}
      BY <1>1, <1>2, AtHand DEF Prog
    <3>2. Len(toSim[n]) = 1 => i = 1
      BY <3>1
    <3> QED
      BY <1>2, <2>1, <3>1, <3>2, AtHand DEF Talk, Served, Told, InSyscall
  <2> QED
    BY <2>1 DEF HalfDuplex
<1>3. ASSUME IInv PROVE ForkOnce
  <2>1. ASSUME NEW n \in Id, NEW m \in Id, NEW i \in DOMAIN toProg[n],
               toProg[n][i] = Msg("fork", m)
        PROVE  /\ parent[m] = n /\ prog[m].pc = "absent"
               /\ Cardinality({j \in DOMAIN toProg[n] : toProg[n][j].id = m
                                                        /\ toProg[n][j].op = "fork"}) = 1
               /\ prog[n].pc # "user"
    <3>1. toProg[n][i].op = "fork" /\ toProg[n][i].id = m
      BY <2>1 DEF Msg
    <3>2. ForkIn(toProg[n], m)
      BY <3>1 DEF ForkIn
    <3>3. {j \in DOMAIN toProg[n] : toProg[n][j].id = m /\ toProg[n][j].op = "fork"} = {i}
      <4>1. AskedOnce(toProg[n])
        BY <1>3 DEF IInv, Links
      <4> QED
        BY <3>1, <4>1 DEF AskedOnce
    <3>4. Cardinality({i}) = 1
      BY FS_Singleton
    <3>5. prog[n].pc # "user"
      <4>1. toProg[n] # <<>>
        OBVIOUS
      <4> QED
        BY <1>3, <4>1, AtHand DEF Talk
    <3> QED
      BY <1>3, <3>2, <3>3, <3>4, <3>5, WhoAsks
  <2> QED
    BY <2>1, Zenon DEF ForkOnce
<1>4. IInv => InStep
  BY <1>1, <1>2, <1>3 DEF InStep, IInv
<1> QED
  BY <1>4, IInvAlways, PTL

\* The status a script is given is the one its program ended with, through forks, faults
\* and crashes (wait_for_output, the exit status do_fork passes on).
THEOREM StatusAlwaysTrue == Spec => []StatusIsTrue
<1>1. ASSUME IInv PROVE StatusIsTrue
  <2>1. ASSUME NEW n \in Id, sim[n].pc = "script", prog[n].pc # "absent"
        PROVE  prog[n].pc = "dead" /\ sim[n].status = prog[n].status
    BY <1>1, <2>1, AtHand DEF Talk, InScript
  <2> QED
    BY <2>1 DEF StatusIsTrue
<1> QED
  BY <1>1, IInvAlways, PTL
=============================================================================
