------------------------------ MODULE Sockopt -------------------------------
(***************************************************************************)
(* The simulator and the programs it runs: core/message.c in the           *)
(* simulator, core/fakesockopt.c preloaded into iptables, tools/iptables.c *)
(* waiting for the end.                                                    *)
(*                                                                         *)
(* A program's getsockopt or setsockopt becomes a message on a socket; the *)
(* kernel code that serves it copies user memory with messages of its own, *)
(* answered by the program while it waits for its system call to return.   *)
(* When failure injection forks the simulator in the middle of a system    *)
(* call, the new simulator asks the program to fork as well: each          *)
(* simulator n > 1 has its own copy n of the program, a socket and an      *)
(* output pipe n of its own.  The simulator that forked waits for its      *)
(* child, and the program that forked waits for its copy, whose exit       *)
(* status it passes to the simulator of that copy.                         *)
(***************************************************************************)
EXTENDS Naturals, Sequences, FiniteSets

CONSTANTS
    MaxSim,     \* bound: simulators, 1 is the one the user started
    MaxCalls,   \* bound: system calls of one program
    MaxCopies,  \* bound: user copies in one system call
    MaxPrints,  \* bound: writes of one program to its output
    PipeCap     \* capacity of an output pipe, in writes

ASSUME SockoptAssumption ==
    /\ MaxSim \in Nat \ {0} /\ PipeCap \in Nat \ {0}
    /\ MaxCalls \in Nat /\ MaxCopies \in Nat /\ MaxPrints \in Nat

Id == 1..MaxSim

VARIABLES
    sim,        \* the simulators, see Sim
    prog,       \* the programs, see Prog
    parent,     \* which simulator (and program) n was forked from, 0 for none
    toProg,     \* messages on their way from simulator n to program n
    toSim,      \* messages on their way from program n to simulator n
    out         \* number of unread writes in output pipe n

vars == <<sim, prog, parent, toProg, toSim, out>>

\* pc: "select" in wait_for_output; "kernel" in nf_{get,set}sockopt; "reply"
\* waiting for the answer to a user copy; "script" the program has ended;
\* "waitpid" a failure-injection child runs; "dead".  then: where to go on
\* after waitpid.  end: how it died, status: what wait_for_output found out.
Sim == [pc : {"absent", "select", "kernel", "reply", "script", "waitpid", "dead"},
        then : {"kernel", "script"}, io_fd : BOOLEAN, msg_fd : BOOLEAN,
        copies : 0..MaxCopies, status : {"none", "ok", "fail"},
        end : {"none", "good", "bad"}]

\* pc: "user" outside of fakesockopt; "syscall" in the loop of fake_syscall;
\* "waitpid" for its copy `kid'; "told": the copy's end has been printed.
Prog == [pc : {"absent", "user", "syscall", "waitpid", "told", "dead"},
         kid : 0..MaxSim, calls : 0..MaxCalls, prints : 0..MaxPrints,
         status : {"none", "ok", "fail"}]

NewSim(pc, then, open, copies) ==
    [pc |-> pc, then |-> then, io_fd |-> open, msg_fd |-> open,
     copies |-> copies, status |-> "none", end |-> "none"]

NewProg(pc, calls, prints) ==
    [pc |-> pc, kid |-> 0, calls |-> calls, prints |-> prints, status |-> "none"]

NoSim == NewSim("absent", "script", FALSE, 0)
NoProg == NewProg("absent", 0, 0)

SimAlive(n) == sim[n].pc \notin {"absent", "dead"}
ProgAlive(n) == prog[n].pc \notin {"absent", "dead"}

Msg(op, n) == [op |-> op, id |-> n]

-----------------------------------------------------------------------------
(* Sockets and pipes. *)

\* The program's ends of socket and pipe n are open: in the program, in the
\* program that forked it and waits for it, or in a fork message not yet read.
ProgEndOpen(n) ==
    \/ ProgAlive(n)
    \/ \E p \in Id : /\ prog[p].pc # "dead"
                     /\ \/ prog[p].kid = n
                        \/ \E i \in DOMAIN toProg[p] : toProg[p][i] = Msg("fork", n)

\* Write to socket n; what is written to a socket nobody reads is lost.
SendToProg(n, m) ==
    toProg' = [toProg EXCEPT ![n] = IF ProgEndOpen(n) THEN Append(@, m) ELSE @]

SendToSim(n, m) ==
    toSim' = [toSim EXCEPT ![n] = IF SimAlive(n) THEN Append(@, m) ELSE @]

-----------------------------------------------------------------------------
(* The simulator. *)

SimSet(n, s) == sim' = [sim EXCEPT ![n] = s]

\* wait_for_output: select says the pipe has output; the caller logs it.
ReadOutput(n) ==
    /\ sim[n].pc = "select" /\ sim[n].io_fd
    /\ out[n] > 0
    /\ out' = [out EXCEPT ![n] = @ - 1]
    /\ UNCHANGED <<sim, prog, parent, toProg, toSim>>

OutputEnds(n) ==
    /\ sim[n].pc = "select" /\ sim[n].io_fd
    /\ out[n] = 0 /\ ~ProgEndOpen(n)
    /\ SimSet(n, [sim[n] EXCEPT !.io_fd = FALSE])
    /\ UNCHANGED <<prog, parent, toProg, toSim, out>>

\* wait_for_output returns with output before it looks at the socket.
MayLookAtSocket(n) ==
    /\ sim[n].pc = "select" /\ sim[n].msg_fd
    /\ sim[n].io_fd => out[n] = 0

\* handle_userspace_message, called by wait_for_output.
HandleMessage(n) ==
    /\ MayLookAtSocket(n)
    /\ toSim[n] # <<>>
    /\ LET m == Head(toSim[n])
       IN  SimSet(n, IF m.op = "syscall"
                     THEN [sim[n] EXCEPT !.pc = "kernel", !.copies = 0]
                     ELSE [sim[n] EXCEPT !.status = m.op])
    /\ toSim' = [toSim EXCEPT ![n] = Tail(@)]
    /\ UNCHANGED <<prog, parent, toProg, out>>

MessagesEnd(n) ==
    /\ MayLookAtSocket(n)
    /\ toSim[n] = <<>> /\ ~ProgEndOpen(n)
    /\ SimSet(n, [sim[n] EXCEPT !.msg_fd = FALSE])
    /\ UNCHANGED <<prog, parent, toProg, toSim, out>>

\* Both descriptors are drained.  A program that is the simulator's own child
\* is waited for; the others have told their status through the socket, or
\* waitpid fails and the command counts as failed.
ProgramEnds(n) ==
    /\ sim[n].pc = "select" /\ ~sim[n].io_fd /\ ~sim[n].msg_fd
    /\ \/ /\ sim[n].status # "none" \/ n # 1
          /\ SimSet(n, [sim[n] EXCEPT !.pc = "script"])
       \/ /\ sim[n].status = "none" /\ n = 1
          /\ prog[n].pc = "dead"
          /\ SimSet(n, [sim[n] EXCEPT !.pc = "script", !.status = prog[n].status])
    /\ UNCHANGED <<prog, parent, toProg, toSim, out>>

\* Mutant: the answer is not waited for.
Copy_NoWait(n) ==
    /\ sim[n].pc = "kernel" /\ sim[n].copies < MaxCopies
    /\ SendToProg(n, Msg("copy", n))
    /\ SimSet(n, [sim[n] EXCEPT !.copies = @ + 1])
    /\ UNCHANGED <<prog, parent, toSim, out>>

\* copy_to_user or copy_from_user, not failed: send the request.
Copy(n) ==
    /\ sim[n].pc = "kernel" /\ sim[n].copies < MaxCopies
    /\ SendToProg(n, Msg("copy", n))
    /\ SimSet(n, [sim[n] EXCEPT !.pc = "reply", !.copies = @ + 1])
    /\ UNCHANGED <<prog, parent, toSim, out>>

\* handle_userspace_message(NULL): the answer, or the end of the socket, which
\* nobody looks at.  An exit status here would be stored through NULL.
CopyDone(n) ==
    /\ sim[n].pc = "reply"
    /\ \/ /\ toSim[n] # <<>>
          /\ SimSet(n, IF Head(toSim[n]).op = "copied"
                       THEN [sim[n] EXCEPT !.pc = "kernel"]
                       ELSE [sim[n] EXCEPT !.pc = "dead", !.end = "bad"])
          /\ toSim' = [toSim EXCEPT ![n] = Tail(@)]
       \/ /\ toSim[n] = <<>> /\ ~ProgEndOpen(n)
          /\ SimSet(n, [sim[n] EXCEPT !.pc = "kernel"])
          /\ UNCHANGED toSim
    /\ UNCHANGED <<prog, parent, toProg, out>>

\* nf_{get,set}sockopt returns; the result is written to the program.
SyscallReturns(n) ==
    /\ sim[n].pc = "kernel"
    /\ SendToProg(n, Msg("result", n))
    /\ SimSet(n, [sim[n] EXCEPT !.pc = "select"])
    /\ UNCHANGED <<prog, parent, toSim, out>>

\* should_i_fail forks (core/failtest.c); the child m takes the failing branch
\* and asks the program, when there is one, to fork too: fork_other_program.
FailPoint(n, m) ==
    /\ sim[n].pc \in {"kernel", "script"}
    /\ sim[m].pc = "absent" /\ \A k \in Id : k < m => sim[k].pc # "absent"
    /\ LET attached == sim[n].pc = "kernel"
       IN  /\ sim' = [sim EXCEPT
                        ![n].pc = "waitpid", ![n].then = sim[n].pc,
                        ![m] = NewSim(sim[n].pc, sim[n].pc, attached, sim[n].copies)]
           /\ IF attached THEN SendToProg(n, Msg("fork", m)) ELSE UNCHANGED toProg
    /\ parent' = [parent EXCEPT ![m] = n]
    /\ UNCHANGED <<prog, toSim, out>>

\* The simulator exits: the script is over or has failed, or the kernel code
\* crashed.
SimExits(n, how) ==
    /\ \/ sim[n].pc = "script"
       \/ sim[n].pc = "kernel" /\ how = "bad"
    /\ SimSet(n, [sim[n] EXCEPT !.pc = "dead", !.end = how])
    /\ UNCHANGED <<prog, parent, toProg, toSim, out>>

\* waitpid in should_i_fail returns: after a child that ended well the parent
\* succeeds where the child failed, otherwise it exits.
ChildReaped(n) ==
    /\ sim[n].pc = "waitpid"
    /\ \A m \in Id : parent[m] = n => sim[m].pc = "dead"
    /\ \E m \in Id :
         /\ parent[m] = n /\ \A k \in Id : parent[k] = n => k <= m
         /\ SimSet(n, IF sim[m].end = "good"
                      THEN [sim[n] EXCEPT !.pc = sim[n].then]
                      ELSE [sim[n] EXCEPT !.pc = "dead", !.end = "bad"])
    /\ UNCHANGED <<prog, parent, toProg, toSim, out>>

-----------------------------------------------------------------------------
(* The program. *)

ProgSet(n, p) == prog' = [prog EXCEPT ![n] = p]

ProgDies(n, status) ==
    ProgSet(n, [prog[n] EXCEPT !.pc = "dead", !.status = status])

ProgPrints(n) ==
    /\ prog[n].pc = "user" /\ prog[n].prints < MaxPrints
    /\ out[n] < PipeCap
    /\ ProgSet(n, [prog[n] EXCEPT !.prints = @ + 1])
    /\ out' = [out EXCEPT ![n] = @ + 1]
    /\ UNCHANGED <<sim, parent, toProg, toSim>>

\* fake_syscall: write the request and wait.
Syscall(n) ==
    /\ prog[n].pc = "user" /\ prog[n].calls < MaxCalls
    /\ SendToSim(n, Msg("syscall", n))
    /\ ProgSet(n, [prog[n] EXCEPT !.pc = "syscall", !.calls = @ + 1])
    /\ UNCHANGED <<sim, parent, toProg, out>>

ProgExits(n, status) ==
    /\ prog[n].pc = "user"
    /\ ProgDies(n, status)
    /\ UNCHANGED <<sim, parent, toProg, toSim, out>>

\* The loop of fake_syscall reads the result, or a user copy to serve: memcpy
\* with the addresses the kernel code was given, which may be bad ones.
ReadReply(n) ==
    /\ prog[n].pc = "syscall" /\ toProg[n] # <<>>
    /\ LET m == Head(toProg[n])
       IN  \/ /\ m.op = "result"
              /\ ProgSet(n, [prog[n] EXCEPT !.pc = "user"])
              /\ UNCHANGED toSim
           \/ /\ m.op = "copy"
              /\ SendToSim(n, Msg("copied", n))
              /\ UNCHANGED prog
           \/ /\ m.op = "copy"
              /\ ProgDies(n, "fail")
              /\ UNCHANGED toSim
    /\ toProg' = [toProg EXCEPT ![n] = Tail(@)]
    /\ UNCHANGED <<sim, parent, out>>

\* do_fork: the copy m talks to simulator m from now on, inside the same
\* system call; the original waits for it.
DoFork(n) ==
    /\ prog[n].pc = "syscall" /\ toProg[n] # <<>>
    /\ Head(toProg[n]).op = "fork"
    /\ LET m == Head(toProg[n]).id
       IN  prog' = [prog EXCEPT ![n].pc = "waitpid", ![n].kid = m,
                                ![m] = NewProg("syscall", prog[n].calls, prog[n].prints)]
    /\ toProg' = [toProg EXCEPT ![n] = Tail(@)]
    /\ UNCHANGED <<sim, parent, toSim, out>>

\* The copy has ended: say so on the standard error, which is pipe n ...
TellKidExited(n) ==
    /\ prog[n].pc = "waitpid" /\ prog[prog[n].kid].pc = "dead"
    /\ \/ /\ SimAlive(n)
          /\ out[n] < PipeCap
          /\ out' = [out EXCEPT ![n] = @ + 1]
       \/ ~SimAlive(n) /\ UNCHANGED out
    /\ ProgSet(n, [prog[n] EXCEPT !.pc = "told"])
    /\ UNCHANGED <<sim, parent, toProg, toSim>>

\* Mutants: the status goes to the own simulator; it is always 0.
ReportKid_OwnSim(n) ==
    /\ prog[n].pc = "told"
    /\ SendToSim(n, Msg(prog[prog[n].kid].status, prog[n].kid))
    /\ ProgSet(n, [prog[n] EXCEPT !.pc = "syscall", !.kid = 0])
    /\ UNCHANGED <<sim, parent, toProg, out>>

ReportKid_Zero(n) ==
    /\ prog[n].pc = "told"
    /\ SendToSim(prog[n].kid, Msg("ok", prog[n].kid))
    /\ ProgSet(n, [prog[n] EXCEPT !.pc = "syscall", !.kid = 0])
    /\ UNCHANGED <<sim, parent, toProg, out>>

\* ... send its exit status to its simulator, close socket and pipe, and go on
\* reading the messages of the own simulator.
ReportKid(n) ==
    /\ prog[n].pc = "told"
    /\ SendToSim(prog[n].kid, Msg(prog[prog[n].kid].status, prog[n].kid))
    /\ ProgSet(n, [prog[n] EXCEPT !.pc = "syscall", !.kid = 0])
    /\ UNCHANGED <<sim, parent, toProg, out>>

\* Mutant: the end of the socket is read again and again.
ReadFails_Retry(n) ==
    /\ prog[n].pc = "syscall"
    /\ toProg[n] = <<>> /\ ~SimAlive(n)
    /\ UNCHANGED vars

\* The simulator is gone in the middle of the system call.
ReadFails(n) ==
    /\ prog[n].pc = "syscall"
    /\ toProg[n] = <<>> /\ ~SimAlive(n)
    /\ ProgDies(n, "fail")
    /\ UNCHANGED <<sim, parent, toProg, toSim, out>>

-----------------------------------------------------------------------------
\* The first simulator has just run start_program.
Init ==
    /\ sim = [n \in Id |-> IF n = 1 THEN NewSim("select", "script", TRUE, 0) ELSE NoSim]
    /\ prog = [n \in Id |-> IF n = 1 THEN NewProg("user", 0, 0) ELSE NoProg]
    /\ parent = [n \in Id |-> 0]
    /\ toProg = [n \in Id |-> <<>>] /\ toSim = [n \in Id |-> <<>>]
    /\ out = [n \in Id |-> 0]

SimStep(n) ==
    \/ ReadOutput(n) \/ OutputEnds(n) \/ HandleMessage(n) \/ MessagesEnd(n)
    \/ ProgramEnds(n) \/ Copy(n) \/ CopyDone(n) \/ SyscallReturns(n)
    \/ \E m \in Id : FailPoint(n, m)
    \/ \E how \in {"good", "bad"} : SimExits(n, how)
    \/ ChildReaped(n)

ProgStep(n) ==
    \/ ProgPrints(n) \/ Syscall(n) \/ \E s \in {"ok", "fail"} : ProgExits(n, s)
    \/ ReadReply(n) \/ DoFork(n) \/ TellKidExited(n) \/ ReportKid(n) \/ ReadFails(n)

\* Everybody has exited.
AllDead == \A n \in Id : ~SimAlive(n) /\ ~ProgAlive(n)
Done == AllDead /\ UNCHANGED vars

Next == (\E n \in Id : SimStep(n) \/ ProgStep(n)) \/ Done

Spec == Init /\ [][Next]_vars

\* Simulators and programs are processes: each runs on while it can.
FairSpec == Spec /\ \A n \in Id : WF_vars(SimStep(n)) /\ WF_vars(ProgStep(n))

-----------------------------------------------------------------------------
(* Properties. *)

Message == [op : {"copy", "result", "fork", "syscall", "copied", "ok", "fail"}, id : Id]

TypeOK ==
    /\ sim \in [Id -> Sim]
    /\ prog \in [Id -> Prog]
    /\ parent \in [Id -> 0..MaxSim]
    /\ toProg \in [Id -> Seq(Message)] /\ toSim \in [Id -> Seq(Message)]
    /\ out \in [Id -> 0..PipeCap]

\* A program is only ever spoken to while it is inside a system call, and is
\* back in its own code only when its simulator has finished serving it: user
\* memory is never copied behind the back of a running program.
ServedInsideSyscall ==
    \A n \in Id :
        /\ prog[n].pc = "user" =>
             toProg[n] = <<>> /\ sim[n].pc \notin {"kernel", "reply"}
        /\ sim[n].pc = "reply" /\ ProgAlive(n) => prog[n].pc # "user"

\* Simulator and program never talk at the same time: whenever one of them has
\* something to say the other is waiting for it.
HalfDuplex ==
    \A n \in Id : \A i \in DOMAIN toSim[n] :
        toSim[n][i].op \in {"syscall", "copied"} =>
            Len(toSim[n]) = 1 /\ toProg[n] = <<>> /\ prog[n].pc = "syscall"

\* The fork request reaches a program that is inside the system call its
\* simulator was serving, before anything that simulator has to say later, and
\* a program is never asked to fork twice for one simulator.
ForkOnce ==
    \A n, m \in Id :
        (\E i \in DOMAIN toProg[n] : toProg[n][i] = Msg("fork", m)) =>
            /\ parent[m] = n /\ prog[m].pc = "absent"
            /\ Cardinality({i \in DOMAIN toProg[n] : toProg[n][i].id = m
                                                     /\ toProg[n][i].op = "fork"}) = 1
            /\ prog[n].pc # "user"

\* The protocol stays in step: a program is spoken to only inside of a system call
\* of its own, both sides never talk at once, and every fork is asked for once, in
\* front of what the simulator has to say later - through every order of copies,
\* forks, faults and exits (handle_userspace_message, handle_kernelop).
InStep == TypeOK /\ ServedInsideSyscall /\ HalfDuplex /\ ForkOnce

\* "expect a reply" (send_userspace_message): the exit status never arrives
\* where handle_userspace_message was given no place to store it.  TLC refutes it:
\* a forked program that faults while it serves a copy sends it there.
NoStatusInsideCopy ==
    \A n \in Id : sim[n].pc = "reply" =>
        \A i \in DOMAIN toSim[n] : toSim[n][i].op \notin {"ok", "fail"}

\* What run_command returns is how the program ended: no simulator takes its
\* program for failed, or for successful, when it was not.
StatusIsTrue ==
    \A n \in Id : sim[n].pc = "script" /\ sim[n].io_fd = FALSE /\ prog[n].pc # "absent"
        => prog[n].pc = "dead" /\ sim[n].status = prog[n].status

\* Everything comes to an end, the programs of crashed simulators included.
EverybodyExits == <>AllDead
=============================================================================
