------------------------------ MODULE Processes ------------------------------
(***************************************************************************)
(* The main loop of the shell and the processes it forks for pipes, the    *)
(* redirection of output, and "&" (shell.cpp 809-1117), with their file    *)
(* descriptors, the pipes of the host, and the accesses of their commands  *)
(* to the one disk image they share without a lock.                        *)
(*                                                                         *)
(* A process that calls system() waits for it, so the program it runs and  *)
(* the process are one here.  What a process does to its own descriptors   *)
(* alone is done in one step with the fork or the read next to it.  Output *)
(* is line buffered, as stdout of a shell on a terminal is.                *)
(***************************************************************************)
EXTENDS Naturals, Sequences, FiniteSets, FiniteSetsExt

CONSTANTS
    Kids,           \* the children that "&" may have running at a time
    NFds,           \* descriptors of a process
    PipeCapacity,   \* lines of output a pipe holds
    MaxOut,         \* bound: lines of output a command prints
    NBits,          \* bits of the free-bit vector the commands take from
    Line            \* the lines that may be typed

ASSUME ProcessesAssumption ==
    /\ "shell" \notin Kids /\ "child" \notin Kids
    /\ NFds \in Nat /\ 5 <= NFds /\ PipeCapacity \in Nat \ {0}
    /\ MaxOut \in Nat \ {0} /\ NBits \in Nat

VARIABLES
    pc,       \* where a process is: the shell in its main loop, a child in its command
    task,     \* the command a process runs, and how far it is
    fds,      \* what the descriptors of a process stand for
    held,     \* the shell's variables fd, saved_stdin, saved_stdout and file
    line,     \* the line typed last
    pipe,     \* what the pipes hold
    file,     \* the lines of the file that output is redirected to
    offset,   \* where its open file description writes next
    free,     \* fbvInodes on the disk, as the set of its 1 bits
    table,    \* the i-nodes on the disk block they share that have been filled in
    handed,   \* history: how often each bit was handed out
    got       \* history: what the filter of the last line read

vars == <<pc, task, fds, held, line, pipe, file, offset, free, table, handed, got>>
disk == <<free, table, handed>>
output == <<pipe, file, offset>>
-----------------------------------------------------------------------------
Processes == {"shell", "child"} \cup Kids
Fds == 0 .. NFds - 1
NoFd == NFds
Pipes == 1 .. NFds \div 2
Bits == 1 .. NBits

(* What a descriptor stands for. *)
Closed == <<"closed", 0>>
Terminal == <<"terminal", 0>>
File == <<"file", 0>>
ReadEnd(k) == <<"read", k>>
WriteEnd(k) == <<"write", k>>

(* The system calls on a table of descriptors t.  They succeed: the model  *)
(* types no line that could use the descriptors up (Needed).               *)
Lowest(t) == Min({n \in Fds : t[n] = Closed})
Given(t, e) == [t EXCEPT ![Lowest(t)] = e]
Dup(t, n) == Given(t, t[n])
Dup2(t, n, m) == [t EXCEPT ![m] = t[n]]
Close(t, n) == [t EXCEPT ![n] = Closed]
CloseBoth(t, fd) == [t EXCEPT ![fd[1]] = Closed, ![fd[2]] = Closed]
PipeMade(t, k) == Given(Given(t, ReadEnd(k)), WriteEnd(k))
Ended == [n \in Fds |-> Closed]

(* A command prints "out" lines, or passes on what it reads; one that      *)
(* changes the disk also takes a bit of fbvInodes and fills in the i-node. *)
Kinds == {"list", "change", "filter", "unknown"}
Command == [kind : Kinds, out : 0 .. MaxOut]
Forms == {"plain", "redirect", "background", "pipe", "pipes"}
CommandsOf(form) == CASE form = "pipe" -> 2 [] form = "pipes" -> 3 [] OTHER -> 1

ASSUME LineAssumption ==
    \A l \in Line : /\ l.form \in Forms /\ l.cmds \in Seq(Command)
                    /\ Len(l.cmds) = CommandsOf(l.form)

NoLine == [form |-> "none", cmds |-> <<>>]

(* Where the command c starts, in the process that runs it: getFreeBit     *)
(* begins at bit 1.                                                        *)
Begun(c) == [kind |-> c.kind, left |-> c.out, said |-> 0, bit |-> 1, buf |-> {},
             step |-> IF c.kind = "change" THEN "getBit" ELSE "print"]
Idle == [kind |-> "none", left |-> 0, said |-> 0, bit |-> 0, buf |-> {}, step |-> "done"]

NothingHeld == [pipe |-> 0, fd |-> <<NoFd, NoFd>>, fd2 |-> <<NoFd, NoFd>>,
                saved_stdin |-> NoFd, saved_stdout |-> NoFd, file |-> NoFd]

Init ==
    /\ pc = [p \in Processes |-> IF p = "shell" THEN "prompt" ELSE "none"]
    /\ task = [p \in Processes |-> Idle]
    /\ fds = [p \in Processes |->
                [n \in Fds |-> IF p = "shell" /\ n <= 2 THEN Terminal ELSE Closed]]
    /\ held = NothingHeld /\ line = NoLine
    /\ pipe = [k \in Pipes |-> <<>>]
    /\ file = <<>> /\ offset = 0
    /\ free = Bits /\ table = {} /\ handed = [x \in Bits |-> 0]
    /\ got = <<>>

Children == {p \in Processes \ {"shell"} : pc[p] # "none"}
-----------------------------------------------------------------------------
(* The shell reads a line; the model types none that could use up the      *)
(* descriptors, or that needs one more child for "&" than Kids.            *)
Needed(l) == CASE l.form = "pipe" -> 3
               [] l.form = "pipes" -> 6
               [] l.form = "redirect" -> 3
               [] OTHER -> 1

Typed(l) ==
    /\ pc["shell"] = "prompt"
    /\ Cardinality({n \in Fds : fds["shell"][n] = Closed}) >= Needed(l)
    /\ l.form = "background" => Kids \ Children # {}
    /\ line' = l /\ got' = <<>> /\ held' = NothingHeld
    /\ pc' = [pc EXCEPT !["shell"] = "parsed"]
    /\ UNCHANGED <<task, fds, disk>> /\ UNCHANGED output

Is(form) == pc["shell"] = "parsed" /\ line.form = form

\* The shell itself runs the command c, with its descriptors t.
ShellRuns(c, t) ==
    /\ pc' = [pc EXCEPT !["shell"] = "running"]
    /\ task' = [task EXCEPT !["shell"] = Begun(c)]
    /\ fds' = [fds EXCEPT !["shell"] = t]

\* fork(): process q runs c with the descriptors t; the shell has s and goes to "next".
Forks(q, c, t, s, next) ==
    /\ pc' = [pc EXCEPT ![q] = "running", !["shell"] = next]
    /\ task' = [task EXCEPT ![q] = Begun(c)]
    /\ fds' = [fds EXCEPT ![q] = t, !["shell"] = s]
    /\ UNCHANGED <<line, file, offset, disk, got>>

(* main, on a line without |, > and & *)
Plain ==
    /\ Is("plain")
    /\ ShellRuns(line.cmds[1], fds["shell"])
    /\ UNCHANGED <<held, line, disk, got>> /\ UNCHANGED output

(* redirectionFunction: the file is opened without being emptied, stdout   *)
(* is kept in a new descriptor and becomes the file.  A mistake to guard   *)
(* against: the arguments of dup2() the other way round.                   *)
RedirectedBackwards(t) == Dup2(Dup(Given(t, File), 1), 1, Lowest(t))
Redirected(t) == Dup2(Dup(Given(t, File), 1), Lowest(t), 1)
Redirect ==
    LET t == fds["shell"]
    IN  /\ Is("redirect")
        /\ ShellRuns(line.cmds[1], Redirected(t))
        /\ held' = [held EXCEPT !.file = Lowest(t), !.saved_stdout = Lowest(Given(t, File))]
        /\ offset' = 0
        /\ UNCHANGED <<line, pipe, file, disk, got>>

(* backgroundFunction: the shell goes straight back to its prompt. *)
Background ==
    /\ Is("background")
    /\ \E q \in Kids \ Children : Forks(q, line.cmds[1], fds["shell"], fds["shell"], "prompt")
    /\ UNCHANGED <<held, pipe>>
-----------------------------------------------------------------------------
(* pipingFunction *)
Ends(t) == <<Lowest(t), Lowest(Given(t, Terminal))>>

\* A pipe is there as long as some process has a descriptor for an end of it.
HasEnd(t, k) == \E n \in Fds : t[n] \in {ReadEnd(k), WriteEnd(k)}
NewPipe(t) == Min({k \in Pipes : ~HasEnd(t, k)})

\* The first child: stdout is the pipe; it closes the read end, and the write
\* end only by exiting.
Writer(t, fd) == Close(Dup2(Dup(t, 1), fd[2], 1), fd[1])

\* The shell, once there is no child left: stdin is the pipe.  Mistakes to
\* guard against: the write end left open, stdin left as it is.
ReaderKeepingWrite(t, fd) == Close(Dup2(Dup(t, 0), fd[1], 0), fd[1])
ReaderOfTerminal(t, fd) == CloseBoth(Dup(t, 0), fd)
Reader(t, fd) == CloseBoth(Dup2(Dup(t, 0), fd[1], 0), fd)

Pipe ==
    LET fd == Ends(fds["shell"])
        k == NewPipe(fds["shell"])
    IN  /\ Is("pipe")
        /\ \E t \in {PipeMade(fds["shell"], k)} :
             Forks("child", line.cmds[1], Writer(t, fd), t, "waiting")
        /\ held' = [held EXCEPT !.fd = fd, !.pipe = k]
        /\ UNCHANGED pipe

\* wait(&status) until it fails: no child is left, of "&" neither.  A mistake
\* to guard against: no wait.
WaitedNot == TRUE
Waited == Children = {}

PipeReader ==
    LET t == fds["shell"]
    IN  /\ pc["shell"] = "waiting" /\ line.form = "pipe" /\ Waited
        /\ ShellRuns(line.cmds[2], Reader(t, held.fd))
        /\ held' = [held EXCEPT !.saved_stdin = Lowest(t)]
        /\ UNCHANGED <<line, disk, got>> /\ UNCHANGED output

(* Two pipes: both are made at once, and the shell closes no end of them.  *)
FirstOfThree(t, fd, fd2) == CloseBoth(Writer(t, fd), fd2)
SecondOfThree(t, fd, fd2) ==
    CloseBoth(Dup2(Dup2(Dup(Dup(t, 1), 0), fd2[2], 1), fd[1], 0), <<fd[2], fd2[1]>>)

TwoPipes ==
    /\ Is("pipes")
    /\ \E one \in {PipeMade(fds["shell"], NewPipe(fds["shell"]))} :
       \E t \in {PipeMade(one, NewPipe(one))} :
         LET fd == Ends(fds["shell"])
             fd2 == Ends(one)
         IN  /\ Forks("child", line.cmds[1], FirstOfThree(t, fd, fd2), t, "waiting")
             /\ held' = [held EXCEPT !.fd = fd, !.fd2 = fd2]
    /\ UNCHANGED pipe

SecondChild ==
    LET t == fds["shell"]
    IN  /\ pc["shell"] = "waiting" /\ line.form = "pipes" /\ Waited
        /\ Forks("child", line.cmds[2], SecondOfThree(t, held.fd, held.fd2), t, "waiting2")
        /\ UNCHANGED <<held, pipe>>

ThirdCommand ==
    /\ pc["shell"] = "waiting2" /\ Waited
    /\ ShellRuns(line.cmds[3], fds["shell"])
    /\ UNCHANGED <<held, line, disk, got>> /\ UNCHANGED output
-----------------------------------------------------------------------------
(* The steps of a command, in the process p that runs it. *)
Running(p, step) == pc[p] = "running" /\ task[p].step = step

\* write(1, c): a full pipe blocks it.  The shell has the read end of every
\* pipe, so nobody dies of SIGPIPE.
Written(c) == IF offset < Len(file) THEN [file EXCEPT ![offset + 1] = c] ELSE Append(file, c)
Put(p, c, pp) ==
    LET out == fds[p][1]
    IN  \/ out = Terminal /\ pipe' = pp /\ UNCHANGED <<file, offset>>
        \/ out = File /\ file' = Written(c) /\ offset' = offset + 1 /\ pipe' = pp
        \/ \E k \in Pipes :
             /\ out = WriteEnd(k) /\ Len(pp[k]) < PipeCapacity
             /\ pipe' = [pp EXCEPT ![k] = Append(@, c)]
             /\ UNCHANGED <<file, offset>>

Say(p) ==
    /\ Running(p, "print") /\ task[p].left > 0
    /\ Put(p, task[p].said + 1, pipe)
    /\ task' = [task EXCEPT ![p].left = @ - 1, ![p].said = @ + 1]
    /\ UNCHANGED <<pc, fds, held, line, disk, got>>

(* A filter passes on a line of its stdin ... *)
Pass(p) ==
    /\ Running(p, "print") /\ task[p].kind = "filter"
    /\ \E k \in Pipes :
         /\ fds[p][0] = ReadEnd(k) /\ pipe[k] # <<>>
         /\ Put(p, Head(pipe[k]), [pipe EXCEPT ![k] = Tail(@)])
         /\ got' = Append(got, Head(pipe[k]))
    /\ UNCHANGED <<pc, task, fds, held, line, disk>>

\* ... until its end: an empty pipe no process can write to; a terminal's end
\* is typed at once.
AtEnd(p) ==
    \/ fds[p][0] = Terminal
    \/ \E k \in Pipes : /\ fds[p][0] = ReadEnd(k) /\ pipe[k] = <<>>
                        /\ \A q \in Processes, n \in Fds : fds[q][n] # WriteEnd(k)

Finish(p) ==
    /\ Running(p, "print") /\ task[p].left = 0
    /\ task[p].kind = "filter" => AtEnd(p)
    /\ task' = [task EXCEPT ![p] = Idle]
    /\ UNCHANGED <<pc, fds, held, line, disk, got>> /\ UNCHANGED output

\* BitVector::getFreeBit: getBit(bit) reads the vector for each bit in turn.  A
\* mistake to guard against: one bit more than there are.
InVectorAndOne(x) == x \in Bits \cup {NBits + 1}
InVector(x) == x \in Bits
GetBit(p) ==
    LET x == task[p].bit
    IN  /\ Running(p, "getBit")
        /\ \/ x \in free /\ task' = [task EXCEPT ![p].step = "setBit"]
           \/ InVector(x) /\ x \notin free /\ task' = [task EXCEPT ![p].bit = @ + 1]
           \/ ~InVector(x) /\ task' = [task EXCEPT ![p].step = "print"]
        /\ UNCHANGED <<pc, fds, held, line, disk, got>> /\ UNCHANGED output

\* BitVector::setBit(bit, 0) reads the vector once more ...
ReadVector(p) ==
    /\ Running(p, "setBit")
    /\ task' = [task EXCEPT ![p].buf = free, ![p].step = "writeVector"]
    /\ UNCHANGED <<pc, fds, held, line, disk, got>> /\ UNCHANGED output

\* ... and writes it back.
WriteVector(p) ==
    LET x == task[p].bit
    IN  /\ Running(p, "writeVector")
        /\ free' = task[p].buf \ {x}
        /\ handed' = [handed EXCEPT ![x] = @ + 1]
        /\ task' = [task EXCEPT ![p].buf = {}, ![p].step = "getInode"]
        /\ UNCHANGED <<pc, fds, held, line, table, got>> /\ UNCHANGED output

(* Inodes::setEntry: getInode reads the block of the i-node, putInode      *)
(* writes all of it.                                                       *)
GetInode(p) ==
    /\ Running(p, "getInode")
    /\ task' = [task EXCEPT ![p].buf = table, ![p].step = "putInode"]
    /\ UNCHANGED <<pc, fds, held, line, disk, got>> /\ UNCHANGED output

PutInode(p) ==
    /\ Running(p, "putInode")
    /\ table' = task[p].buf \cup {task[p].bit}
    /\ task' = [task EXCEPT ![p].buf = {}, ![p].step = "print"]
    /\ UNCHANGED <<pc, fds, held, line, free, handed, got>> /\ UNCHANGED output

CommandStep(p) ==
    Say(p) \/ Pass(p) \/ Finish(p)
      \/ GetBit(p) \/ ReadVector(p) \/ WriteVector(p) \/ GetInode(p) \/ PutInode(p)

(* A child that has run its command exits ... *)
Exit(p) ==
    /\ p # "shell" /\ Running(p, "done")
    /\ pc' = [pc EXCEPT ![p] = "none"]
    /\ fds' = [fds EXCEPT ![p] = Ended]
    /\ UNCHANGED <<task, held, line, disk, got>> /\ UNCHANGED output

(* ... and the shell goes back to its prompt, with its descriptors put     *)
(* right: after one pipe stdin, after redirection stdout, but only if the  *)
(* command was found.  Mistakes to guard against: neither is.              *)
RestoredNot(t) == t
Restored(t) ==
    CASE line.form = "pipe" -> Dup2(t, held.saved_stdin, 0)
      [] line.form = "redirect" /\ line.cmds[1].kind # "unknown" ->
            Close(Dup2(t, held.saved_stdout, 1), held.file)
      [] OTHER -> t

Return ==
    /\ Running("shell", "done")
    /\ pc' = [pc EXCEPT !["shell"] = "prompt"]
    /\ \E t \in {Restored(fds["shell"])} :
         /\ fds' = [fds EXCEPT !["shell"] = t]
         /\ pipe' = [k \in Pipes |-> IF HasEnd(t, k) THEN pipe[k] ELSE <<>>]
    /\ held' = [NothingHeld EXCEPT !.pipe = held.pipe]
    /\ UNCHANGED <<task, line, file, offset, disk, got>>
-----------------------------------------------------------------------------
ShellStep ==
    Plain \/ Redirect \/ Background \/ Pipe \/ PipeReader
      \/ TwoPipes \/ SecondChild \/ ThirdCommand \/ Return \/ CommandStep("shell")
ChildStep(q) == CommandStep(q) \/ Exit(q)

Next ==
    \/ \E l \in Line : Typed(l)
    \/ ShellStep
    \/ \E q \in Processes \ {"shell"} : ChildStep(q)

(* The host runs every process that can run; nobody need type a line. *)
Fairness ==
    /\ WF_vars(ShellStep)
    /\ \A q \in Processes \ {"shell"} : WF_vars(ChildStep(q))

Spec == Init /\ [][Next]_vars
FairSpec == Spec /\ Fairness
=============================================================================
