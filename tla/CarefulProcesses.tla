-------------------------- MODULE CarefulProcesses --------------------------
(***************************************************************************)
(* Lines typed with care: what must be avoided, for the prompt to come     *)
(* back with its descriptors right, for a pipe to carry what is put into   *)
(* it, and for the processes not to undo each other's changes of the disk? *)
(* TwoPipesReturn, of the specification without such care, is what the     *)
(* comments promise and the code does not do.                              *)
(***************************************************************************)
EXTENDS Processes, Functions

Changes(c) == c.kind = "change"
Changing(l) == \E j \in DOMAIN l.cmds : Changes(l.cmds[j])

\* With two pipes the shell keeps their ends, so the second command would
\* wait for ever for the end of its input.
ReadsToEnd(c) == c.kind = "filter"
NoSecondReader(l) == l.form = "pipes" => ~ReadsToEnd(l.cmds[2])

\* A pipe is read only when the command that fills it has ended.
FitsInPipe(l) ==
    /\ l.form \in {"pipe", "pipes"} => l.cmds[1].out <= PipeCapacity
    /\ l.form = "pipes" => l.cmds[2].out <= PipeCapacity

\* stdout stays redirected when the command is not found.
KnownRedirected(l) == l.form = "redirect" => l.cmds[1].kind # "unknown"

\* Nothing locks the disk image: one process at a time may change it.
NoOtherChange(l) == Changing(l) => \A q \in Children : task[q].kind # "change"

Careful(l) == NoSecondReader(l) /\ FitsInPipe(l) /\ KnownRedirected(l) /\ NoOtherChange(l)

CarefulNext ==
    \/ \E l \in Line : Careful(l) /\ Typed(l)
    \/ ShellStep
    \/ \E q \in Processes \ {"shell"} : ChildStep(q)

CarefulSpec == Init /\ [][CarefulNext]_vars /\ Fairness
-----------------------------------------------------------------------------
(* The processes' state is well typed. *)
TypeOK ==
    /\ pc \in [Processes -> {"none", "prompt", "parsed", "running", "waiting", "waiting2"}]
    /\ \A p \in Processes :
         /\ task[p].kind \in Kinds \cup {"none"} /\ task[p].left \in 0 .. MaxOut
         /\ task[p].buf \subseteq Bits /\ task[p].bit \in 0 .. NBits + 1
         /\ DOMAIN fds[p] = Fds
         /\ Range(fds[p]) \subseteq {Closed, Terminal, File}
                                      \cup {ReadEnd(k) : k \in Pipes} \cup {WriteEnd(k) : k \in Pipes}
    /\ \A k \in Pipes : Len(pipe[k]) <= PipeCapacity
    /\ offset \in 0 .. Len(file)
    /\ free \subseteq Bits /\ table \subseteq Bits

AtPrompt == pc["shell"] = "prompt"

(* The prompt comes back: every line is carried out to its end, whatever   *)
(* children run beside it; the shell never waits for a child that waits    *)
(* for it, nor for an end of input that only it could bring about.         *)
PromptReturns == (pc["shell"] # "prompt") ~> AtPrompt

(* At the prompt the shell reads from the terminal and writes to it, holds *)
(* no redirection file, and no end of the pipe of the line just carried    *)
(* out; two pipes are the exception, of which it keeps all ends.           *)
DescriptorsRestored ==
    AtPrompt =>
        /\ \A n \in 0 .. 2 : fds["shell"][n] = Terminal
        /\ \A n \in Fds : fds["shell"][n] # File
        /\ line.form = "pipe" => ~HasEnd(fds["shell"], held.pipe)

(* A filter behind a pipe has read, at the next prompt, every line the     *)
(* first command printed, in their order, and nothing else.                *)
PipeDelivers ==
    (AtPrompt /\ line.form = "pipe" /\ line.cmds[2].kind = "filter") =>
        got = [j \in 1 .. line.cmds[1].out |-> j]

(* What a redirected command printed is the beginning of the file, and it  *)
(* is all that was written to it.                                          *)
RedirectionDelivers ==
    (AtPrompt /\ line.form = "redirect") =>
        /\ offset = line.cmds[1].out
        /\ \A j \in 1 .. offset : file[j] = j

(* Every i-node is handed out to one command only, its bit is clear from   *)
(* then on, and once no command is under way all that was written into the *)
(* block the i-nodes share is there.                                       *)
ChangesKept ==
    /\ \A x \in Bits : handed[x] = (IF x \in free THEN 0 ELSE 1)
    /\ (\A p \in Processes : task[p].kind # "change") => table = Bits \ free
-----------------------------------------------------------------------------
(* ReadMe.txt:46: "Piping is implemented successfully for up to three      *)
(* commands using two pipes".  A filter as the second command never ends.  *)
TwoPipesReturn == Is("pipes") ~> AtPrompt
=============================================================================
