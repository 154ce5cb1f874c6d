--------------------------- MODULE ProcessesProofs ---------------------------
(***************************************************************************)
(* ChangesKept of CarefulProcesses, for any number of children, bits,      *)
(* descriptors and lines: as long as no line that changes the disk is      *)
(* typed while a child still changes it, no i-node is handed out twice and *)
(* no change of the i-nodes is undone, though nothing is locked.           *)
(*                                                                         *)
(* ChangesKept speaks of what is on the disk.  It is inductive together    *)
(* with who may be running (Scheduled), that one process changes the disk  *)
(* at a time (OneChange), that none does when a line that will is about to *)
(* be carried out (NoneBefore), and that what this process has read is     *)
(* still what is there (Current).                                          *)
(***************************************************************************)
EXTENDS CarefulProcesses, TLAPS

IsChanging(p) == task[p].kind = "change"
Steps == {"getBit", "setBit", "writeVector", "getInode", "putInode"}
Pending(p) == task[p].step \in {"getInode", "putInode"}

Task == [kind : Kinds \cup {"none"}, left : Nat, said : Nat, bit : Nat, buf : SUBSET Bits,
         step : Steps \cup {"print", "done"}]

(* What processes run, and what is on the disk, is well typed. *)
DataTyped ==
    /\ task \in [Processes -> Task]
    /\ free \subseteq Bits /\ table \subseteq Bits
    /\ handed \in [Bits -> Nat]

(* Only a running process has a command, until it is done; the child of a  *)
(* pipe is there only while the shell waits for it; the line typed is one  *)
(* of Line.                                                                *)
Scheduled ==
    /\ pc \in [Processes -> {"none", "prompt", "parsed", "running", "waiting", "waiting2"}]
    /\ pc["shell"] # "none"
    /\ \A p \in Processes : pc[p] # "running" \/ task[p].step = "done" => task[p] = Idle
    /\ pc["child"] # "none" => pc["shell"] \in {"waiting", "waiting2"}
    /\ pc["shell"] \in {"parsed", "waiting", "waiting2"} => line \in Line
    /\ pc["shell"] = "waiting2" => line.form = "pipes"

(* One process changes the disk at a time ... *)
OneChange == \A p, q \in Processes : IsChanging(p) /\ IsChanging(q) => p = q

(* ... and none does when a line that will is about to be carried out. *)
NoneBefore == pc["shell"] = "parsed" /\ Changing(line) => \A q \in Processes : ~IsChanging(q)

(* What a process has read of the disk is still so when it writes it back. *)
BitCurrent(p) ==
    /\ task[p].step \in Steps => IsChanging(p)
    /\ task[p].step \in {"setBit", "writeVector"} => task[p].bit \in free
    /\ task[p].step = "writeVector" => task[p].buf = free
InodeCurrent(p) ==
    /\ Pending(p) => task[p].bit \in Bits \ free /\ table = (Bits \ free) \ {task[p].bit}
    /\ task[p].step = "putInode" => task[p].buf = table
Current == \A p \in Processes : BitCurrent(p) /\ InodeCurrent(p)

OnceHanded == \A x \in Bits : handed[x] = (IF x \in free THEN 0 ELSE 1)
TableKept == (\A p \in Processes : ~Pending(p)) => table = Bits \ free

DiskKept == DataTyped /\ OneChange /\ Current /\ OnceHanded /\ TableKept
IInv == Scheduled /\ NoneBefore /\ DiskKept
-----------------------------------------------------------------------------
(* The lines of Line have as many commands as their form asks for. *)
LEMMA LineCommands ==
    ASSUME NEW l \in Line
    PROVE  /\ l.cmds[1] \in Command /\ 1 \in DOMAIN l.cmds
           /\ l.form = "pipe" => l.cmds[2] \in Command
           /\ l.form = "pipes" => l.cmds[2] \in Command /\ l.cmds[3] \in Command
<1>1. l.form \in Forms /\ l.cmds \in Seq(Command) /\ Len(l.cmds) = CommandsOf(l.form)
  BY LineAssumption
<1>2. Len(l.cmds) >= 1
  BY <1>1 DEF CommandsOf, Forms
<1>3. l.form = "pipe" => Len(l.cmds) = 2
  BY <1>1 DEF CommandsOf
<1>4. l.form = "pipes" => Len(l.cmds) = 3
  BY <1>1 DEF CommandsOf
<1> QED
  BY <1>1, <1>2, <1>3, <1>4

(* A command begins at bit 1 of the vector, or with its output. *)
LEMMA BegunTyped ==
    ASSUME NEW c \in Command
    PROVE  /\ Begun(c) \in Task
           /\ Begun(c).kind = c.kind
           /\ Begun(c).step \in {"getBit", "print"}
           /\ Begun(c).step = "getBit" => c.kind = "change"
  BY ProcessesAssumption DEF Begun, Command, Task, Kinds, Steps

LEMMA IdleTyped == Idle \in Task /\ Idle.kind = "none" /\ Idle.step = "done"
  BY DEF Idle, Task, Steps

(* A process that was idle begins a command; if this changes the disk no   *)
(* other process does.                                                     *)
LEMMA BeginningKeeps ==
    ASSUME DiskKept, NEW p \in Processes, NEW c \in Command,
           task[p] = Idle, task' = [task EXCEPT ![p] = Begun(c)], UNCHANGED disk,
           Changes(c) => \A q \in Processes : ~IsChanging(q)
    PROVE  DiskKept'
<1> USE DEF DiskKept, disk
<1>1. DataTyped'
  BY BegunTyped DEF DataTyped
<1>2. \A q \in Processes : q # p => task'[q] = task[q]
  BY DEF DataTyped
<1>3. task'[p].kind = c.kind /\ task'[p].step \in {"getBit", "print"}
        /\ (task'[p].step = "getBit" => c.kind = "change")
  BY BegunTyped DEF DataTyped
<1>4. OneChange'
  BY <1>2, <1>3 DEF OneChange, IsChanging, Changes
<1>5. Current'
  <2> SUFFICES ASSUME NEW q \in Processes PROVE BitCurrent(q)' /\ InodeCurrent(q)'
    BY DEF Current
  <2>1. CASE q = p
    BY <2>1, <1>3 DEF BitCurrent, InodeCurrent, Pending, IsChanging, Steps
  <2>2. CASE q # p
    BY <2>2, <1>2 DEF Current, BitCurrent, InodeCurrent, Pending, IsChanging
  <2> QED
    BY <2>1, <2>2
<1>6. OnceHanded'
  BY DEF OnceHanded
<1>7. TableKept'
  BY <1>2, IdleTyped DEF TableKept, Pending
<1> QED
  BY <1>1, <1>4, <1>5, <1>6, <1>7

(* A step of a command, in any process.  Only one process changes the      *)
(* disk, so nobody else's step comes between its reads and its writes.     *)
LEMMA CommandKeeps ==
    ASSUME DiskKept, NEW p \in Processes, CommandStep(p)
    PROVE  DiskKept'
<1> USE DEF DiskKept, disk
<1>p. task[p] \in Task
  BY DEF DataTyped
<1>o. ASSUME NEW q \in Processes, q # p, CommandStep(p) PROVE task'[q] = task[q]
  BY <1>o DEF DataTyped, CommandStep, Say, Pass, Finish, GetBit, ReadVector, WriteVector, GetInode, PutInode
<1>q. ASSUME NEW q \in Processes, q # p, IsChanging(p) PROVE task[q].step \notin Steps
  BY <1>q DEF OneChange, Current, BitCurrent
<1>1. CASE Say(p) \/ Pass(p) \/ Finish(p)
  <2>1. UNCHANGED disk /\ task[p].step = "print"
    BY <1>1 DEF Say, Pass, Finish, Running
  <2>2. \/ task' = task
        \/ task[p].left > 0 /\ task' = [task EXCEPT ![p].left = @ - 1, ![p].said = @ + 1]
        \/ task' = [task EXCEPT ![p] = Idle]
    BY <1>1 DEF Say, Pass, Finish
  <2>3. task'[p] \in Task /\ task'[p].kind \in {task[p].kind, "none"}
          /\ task'[p].step \in {"print", "done"}
    BY <1>p, <2>1, <2>2, IdleTyped DEF DataTyped, Task
  <2>4. DataTyped'
    BY <2>1, <2>2, <2>3 DEF DataTyped
  <2>5. OneChange'
    BY <1>o, <2>3 DEF OneChange, IsChanging
  <2>6. Current'
    <3> SUFFICES ASSUME NEW q \in Processes PROVE BitCurrent(q)' /\ InodeCurrent(q)'
      BY DEF Current
    <3>1. CASE q = p
      BY <3>1, <2>3 DEF BitCurrent, InodeCurrent, Pending, Steps
    <3>2. CASE q # p
      BY <3>2, <1>o, <2>1 DEF Current, BitCurrent, InodeCurrent, Pending, IsChanging
    <3> QED
      BY <3>1, <3>2
  <2>7. OnceHanded' /\ TableKept'
    BY <1>o, <2>1, <2>3 DEF OnceHanded, TableKept, Pending
  <2> QED
    BY <2>4, <2>5, <2>6, <2>7
<1>2. CASE GetBit(p)
  <2>1. UNCHANGED disk /\ task[p].step = "getBit" /\ IsChanging(p)
    BY <1>2 DEF GetBit, Running, Current, BitCurrent, Steps
  <2>2. /\ task'[p] \in Task /\ task'[p].kind = task[p].kind
        /\ \/ task'[p].step = "setBit" /\ task'[p].bit \in free
           \/ task'[p].step \in {"getBit", "print"}
    BY <1>2, <1>p, <2>1 DEF GetBit, DataTyped, Task, Steps
  <2>3. DataTyped'
    BY <1>2, <1>p, <2>1, <2>2 DEF GetBit, DataTyped
  <2>4. OneChange'
    BY <1>2, <1>o, <2>2 DEF OneChange, IsChanging
  <2>5. Current'
    <3> SUFFICES ASSUME NEW q \in Processes PROVE BitCurrent(q)' /\ InodeCurrent(q)'
      BY DEF Current
    <3>1. CASE q = p
      BY <3>1, <2>1, <2>2 DEF BitCurrent, InodeCurrent, Pending, IsChanging, Steps
    <3>2. CASE q # p
      BY <3>2, <1>o, <2>1 DEF Current, BitCurrent, InodeCurrent, Pending, IsChanging
    <3> QED
      BY <3>1, <3>2
  <2>6. OnceHanded' /\ TableKept'
    BY <1>o, <2>1, <2>2 DEF OnceHanded, TableKept, Pending
  <2> QED
    BY <2>3, <2>4, <2>5, <2>6
<1>3. CASE ReadVector(p)
  <2>1. UNCHANGED disk /\ task[p].step = "setBit" /\ IsChanging(p) /\ task[p].bit \in free
    BY <1>3 DEF ReadVector, Running, Current, BitCurrent, Steps
  <2>2. /\ task'[p] \in Task /\ task'[p].kind = task[p].kind /\ task'[p].bit = task[p].bit
        /\ task'[p].step = "writeVector" /\ task'[p].buf = free
    BY <1>3, <1>p DEF ReadVector, DataTyped, Task, Steps
  <2>3. DataTyped'
    BY <1>3, <2>1, <2>2 DEF ReadVector, DataTyped
  <2>4. OneChange'
    BY <1>o, <2>2 DEF OneChange, IsChanging
  <2>5. Current'
    <3> SUFFICES ASSUME NEW q \in Processes PROVE BitCurrent(q)' /\ InodeCurrent(q)'
      BY DEF Current
    <3>1. CASE q = p
      BY <3>1, <2>1, <2>2 DEF BitCurrent, InodeCurrent, Pending, IsChanging
    <3>2. CASE q # p
      BY <3>2, <1>o, <2>1 DEF Current, BitCurrent, InodeCurrent, Pending, IsChanging
    <3> QED
      BY <3>1, <3>2
  <2>6. OnceHanded' /\ TableKept'
    BY <1>o, <2>1, <2>2 DEF OnceHanded, TableKept, Pending
  <2> QED
    BY <2>3, <2>4, <2>5, <2>6
<1>4. CASE WriteVector(p)
  <2> DEFINE x == task[p].bit
  <2>1. task[p].step = "writeVector" /\ IsChanging(p) /\ x \in free /\ x \in Bits
    BY <1>4 DEF WriteVector, Running, Current, BitCurrent, Steps, DataTyped
  <2>2. free' = free \ {x} /\ handed' = [handed EXCEPT ![x] = @ + 1] /\ table' = table
    BY <1>4, <2>1 DEF WriteVector, Current, BitCurrent
  <2>3. /\ task'[p] \in Task /\ task'[p].kind = task[p].kind /\ task'[p].bit = x
        /\ task'[p].step = "getInode"
    BY <1>4, <1>p DEF WriteVector, DataTyped, Task, Steps
  <2>4. DataTyped'
    BY <1>4, <2>1, <2>2, <2>3 DEF WriteVector, DataTyped
  <2>5. OneChange'
    BY <1>o, <2>3 DEF OneChange, IsChanging
  <2>6. \A q \in Processes : ~Pending(q)
    BY <1>q, <2>1 DEF Pending, Steps
  <2>7. table = Bits \ free
    BY <2>6 DEF TableKept
  <2>8. Current'
    <3> SUFFICES ASSUME NEW q \in Processes PROVE BitCurrent(q)' /\ InodeCurrent(q)'
      BY DEF Current
    <3>1. CASE q = p
      BY <3>1, <2>1, <2>2, <2>3, <2>7 DEF BitCurrent, InodeCurrent, Pending, IsChanging, DataTyped
    <3>2. CASE q # p
      <4>1. task'[q].step \notin Steps
        BY <3>2, <1>o, <1>q, <2>1
      <4> QED
        BY <4>1 DEF BitCurrent, InodeCurrent, Pending, Steps
    <3> QED
      BY <3>1, <3>2
  <2>9. OnceHanded'
    BY <2>1, <2>2 DEF OnceHanded, DataTyped
  <2>10. TableKept'
    BY <2>3 DEF TableKept, Pending
  <2> QED
    BY <2>4, <2>5, <2>8, <2>9, <2>10
<1>5. CASE GetInode(p)
  <2>1. UNCHANGED disk /\ task[p].step = "getInode" /\ IsChanging(p)
    BY <1>5 DEF GetInode, Running, Current, BitCurrent, Steps
  <2>2. /\ task'[p] \in Task /\ task'[p].kind = task[p].kind /\ task'[p].bit = task[p].bit
        /\ task'[p].step = "putInode" /\ task'[p].buf = table
    BY <1>5, <1>p DEF GetInode, DataTyped, Task, Steps
  <2>3. DataTyped'
    BY <1>5, <2>1, <2>2 DEF GetInode, DataTyped
  <2>4. OneChange'
    BY <1>o, <2>2 DEF OneChange, IsChanging
  <2>5. Current'
    <3> SUFFICES ASSUME NEW q \in Processes PROVE BitCurrent(q)' /\ InodeCurrent(q)'
      BY DEF Current
    <3>1. CASE q = p
      BY <3>1, <2>1, <2>2 DEF Current, BitCurrent, InodeCurrent, Pending, IsChanging
    <3>2. CASE q # p
      BY <3>2, <1>o, <2>1 DEF Current, BitCurrent, InodeCurrent, Pending, IsChanging
    <3> QED
      BY <3>1, <3>2
  <2>6. OnceHanded' /\ TableKept'
    BY <2>1, <2>2 DEF OnceHanded, TableKept, Pending
  <2> QED
    BY <2>3, <2>4, <2>5, <2>6
<1>6. CASE PutInode(p)
  <2> DEFINE x == task[p].bit
  <2>1. /\ task[p].step = "putInode" /\ IsChanging(p) /\ x \in Bits \ free
        /\ table = (Bits \ free) \ {x} /\ task[p].buf = table
    BY <1>6 DEF PutInode, Running, Current, BitCurrent, InodeCurrent, Pending, Steps
  <2>2. table' = Bits \ free /\ free' = free /\ handed' = handed
    BY <1>6, <2>1 DEF PutInode
  <2>3. /\ task'[p] \in Task /\ task'[p].kind = task[p].kind /\ task'[p].step = "print"
    BY <1>6, <1>p DEF PutInode, DataTyped, Task, Steps
  <2>4. DataTyped'
    BY <1>6, <2>2, <2>3 DEF PutInode, DataTyped
  <2>5. OneChange'
    BY <1>o, <2>3 DEF OneChange, IsChanging
  <2>6. Current'
    <3> SUFFICES ASSUME NEW q \in Processes PROVE BitCurrent(q)' /\ InodeCurrent(q)'
      BY DEF Current
    <3>1. CASE q = p
      BY <3>1, <2>3 DEF BitCurrent, InodeCurrent, Pending, Steps
    <3>2. CASE q # p
      <4>1. task'[q].step \notin Steps
        BY <3>2, <1>o, <1>q, <2>1
      <4> QED
        BY <4>1 DEF BitCurrent, InodeCurrent, Pending, Steps
    <3> QED
      BY <3>1, <3>2
  <2>7. OnceHanded' /\ TableKept'
    BY <2>2 DEF OnceHanded, TableKept
  <2> QED
    BY <2>4, <2>5, <2>6, <2>7
<1> QED
  BY <1>1, <1>2, <1>3, <1>4, <1>5, <1>6 DEF CommandStep
-----------------------------------------------------------------------------
LEMMA InvInit == Init => IInv
<1> SUFFICES ASSUME Init PROVE IInv
  OBVIOUS
<1> USE ProcessesAssumption DEF Init
<1>1. Scheduled /\ NoneBefore
  BY DEF Scheduled, NoneBefore, Processes
<1>2. \A p \in Processes : task[p] = Idle
  OBVIOUS
<1>3. DataTyped
  BY IdleTyped DEF DataTyped
<1>4. OneChange /\ Current
  BY <1>2, IdleTyped DEF OneChange, Current, IsChanging, BitCurrent, InodeCurrent, Pending, Steps
<1>5. OnceHanded /\ TableKept
  BY DEF OnceHanded, TableKept
<1> QED
  BY <1>1, <1>3, <1>4, <1>5 DEF IInv, DiskKept

LEMMA DiskUnmoved ==
    ASSUME DiskKept, UNCHANGED <<task, disk>>
    PROVE  DiskKept'
  BY DEF disk, DiskKept, DataTyped, OneChange, Current, OnceHanded, TableKept,
         IsChanging, BitCurrent, InodeCurrent, Pending

(* A line is typed with care: no child changes the disk if the line does.  *)
LEMMA TypedKeeps ==
    ASSUME IInv, NEW l \in Line, Careful(l), Typed(l)
    PROVE  IInv'
<1> USE DEF IInv
<1>1. /\ pc["shell"] = "prompt" /\ pc' = [pc EXCEPT !["shell"] = "parsed"] /\ line' = l
      /\ UNCHANGED <<task, disk>>
  BY DEF Typed
<1>2. "shell" \in Processes /\ "child" \in Processes
  BY DEF Processes
<1>3. Scheduled'
  BY <1>1, <1>2 DEF Scheduled
<1>4. Changing(l) => \A q \in Processes : ~IsChanging(q)
  <2> SUFFICES ASSUME Changing(l), NEW q \in Processes PROVE ~IsChanging(q)
    OBVIOUS
  <2>1. CASE q \in Children
    BY <2>1 DEF Careful, NoOtherChange, IsChanging
  <2>2. CASE q \notin Children
    BY <2>2, <1>1, IdleTyped DEF Children, Scheduled, IsChanging
  <2> QED
    BY <2>1, <2>2
<1>5. NoneBefore'
  BY <1>1, <1>4 DEF NoneBefore, Changing, IsChanging
<1>6. DiskKept'
  BY <1>1, DiskUnmoved
<1> QED
  BY <1>3, <1>5, <1>6

(* The shell starts the command of a line in itself or in a child.  Either *)
(* the line has just been typed, or it waited until no child was left.     *)
LEMMA WaitedAlone ==
    ASSUME Scheduled, Waited, pc["shell"] \in {"waiting", "waiting2"}
    PROVE  \A q \in Processes : ~IsChanging(q) /\ task[q] = Idle /\ (q # "shell" => pc[q] = "none")
  BY IdleTyped DEF Scheduled, Waited, Children, IsChanging

LEMMA ChangingCommand ==
    ASSUME NEW l \in Line
    PROVE  Changes(l.cmds[1]) => Changing(l)
  BY LineCommands DEF Changing

LEMMA ShellRunsKeeps ==
    ASSUME IInv, NEW c \in Command, NEW t, ShellRuns(c, t), UNCHANGED disk, line' = line,
           pc["shell"] \in {"parsed", "waiting", "waiting2"}, pc["child"] = "none",
           Changes(c) => \A q \in Processes : ~IsChanging(q)
    PROVE  IInv'
<1> USE DEF IInv
<1>1. "shell" \in Processes /\ "child" \in Processes
  BY DEF Processes
<1>2. pc' = [pc EXCEPT !["shell"] = "running"] /\ task' = [task EXCEPT !["shell"] = Begun(c)]
  BY DEF ShellRuns
<1>3. task["shell"] = Idle
  BY <1>1 DEF Scheduled
<1>4. DiskKept'
  BY <1>1, <1>2, <1>3, BeginningKeeps
<1>5. Scheduled'
  BY <1>1, <1>2, BegunTyped DEF Scheduled, DiskKept, DataTyped
<1>6. NoneBefore'
  BY <1>1, <1>2 DEF NoneBefore, Scheduled
<1> QED
  BY <1>4, <1>5, <1>6

LEMMA ForksKeeps ==
    ASSUME IInv, NEW q \in Processes \ {"shell"}, NEW c \in Command, NEW t, NEW s,
           NEW next \in {"prompt", "waiting", "waiting2"}, Forks(q, c, t, s, next),
           pc["shell"] \in {"parsed", "waiting", "waiting2"}, pc[q] = "none",
           next = "prompt" => q # "child" /\ pc["child"] = "none",
           next = "waiting2" => line.form = "pipes",
           Changes(c) => \A p \in Processes : ~IsChanging(p)
    PROVE  IInv'
<1> USE DEF IInv
<1>1. "shell" \in Processes /\ "child" \in Processes
  BY DEF Processes
<1>2. /\ pc' = [pc EXCEPT ![q] = "running", !["shell"] = next]
      /\ task' = [task EXCEPT ![q] = Begun(c)] /\ UNCHANGED <<line, disk>>
  BY DEF Forks
<1>3. task[q] = Idle
  BY DEF Scheduled
<1>4. DiskKept'
  BY <1>2, <1>3, BeginningKeeps
<1>5. Scheduled'
  BY <1>1, <1>2, BegunTyped DEF Scheduled, DiskKept, DataTyped
<1>6. NoneBefore'
  BY <1>1, <1>2 DEF NoneBefore, Scheduled
<1> QED
  BY <1>4, <1>5, <1>6

(* A command's step schedules nobody, and makes no process a changing one. *)
LEMMA CommandSchedules ==
    ASSUME IInv, NEW p \in Processes, CommandStep(p)
    PROVE  IInv'
<1> USE DEF IInv
<1>1. task[p] \in Task /\ "shell" \in Processes
  BY DEF DiskKept, DataTyped, Processes
<1>2. UNCHANGED <<pc, line>> /\ pc[p] = "running"
  BY DEF CommandStep, Say, Pass, Finish, GetBit, ReadVector, WriteVector, GetInode, PutInode, Running
<1>3. \A q \in Processes \ {p} : task'[q] = task[q]
  BY DEF DiskKept, DataTyped, CommandStep,
         Say, Pass, Finish, GetBit, ReadVector, WriteVector, GetInode, PutInode
<1>4. task'[p].kind \in {task[p].kind, "none"} /\ (task'[p].step = "done" => task'[p] = Idle)
  BY <1>1, IdleTyped
     DEF DiskKept, DataTyped, CommandStep, Task, Running,
         Say, Pass, Finish, GetBit, ReadVector, WriteVector, GetInode, PutInode
<1>5. Scheduled'
  BY <1>1, <1>2, <1>3, <1>4 DEF Scheduled
<1>6. NoneBefore'
  BY <1>2, <1>3, <1>4 DEF NoneBefore, IsChanging
<1> QED
  BY <1>5, <1>6, CommandKeeps

(* What the shell does. *)
LEMMA ShellKeeps ==
    ASSUME IInv, ShellStep
    PROVE  IInv'
<1> USE DEF IInv
<1>s. "shell" \in Processes /\ "child" \in Processes
  BY DEF Processes
<1>l. ASSUME pc["shell"] \in {"parsed", "waiting", "waiting2"} PROVE line \in Line
  BY <1>l DEF Scheduled
<1>p. ASSUME pc["shell"] = "parsed"
      PROVE  /\ pc["child"] = "none" /\ line.cmds[1] \in Command
             /\ Changes(line.cmds[1]) => \A q \in Processes : ~IsChanging(q)
  BY <1>p, <1>l, LineCommands, ChangingCommand DEF Scheduled, NoneBefore
<1>w. ASSUME Waited, pc["shell"] \in {"waiting", "waiting2"}
      PROVE  pc["child"] = "none" /\ \A q \in Processes : ~IsChanging(q)
  BY <1>w, <1>s, WaitedAlone
<1>1. CASE Plain
  BY <1>1, <1>p, ShellRunsKeeps DEF Plain, Is
<1>2. CASE Redirect
  BY <1>2, <1>p, ShellRunsKeeps DEF Redirect, Is, disk
<1>3. CASE Background
  <2>1. PICK q \in Kids \ Children :
          Forks(q, line.cmds[1], fds["shell"], fds["shell"], "prompt")
    BY <1>3 DEF Background
  <2>2. q \in Processes \ {"shell"} /\ q # "child" /\ pc[q] = "none"
    BY ProcessesAssumption DEF Processes, Children
  <2> QED
    BY <1>3, <1>p, <2>1, <2>2, ForksKeeps DEF Background, Is
<1>4. CASE Pipe
  <2>1. PICK t, s : Forks("child", line.cmds[1], t, s, "waiting")
    BY <1>4 DEF Pipe
  <2> QED
    BY <1>4, <1>p, <1>s, <2>1, ForksKeeps DEF Pipe, Is
<1>5. CASE PipeReader
  BY <1>5, <1>w, <1>l, LineCommands, ShellRunsKeeps DEF PipeReader
<1>6. CASE TwoPipes
  <2>1. PICK t, s : Forks("child", line.cmds[1], t, s, "waiting")
    BY <1>6 DEF TwoPipes
  <2> QED
    BY <1>6, <1>p, <1>s, <2>1, ForksKeeps DEF TwoPipes, Is
<1>7. CASE SecondChild
  <2>1. PICK t, s : Forks("child", line.cmds[2], t, s, "waiting2")
    BY <1>7 DEF SecondChild
  <2> QED
    BY <1>7, <1>w, <1>l, <1>s, <2>1, LineCommands, ForksKeeps DEF SecondChild
<1>8. CASE ThirdCommand
  <2>1. line.form = "pipes"
    BY <1>8 DEF ThirdCommand, Scheduled
  <2> QED
    BY <1>8, <1>w, <1>l, <2>1, LineCommands, ShellRunsKeeps DEF ThirdCommand
<1>9. CASE Return
  <2>1. /\ pc["shell"] = "running" /\ pc' = [pc EXCEPT !["shell"] = "prompt"]
        /\ task["shell"].step = "done" /\ UNCHANGED <<task, line, disk>>
    BY <1>9 DEF Return, Running
  <2>2. Scheduled'
    BY <1>s, <2>1 DEF Scheduled
  <2>3. NoneBefore'
    BY <1>s, <2>1 DEF NoneBefore, Scheduled
  <2>4. DiskKept'
    BY <2>1, DiskUnmoved
  <2> QED
    BY <2>2, <2>3, <2>4
<1>10. CASE CommandStep("shell")
  BY <1>10, <1>s, CommandSchedules
<1> QED
  BY <1>1, <1>2, <1>3, <1>4, <1>5, <1>6, <1>7, <1>8, <1>9, <1>10 DEF ShellStep

(* A child runs its command and exits. *)
LEMMA ChildKeeps ==
    ASSUME IInv, NEW q \in Processes \ {"shell"}, ChildStep(q)
    PROVE  IInv'
<1>1. CASE CommandStep(q)
  BY <1>1, CommandSchedules
<1>2. CASE Exit(q)
  <2> USE DEF IInv
  <2>1. /\ pc' = [pc EXCEPT ![q] = "none"] /\ pc[q] = "running" /\ task[q].step = "done"
        /\ UNCHANGED <<task, line, disk>>
    BY <1>2 DEF Exit, Running
  <2>2. "shell" \in Processes /\ "child" \in Processes
    BY DEF Processes
  <2>3. Scheduled'
    BY <2>1, <2>2 DEF Scheduled
  <2>4. NoneBefore'
    BY <2>1, <2>2 DEF NoneBefore, Scheduled, IsChanging
  <2> QED
    BY <2>1, <2>3, <2>4, DiskUnmoved
<1> QED
  BY <1>1, <1>2 DEF ChildStep

LEMMA InvStep == IInv /\ [CarefulNext]_vars => IInv'
<1> SUFFICES ASSUME IInv, [CarefulNext]_vars PROVE IInv'
  OBVIOUS
<1>1. CASE \E l \in Line : Careful(l) /\ Typed(l)
  BY <1>1, TypedKeeps
<1>2. CASE ShellStep
  BY <1>2, ShellKeeps
<1>3. CASE \E q \in Processes \ {"shell"} : ChildStep(q)
  BY <1>3, ChildKeeps
<1>4. CASE UNCHANGED vars
  BY <1>4, DiskUnmoved DEF vars, disk, IInv, Scheduled, NoneBefore, IsChanging
<1> QED
  BY <1>1, <1>2, <1>3, <1>4 DEF CarefulNext

LEMMA InvKept == IInv => ChangesKept
<1> SUFFICES ASSUME IInv PROVE ChangesKept
  OBVIOUS
<1>1. (\A p \in Processes : task[p].kind # "change") => table = Bits \ free
  BY DEF IInv, DiskKept, Current, BitCurrent, TableKept, IsChanging, Pending, Steps
<1> QED
  BY <1>1 DEF IInv, DiskKept, OnceHanded, ChangesKept

(* Typed with care, commands of the shell and of any number of children in *)
(* the background never get the same i-node, and none of them undoes what  *)
(* another has written into the block of i-nodes they share.               *)
THEOREM ChangesAreKept == CarefulSpec => []ChangesKept
<1>1. CarefulSpec => []IInv
  BY InvInit, InvStep, PTL DEF CarefulSpec
<1> QED
  BY <1>1, InvKept, PTL
=============================================================================
