------------------------------- MODULE Shell -------------------------------
(***************************************************************************)
(* The commands of the shell that change the name space or walk it         *)
(* (shell.cpp), over the Directory methods they are made of.  A command is *)
(* one step: the shell runs it to the end before it reads the next line.   *)
(*                                                                         *)
(* wd is the shell's working Directory object, the i-node it is on and     *)
(* whether its cursor was left at the end of the file; the volume's own    *)
(* root object always closes its cursor before a command ends.             *)
(***************************************************************************)
EXTENDS Directory, TLC

CONSTANTS MaxEntries,  \* bound: a command that adds needs a directory shorter than this
          MaxCount     \* bound: links are made to i-nodes with a smaller count

ASSUME BoundsAssumption == MaxEntries \in Nat /\ 3 <= MaxEntries /\ MaxCount \in Nat

VARIABLES tab,      \* the i-node table
          wd,       \* the i-node of the working directory, or NoVolume
          atEnd,    \* wd's cursor was left at the end of the directory
          crashed,  \* the shell has died on a NULL pointer or an endless recursion
          refreed   \* history: setFree() was called for an i-node not in use

vars == <<tab, wd, atEnd, crashed, refreed>>

\* Before the first mkfs fv and wd are NULL, and cwdVNIN is 0.
NoVolume == 0

Init ==
    /\ tab = NewTable /\ wd = NoVolume
    /\ atEnd = FALSE /\ crashed = FALSE /\ refreed = FALSE

\* The first lookup of a command starts where wd's cursor is, and closes it.
InWd(n) == INumberOf(tab, wd, atEnd, n)

Crash == crashed' = TRUE /\ UNCHANGED <<tab, wd, atEnd, refreed>>

\* The command leaves the table t and wd's cursor closed.
Becomes(t) == tab' = t /\ atEnd' = FALSE /\ UNCHANGED <<wd, crashed, refreed>>

(* It calls setFree() for the i-nodes of S, 0 among them standing for no   *)
(* call.  What counts is whether they were in use when the command began:  *)
(* between two such calls of one command no block is handed out, so the    *)
(* second releases what is free.                                           *)
Frees(S) == refreed' = (refreed \/ \E i \in S : tab[i].free)
BecomesFreeing(t, S) == tab' = t /\ atEnd' = FALSE /\ Frees(S) /\ UNCHANGED <<wd, crashed>>

(* cmdTable says of each command what it needs, invokeCmd refuses one that *)
(* needs a volume while there is none.  The rows that were added last ask  *)
(* for none and follow wd all the same.  A mistake to guard against: no    *)
(* command refused.                                                        *)
globalsNeeded ==
    [c \in {"cd", "cp", "mkdir", "mv", "rm", "rmdir", "pwd", "ls", "inode u"} |-> "v"]
      @@ [c \in {"ls d", "ls -lR", "inode n", "rm -fr", "ln", "ln -s", "ln d/f"} |-> ""]
RefusedNot(c) == FALSE
Refused(c) == wd = NoVolume /\ globalsNeeded[c] = "v"
InvokeCmd(c) ==
    /\ wd = NoVolume /\ ~crashed
    /\ \/ Refused(c) /\ UNCHANGED vars
       \/ ~Refused(c) /\ Crash

(* mkfs: a new volume, wd its root; the one thing a shell started again    *)
(* after a crash can do, since nothing opens a volume already there.       *)
DoMakeFV ==
    /\ tab' = NewTable /\ wd' = Root
    /\ atEnd' = FALSE /\ crashed' = FALSE /\ refreed' = FALSE

(* mkdir n *)
DoMkDir(n) == Becomes(IF InWd(n) # 0 THEN tab ELSE CreateFile(tab, wd, n, TRUE))

\* helperDoRm on a file: the last name frees the i-node, an earlier one lowers
\* its count.  A mistake to guard against: the count is lowered for the last.
UnlinkLowering(n, in) == [DeleteFile(tab, wd, n, FALSE) EXCEPT ![in].count = @ - 1]
Unlink(n, in) ==
    IF tab[in].count # 0
    THEN [DeleteFile(tab, wd, n, FALSE) EXCEPT ![in].count = @ - 1]
    ELSE DeleteFile(tab, wd, n, TRUE)
UnlinkFrees(n, in) == IF tab[in].count # 0 THEN {} ELSE {INumberOf(tab, wd, FALSE, n)}

\* findEntries(name) == 0: the directory holds "." and ".." only.  A mistake
\* to guard against: not asking.
IsEmptyUnasked(d) == TRUE
IsEmpty(d) == Len(tab[d].entries) = 2

(* rm n, rmdir n: a name with a dot is a file; one without is what its     *)
(* i-node's type says.                                                     *)
DoRm(n) ==
    LET in == InWd(n)
        isDir == tab[in].type = iTypeDirectory
    IN  \/ /\ n \in Dotted \/ (INumberOf(tab, wd, FALSE, n) # 0 /\ ~isDir)
           /\ BecomesFreeing(Unlink(n, in), UnlinkFrees(n, in))
        \/ /\ n \in Plain /\ INumberOf(tab, wd, FALSE, n) # 0 /\ isDir
           /\ IsEmpty(DirectoryPointer(tab, wd, n))
           /\ BecomesFreeing(DeleteFile(tab, wd, n, TRUE), {INumberOf(tab, wd, FALSE, n)})
        \/ /\ n \in Plain
           /\ \/ INumberOf(tab, wd, FALSE, n) = 0
              \/ isDir /\ ~IsEmpty(DirectoryPointer(tab, wd, n))
           /\ Becomes(tab)

\* FileVolume::write33file: the file is deleted with its i-node and made again,
\* and createFile() looks for it from the end, where deleteFile() left the
\* cursor of the root.
Write33File(n) == CreateNewFile(DeleteFile(tab, Root, n, TRUE), Root, n, FALSE)

\* FileVolume::copy33file, which looks for the file again before making it.
Copied(s) ==
    LET in == INumberOf(tab, Root, FALSE, s)
    IN  in # 0 /\ tab[in].type = iTypeOrdinary
Copy33File(s, d) ==
    IF Copied(s) THEN CreateFile(DeleteFile(tab, Root, d, TRUE), Root, d, FALSE) ELSE tab

(* cp @f n: in the root, whatever wd is. *)
DoCopyTo(n) ==
    /\ tab' = Write33File(n) /\ Frees({INumberOf(tab, Root, FALSE, n)})
    /\ UNCHANGED <<wd, atEnd, crashed>>

(* cp s d: what is a soft link in wd is copied there, all else in the root. *)
DoCopy33(s, d) ==
    \/ tab[InWd(s)].type = iTypeSoftLink /\ Becomes(CopySoftLink(tab, wd, s, d))
    \/ /\ tab[InWd(s)].type # iTypeSoftLink
       /\ BecomesFreeing(Copy33File(s, d), IF Copied(s) THEN {INumberOf(tab, Root, FALSE, d)} ELSE {})
-----------------------------------------------------------------------------
(* mvForFileToFile, mvForSoftLink: the second deleteFile() starts at the   *)
(* end, where the first left the cursor, and so deletes nothing; so does   *)
(* addLeafName(), and so appends.                                          *)
Renamed(s, d, in) == AddLeafName(DeleteFile(tab, wd, s, FALSE), wd, TRUE, d, in)

\* What mv leaves of the table t once s is to be put in directory p, which
\* had "there" under that name.
PutInto(t, p, s, in, there) ==
    IF there = 0 THEN AddLeafName(t, p, FALSE, s, in)
    ELSE AddLeafName(DeleteFile(t, p, s, TRUE), p, TRUE, s, in)
Puts(t, p, s, in, there) ==
    BecomesFreeing(PutInto(t, p, s, in, there),
                   IF there = 0 THEN {} ELSE {INumberOf(t, p, FALSE, s)})

(* mv s d: the four forms are told apart by the dots in the names. *)
DoMv(s, d) ==
    LET in == InWd(s)
        isLink == tab[in].type = iTypeSoftLink
        p == DirectoryPointer(tab, wd, d)
        there == INumberOf(tab, p, FALSE, s)
        cut == DeleteFile(tab, wd, s, FALSE)
    IN  \/ /\ in # 0 /\ (isLink \/ (s \in Dotted /\ d \in Dotted))
           /\ Becomes(Renamed(s, d, in))
        \/ /\ in # 0 /\ ~isLink /\ s \in Dotted /\ d \in Plain /\ p # 0
           /\ Puts(cut, p, s, in, there)
        \/ /\ in # 0 /\ ~isLink /\ s \in Plain /\ d \in Plain /\ p # 0
           /\ Puts(AddLeafName(cut, p, FALSE, s, in), p, s, in, there)
        \/ /\ in # 0 /\ ~isLink /\ d \in Plain /\ p = 0
           /\ Crash
        \/ /\ in = 0 \/ (~isLink /\ s \in Plain /\ d \in Dotted)
           /\ Becomes(tab)

(* ln o n *)
DoLn(o, n) ==
    LET in == INumberOf(tab, wd, FALSE, o)
        ok == InWd(n) = 0 /\ in # 0 /\ {o, n} \subseteq Dotted
    IN  /\ ok => tab[in].count < MaxCount
        /\ Becomes(IF ok THEN CreateHardLink(tab, wd, n, in) ELSE tab)

(* ln -s o n *)
DoLnS(o, n) ==
    Becomes(IF InWd(n) = 0 /\ INumberOf(tab, wd, FALSE, o) # 0
            THEN CreateSoftLink(tab, wd, n, o \in Plain, o) ELSE tab)

(* ln d/f: the name f in wd for the file f of directory d.  When d is not  *)
(* there the walk stays in wd; when f is not, iNumber is uninitialized.    *)
DoLnPath(d, f) ==
    LET p == DirectoryPointer(tab, wd, d)
        current == IF InWd(d) = 0 THEN wd ELSE p
        in == INumberOf(tab, current, FALSE, f)
    IN  \/ current = 0 /\ Crash
        \/ /\ current # 0
           /\ \E i \in IF in # 0 THEN {in} ELSE InodeNumbers :
                /\ tab[i].count < MaxCount
                /\ Becomes(CreateHardLink(tab, wd, f, i))

\* helperDoChdir asks findFileInDirectory.  A mistake to guard against: not asking.
KnownUnasked(n) == TRUE
Known(n) == INumberOf(tab, wd, FALSE, n) # 0

(* cd n, through one soft link; the new wd is a new Directory object. *)
DoChDir(n) ==
    LET in == InWd(n)
        name == IF tab[in].type = iTypeSoftLink THEN tab[in].path ELSE n
        p == DirectoryPointer(tab, wd, name)
    IN  \/ ~Known(name) /\ Becomes(tab)
        \/ Known(name) /\ ~PwdReturns(tab, p) /\ Crash
        \/ /\ Known(name) /\ PwdReturns(tab, p)
           /\ wd' = p /\ atEnd' = FALSE /\ UNCHANGED <<tab, crashed, refreed>>

(* rm -fr n *)
DoRmRecursion(n) ==
    LET p == DirectoryPointer(tab, wd, n)
    IN  \/ InWd(n) = 0 /\ Becomes(tab)
        \/ InWd(n) # 0 /\ (p = 0 \/ EndlessDescent(tab, p)) /\ Crash
        \/ /\ InWd(n) # 0 /\ p # 0 /\ ~EndlessDescent(tab, p)
           /\ tab' = DeleteFile(RmRecursion(tab, p), wd, n, TRUE)
           /\ atEnd' = TRUE
           /\ Frees(Gone(tab, p) \cup {INumberOf(tab, wd, FALSE, n)})
           /\ UNCHANGED <<wd, crashed>>

(* inode n: the lookup closes the cursor, the i-node's words are printed. *)
DoInodeFile == Becomes(tab)

(* pwd closes wd's cursor unless wd is the root. *)
DoPwd ==
    \/ ~PwdReturns(tab, wd) /\ Crash
    \/ PwdReturns(tab, wd) /\ wd # Root /\ Becomes(tab)
    \/ wd = Root /\ UNCHANGED vars

(* ls -lR n lists through Directory objects of its own. *)
DoLsRecursion(n) ==
    LET p == DirectoryPointer(tab, wd, n)
    IN  \/ (p = 0 \/ EndlessListing(tab, p)) /\ Crash
        \/ p # 0 /\ ~EndlessListing(tab, p) /\ UNCHANGED vars
-----------------------------------------------------------------------------
Room == \A i \in InodeNumbers : Len(tab[i].entries) < MaxEntries

(* setFree() is called for i-nodes in use only, as inodes.cpp:337 asks of  *)
(* its callers: no block is released that is another file's.               *)
FreedInUse == ~refreed

(* The model stops, but for mkfs, where the table no longer says what is   *)
(* in the blocks: when one may have two owners, when wd or the root is no  *)
(* directory any more, and when a Directory object can be got on an i-node *)
(* that is not in use, whose blocks may be another file's.                 *)
Running ==
    /\ ~crashed /\ FreedInUse /\ wd # NoVolume
    /\ \A d \in {wd, Root} :
         /\ ~tab[d].free /\ tab[d].type = iTypeDirectory
         /\ \A x \in Reached(tab, d) : ~tab[x].free

Next ==
    \/ DoMakeFV
    \/ \E c \in DOMAIN globalsNeeded : InvokeCmd(c)
    \/ Running /\
       \/ \E n \in Names :
            DoRm(n) \/ DoRmRecursion(n) \/ DoLsRecursion(n)
       \/ DoInodeFile
       \/ DoPwd
       \/ \E n \in Names \cup {".."} : DoChDir(n)
       \/ Room /\ \E n \in Names : DoMkDir(n) \/ DoCopyTo(n)
       \/ Room /\ \E s, d \in Names :
            DoCopy33(s, d) \/ DoMv(s, d) \/ DoLn(s, d) \/ DoLnS(s, d)
       \/ Room /\ \E d \in Plain, f \in Dotted : DoLnPath(d, f)

Spec == Init /\ [][Next]_vars
-----------------------------------------------------------------------------
(* The name space is well typed, as long as no block has two owners and    *)
(* none was wanted in vain.  Of an i-node that is free the table says what *)
(* it held when it was freed.                                              *)
TypeOK ==
    /\ FreedInUse =>
         tab \in [InodeNumbers ->
                   [free : BOOLEAN, type : 0 .. 3, count : 0 .. MaxCount,
                    entries : Seq([name : Names \cup {".", ".."}, in : InodeNumbers \ {0}]),
                    path : Names \cup {None}]]
    /\ wd \in InodeNumbers
    /\ atEnd \in BOOLEAN /\ crashed \in BOOLEAN /\ refreed \in BOOLEAN

Live(i) == i # 0 /\ ~tab[i].free
LiveDirectories == {i \in InodeNumbers : Live(i) /\ tab[i].type = iTypeDirectory}
\* The places where a live directory names i-node i.
Links(i) ==
    UNION {{d} \X {k \in DOMAIN tab[d].entries :
                     tab[d].entries[k].in = i /\ tab[d].entries[k].name \notin {".", ".."}} :
           d \in LiveDirectories}

(* As long as setFree() was called for i-nodes in use and no block was     *)
(* wanted in vain, a directory in use begins with "." for itself and "..": *)
(* no rm, mv or rm -fr takes them away, no i-node is handed out again with *)
(* old ones.  pwd, rm -fr and findEntries rely on their places.            *)
Headed ==
    FreedInUse =>
      \A d \in LiveDirectories :
        /\ Len(tab[d].entries) >= 2
        /\ tab[d].entries[1] = Entry(".", d)
        /\ tab[d].entries[2].name = ".."

(* shell.cpp:366: mv of a file onto another deletes the destination and    *)
(* releases its i-node.                                                    *)
MvReplaces ==
    [][\A s, d \in Dotted :
        LET from == INumberOf(tab, wd, FALSE, s)
            to == INumberOf(tab, wd, FALSE, d)
        IN  (DoMv(s, d) /\ from # to /\ ~atEnd /\ {tab[from].type, tab[to].type} = {iTypeOrdinary}
             /\ tab[to].count = 0) => ~Live(to)']_vars

(* ReadMe.txt:53: rm -fr deletes "all the contents recursively": nothing   *)
(* the directory named is in use any more.                                 *)
RmRecursionDeletesAll ==
    [][\A n \in Plain :
        LET entries == tab[DirectoryPointer(tab, wd, n)].entries
            contents == {entries[k].in : k \in 3 .. Len(entries)}
        IN  (DoRmRecursion(n) /\ ~crashed' /\ InWd(n) # 0) =>
              \A i \in contents : ~Live(i)']_vars
=============================================================================
