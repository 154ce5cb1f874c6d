----------------------------- MODULE Directory -----------------------------
(***************************************************************************)
(* The methods of Directory (directory.cpp) as operators from one i-node   *)
(* table to the next.  A directory is the sequence of its entries, in the  *)
(* order nextName() reads them.                                            *)
(*                                                                         *)
(* A Directory object reads through a cursor, dirf, that namesEnd() closes *)
(* and that deleteFile() leaves at the end of the file: a lookup made then *)
(* finds nothing, whatever the directory holds.  The operators that the    *)
(* code may enter with such a cursor take it as the argument atEnd.        *)
(***************************************************************************)
EXTENDS Naturals, Sequences, SequencesExt, FiniteSetsExt

CONSTANTS
    NInodes,     \* superBlock.nInodes
    Plain,       \* file names without a dot, which the shell takes for directories
    Dotted,      \* file names with a dot, which it takes for files
    None         \* the path of an i-node that is no soft link

ASSUME NamesAssumption ==
    /\ NInodes \in Nat /\ 2 <= NInodes
    /\ Plain \cap Dotted = {}
    /\ {".", ".."} \cap (Plain \cup Dotted) = {}
    /\ None \notin Plain \cup Dotted

InodeNumbers == 0 .. NInodes - 1
Root == 1
Names == Plain \cup Dotted

iTypeOrdinary == 1
iTypeDirectory == 2
iTypeSoftLink == 3

(* An i-node as the directory code sees it: its bit in fbvInodes, its type *)
(* and link count, the entries in its blocks, the text in its path block.  *)
(* setFree() leaves all but the bit as it is, getFree() zeroes the i-node. *)
ZeroInode == [free |-> FALSE, type |-> 0, count |-> 0, entries |-> <<>>, path |-> None]
FreeInode == [ZeroInode EXCEPT !.free = TRUE]
Entry(n, i) == [name |-> n, in |-> i]
Dots(i, parent) == <<Entry(".", i), Entry("..", parent)>>

\* The i-node table mkfs leaves.
NewTable ==
    [i \in InodeNumbers |->
       CASE i = 0 -> ZeroInode
         [] i = Root -> [ZeroInode EXCEPT !.type = iTypeDirectory, !.entries = Dots(Root, Root)]
         [] OTHER -> FreeInode]

\* Directory::setDirEntry from the head: the position of the first entry named n, or 0.
FirstNamed(tab, d, n) == SelectInSeq(tab[d].entries, LAMBDA e : e.name = n)

\* Directory::iNumberOf, and findFileInDirectory when compared with 0.
INumberOf(tab, d, atEnd, n) ==
    IF atEnd \/ FirstNamed(tab, d, n) = 0 THEN 0
    ELSE tab[d].entries[FirstNamed(tab, d, n)].in

\* Directory::getDirectoryPointer: the LAST entry named n that is a directory; 0 for NULL.
DirectoryPointer(tab, d, n) ==
    LET k == SelectLastInSeq(tab[d].entries,
                             LAMBDA e : e.name = n /\ tab[e.in].type = iTypeDirectory)
    IN  IF k = 0 THEN 0 ELSE tab[d].entries[k].in

\* Directory::addLeafName.  A mistake to guard against: no look for the name first.
AddLeafNameBlindly(tab, d, atEnd, n, in) ==
    [tab EXCEPT ![d].entries = Append(@, Entry(n, in))]
AddLeafName(tab, d, atEnd, n, in) ==
    IF in = 0 \/ INumberOf(tab, d, atEnd, n) # 0 THEN tab
    ELSE [tab EXCEPT ![d].entries = Append(@, Entry(n, in))]

(* Inodes::setFree: the i-node's bit, and the bits of the blocks it lists, *)
(* which it goes on listing.  Of an i-node in use they are its own, and no *)
(* table shows the difference.  Of one that is not (the function does not  *)
(* ask) they may be another's by now, which the table cannot show: Shell   *)
(* notes such a call in refreed.                                           *)
SetFree(tab, in) == [tab EXCEPT ![in].free = TRUE]

\* File::deletePrecedingBytes with the cursor after entry k.  A mistake to
\* guard against: with the cursor before it, the entry before k goes.
WithoutPrevious(entries, k) == RemoveAt(entries, k - 1)
Without(entries, k) == RemoveAt(entries, k)

\* Directory::deleteFile from the head of the directory.
DeleteFile(tab, d, n, freeInodeFlag) ==
    LET k == FirstNamed(tab, d, n)
        in == tab[d].entries[k].in
        removed == [tab EXCEPT ![d].entries = Without(@, k)]
    IN  IF k = 0 THEN tab
        ELSE IF freeInodeFlag THEN SetFree(removed, in) ELSE removed

\* Inodes::getFree: the lowest free i-node, or 0; what it does to the table.
GetFree(tab) ==
    LET free == {i \in InodeNumbers \ {0} : tab[i].free}
    IN  IF free = {} THEN 0 ELSE Min(free)
Zeroed(tab, in) == [tab EXCEPT ![in] = ZeroInode]

\* The Directory constructor with a parent: "." and ".." in the i-node's own file.
MakeDirectory(tab, in, parent) ==
    AddLeafName(AddLeafName([tab EXCEPT ![in].type = iTypeDirectory, ![in].free = FALSE],
                            in, FALSE, ".", in),
                in, FALSE, "..", parent)

\* Directory::createFile once its lookup has found nothing.
CreateNewFile(tab, d, n, dirFlag) ==
    LET in == GetFree(tab)
        named == AddLeafName(Zeroed(tab, in), d, FALSE, n, in)
        typed == IF dirFlag THEN MakeDirectory(named, in, d)
                 ELSE [named EXCEPT ![in].type = iTypeOrdinary]
    IN  IF in = 0 THEN tab ELSE [typed EXCEPT ![in].count = 0]

\* Directory::createFile
CreateFile(tab, d, n, dirFlag) ==
    IF INumberOf(tab, d, FALSE, n) # 0 THEN tab ELSE CreateNewFile(tab, d, n, dirFlag)

\* Directory::createHardLink.  A mistake to guard against: the count is not raised.
CreateHardLinkUncounted(tab, d, n, in) ==
    [AddLeafName(tab, d, FALSE, n, in) EXCEPT ![in].type = iTypeOrdinary]
CreateHardLink(tab, d, n, in) ==
    [AddLeafName(tab, d, FALSE, n, in) EXCEPT ![in].count = @ + 1, ![in].type = iTypeOrdinary]

\* Directory::createSoftLink: the name is not looked for, and the i-node is
\* typed and given its path even if addLeafName() did not store the name.
CreateSoftLink(tab, d, n, dirFlag, path) ==
    LET in == GetFree(tab)
        named == AddLeafName(Zeroed(tab, in), d, FALSE, n, in)
        dotted == IF dirFlag THEN MakeDirectory(named, in, d) ELSE named
    IN  IF in = 0 THEN tab
        ELSE [dotted EXCEPT ![in].type = iTypeSoftLink, ![in].count = 0, ![in].path = path]

\* Directory::copySoftLink; getFree() failing, the count goes to i-node 0.
CopySoftLink(tab, d, from, to) ==
    LET in == INumberOf(tab, d, FALSE, from)
        linked == CreateSoftLink(tab, d, to, FALSE, tab[in].path)
    IN  IF in = 0 THEN tab
        ELSE [linked EXCEPT ![GetFree(tab)].count = linked[in].count]
-----------------------------------------------------------------------------
(* Directory::rmRecursion.  In each directory the entry after "." and ".." *)
(* is followed when it is a directory, through getDirectoryPointer, and    *)
(* deleted on the way back; the deletion leaves the cursor at the end, so  *)
(* that no later entry is looked at.                                       *)
FirstChild(tab, d) ==
    SelectInSeq(tab[d].entries, LAMBDA e : e.name \notin {".", ".."})

Down(tab, d) ==
    LET k == FirstChild(tab, d)
        e == tab[d].entries[k]
    IN  IF d = 0 \/ k = 0 THEN 0
        ELSE IF tab[e.in].type = iTypeDirectory THEN DirectoryPointer(tab, d, e.name) ELSE 0

\* The directories rmRecursion enters from d, in order, 0 when there are no more.
Descent(tab, d) ==
    LET f[j \in 0 .. NInodes] == IF j = 0 THEN d ELSE Down(tab, f[j - 1])
    IN  f

\* A directory entered twice is entered for ever, until the stack overflows.
EndlessDescent(tab, d) == Descent(tab, d)[NInodes] # 0

\* Those it enters, those it deletes an entry from, the i-nodes it gives to setFree().
Entered(tab, d) == {Descent(tab, d)[j] : j \in 0 .. NInodes} \ {0}
Emptied(tab, d) == {x \in Entered(tab, d) : FirstChild(tab, x) # 0}
Gone(tab, d) == {tab[x].entries[FirstChild(tab, x)].in : x \in Emptied(tab, d)}

RmRecursion(tab, d) ==
    [i \in InodeNumbers |->
       [tab[i] EXCEPT !.free = (@ \/ i \in Gone(tab, d)),
                      !.entries = IF i \in Emptied(tab, d)
                                  THEN Without(@, FirstChild(tab, i)) ELSE @]]

(* Directory::lsRecursion enters every directory a directory names, but    *)
(* "." and "..".                                                           *)
Subdirectories(tab, d) ==
    {DirectoryPointer(tab, d, e.name) :
       e \in {x \in ToSet(tab[d].entries) :
                x.name \notin {".", ".."} /\ tab[x.in].type = iTypeDirectory}}

\* The directories that getDirectoryPointer() can be led to from d, name by name.
Reached(tab, d) ==
    LET named(x) == {e.in : e \in {y \in ToSet(tab[x].entries) : tab[y.in].type = iTypeDirectory}}
        level[j \in 0 .. NInodes] ==
          {d} \cup IF j = 0 THEN {} ELSE UNION {named(x) : x \in level[j - 1]}
    IN  level[NInodes]

\* So it never ends where a directory is below itself.
EndlessListing(tab, d) ==
    LET level[j \in 0 .. NInodes] ==
          IF j = 0 THEN {d} ELSE UNION {Subdirectories(tab, x) : x \in level[j - 1]}
    IN  level[NInodes] # {}

(* Directory::pwd climbs by the name of the second entry to i-node 1; it   *)
(* dereferences NULL where there is no such directory, and never ends in a *)
(* cycle that misses the root.                                             *)
Up(tab, d) ==
    IF d = Root THEN Root
    ELSE IF d = 0 \/ Len(tab[d].entries) < 2 THEN 0
    ELSE DirectoryPointer(tab, d, tab[d].entries[2].name)

PwdReturns(tab, d) ==
    LET f[j \in 0 .. NInodes] == IF j = 0 THEN d ELSE Up(tab, f[j - 1])
    IN  f[NInodes] = Root
=============================================================================
