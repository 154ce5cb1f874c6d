# OSProject3 in TLA+

A TLA+ development of the simulated-disk file system and shell of this
repository: modules that follow the C++ code, TLC configurations that check them
on small volumes, and TLAPS proofs for volumes of every size.

## The system

One process, `P0`, reads commands and carries them out on a *file volume* that
lives in a disk image, a file of the host (`D2.dsk`). It forks for pipes and `&`.

| component | state it keeps | operations | used by |
|---|---|---|---|
| `SimDisk` (simdisk.cpp) | the disk image | read and write a sector; make or find the image | FileVolume |
| `BitVector` (bitvector.cpp) | two vectors of free bits on disk: blocks, i-nodes | `getFreeBit`, `setBit`, `getBit` | Inodes, FileVolume, Directory |
| `Inodes` (inodes.cpp) | the i-node table on disk and one block of it in memory; the index blocks | `getFree`, `setFree`, `setLastBlockNumber`, `getBlockNumber`, get/set of type, count, size, path block | File, Directory, shell |
| `File` (file.cpp) | a buffer and a read cursor | `appendBytes`, `appendOneBlock`, `deletePrecedingBytes`, `readBlock`, `getNextByte` | Directory, FileVolume |
| `FileVolume` (volume.cpp) | the superblock, the root `Directory` | mkfs, `getFreeBlock`, `write33file`, `read33file`, `copy33file` | shell |
| `Directory` (directory.cpp) | an i-node number and an open `File` on it: its cursor | look up, add and delete names; hard and soft links; recursive ls, rm and pwd | FileVolume, shell |
| commands (shell.cpp 130-678) | the working directory `wd` | mkfs, mkdir, rm, cp, mv, ln, cd, pwd, ls, inode | the main loop |
| pipes, redirection, `&` (shell.cpp 821-1038) | processes, descriptors, flags | fork, pipe, dup2, wait | the main loop |
| main loop, command table (shell.cpp 691-815, 1040-1115) | the command line | parse, look up, dispatch | |
| mounts (mount.cpp) | a list nothing fills | stubs | |

Calls go downwards only; there are no callbacks and no messages. Shared state is
the disk image (by all, and by the parent and child of a fork), and the
`Directory` objects `wd` and `FileVolume::root`, each with a cursor that outlives
the call that moved it.

What is hard here:

* **Block lists.** One routine writes the last block number for appending and
  for trimming, the same word means different things with the i-node's height,
  and index blocks are allocated on the way. (`Inodes`)
* **The cursor.** `deleteFile` leaves a directory's cursor at the end, and the
  next lookup through the same object finds nothing. (`Directory`, `Shell`)
* **Shifting bytes.** A directory entry is deleted by moving every later byte of the
  file, through two buffers and across block boundaries. (`DirectoryFile`)
* **Copies.** A copy goes block by block, through a routine that drops its block in
  silence when the disk is full. (`FileCopy`)
* **Sequences of commands.** Names, link counts, `..` entries and free bits are
  changed by different commands and must keep agreeing. (`CarefulShell`)
* **Failure in the middle.** Disk full, i-nodes used up, NULL results, no volume yet.
* **Processes.** Pipes whose ends stay open, a parent that waits before it
  reads, background commands that share the disk image without a lock. (`Processes`)

PROJECT.json lists these at their lines under `hazards`.

## Modules

`Inodes`, `Directory`/`Shell`/`CarefulShell`, `FileBlocks` with
`DirectoryFile` and `FileCopy`, and `Processes`/`CarefulProcesses` are four models of
four layers. Each takes from the one below what is proved or checked there: `FileBlocks`
reads the block stored for a place of a file (`Readable` and `ContentStable` of
`Inodes`), `Directory` takes a directory for the sequence of its entries
(`DirectoryEntries`, which `DirectoryFile` implements), `Processes` reduces a command
to what it prints and the two read-modify-write cycles with which it takes an i-node.

### Inodes: the storage core

| variable | code |
|---|---|
| `fbvBlocks`, `fbvInodes` | the two bit vectors: the set of x whose bit is 1 |
| `inode` | the `iHeight` words of each i-node, in the code's layout |
| `block` | the words of each block when it is an index block; block 0 is the superblock |
| `starved` | history: an index or path block was wanted when no block was free |

| action | code |
|---|---|
| `Init` | `FileVolume::FileVolume` (mkfs) and the root's constructor |
| `GetFree`, `SetFree`, `SetType`, `SetCount` | the methods of `Inodes` so named |
| `SetPathBlock` | what `Directory::createSoftLink` does to an i-node |
| `AppendBytes` | `File::appendBytes`, `fillLastBlock`, `appendOneBlock`, through `addBlockNumber` |
| `DeletePrecedingBytes` | `File::deletePrecedingBytes` |
| `SetLastBlockNumber` and its four cases | `Inodes::setLastBlockNumber` and the two setXxxIndirect it calls, part of the last two actions |

Bytes of data blocks are left out. An i-node stays an array of words, because
which fields share a word is one of the questions. `Next` lets any i-node in use
grow, link and go in any order, with three restrictions taken from the callers: the
root is not freed, only directories shrink, and never below their "." and ".."
entries. A number of bytes at a time is at most a block's worth, as in
`appendOneBlock` and the directory entries.

That the i-node is in use is a precondition the code states (inodes.cpp:337) and does not
test. The directory code does not always keep to it (see `refreed` below), so `Exclusive`
says nothing of an i-node freed twice. Where the precondition holds is a question to the
level above: `FreedInUse` in `Shell` is its answer, true of `CarefulSpec`.

When no block is free for an index or path block the code uses block 0 in its
place and overwrites the superblock with block numbers. The step is in the model;
afterwards (`starved`) the model stops, because what is then read as block numbers
is the superblock. The invariants say what holds until then.

### Directory and Shell: the name space

`Directory` has the methods of the class as operators from one i-node table to
the next, with a directory as the sequence of its entries in reading order; the
argument `atEnd` is the cursor a caller may have left at the end. `rmRecursion`,
`lsRecursion` and `pwd` are computed by following the recursion at most `NInodes`
deep; one that goes deeper has entered a directory twice and does not end.

`Shell` has `tab` (the table), `wd`, `atEnd` (the cursor of `wd`), `crashed` and the
history `refreed`, and one action for each command: `DoMakeFV` mkfs, `DoMkDir`, `DoRm` (rm, rmdir),
`DoCopyTo` (`cp @f n`), `DoCopy33` (`cp s d`), `DoMv`, `DoLn`, `DoLnS` (`ln -s`),
`DoLnPath` (`ln d/f`), `DoChDir`, `DoRmRecursion` (`rm -fr`), `DoInodeFile`,
`DoPwd`, `DoLsRecursion` (`ls -lR`). The last three change no file, but two of them
close the cursor, on which the next command depends, and two can die. A command is
one step, since the shell runs it to its end before it reads another. The shell
tells files from directories by a dot in the name, hence the constants `Plain` and
`Dotted`. The uninitialized `iNumber` of `doLnPath` is any i-node number of the table.

Before the first mkfs there is no volume (`wd = NoVolume`). `InvokeCmd` is what the
command table makes of each command then: refused when its row asks for a volume,
otherwise called, and every one that is called follows a NULL `wd` or `fv`.

Arguments are single names, and ".." for cd. Not enumerated: paths (`cd a/b`, a
sequence of the lookups modelled), "." and ".." as arguments of the other commands,
names long enough to be truncated. A full disk is in `Inodes` only; running out of
i-nodes is in both. So what is said of directories here holds while the disk has room: on a
full one `addLeafName` may write part of an entry, and index blocks go to block 0.

Blocks are not in the table, and need not be while each has one owner. `Inodes::setFree`
releases every block an i-node lists, does not ask whether the i-node is in use, and goes on
listing them. For an i-node in use nothing in a table changes but the bit. For one that was
freed before, through another of its names, the blocks may have gone to a directory or a file
in between: they get a second owner, and the next append writes over a directory's entries, "."
and ".." included. `cp @f a`, when a is one of two names, begins such a sequence, because
`write33file` frees whatever the link count is. As an invariant of `Spec`, `FreedInUse` is
violated: TLC's trace is mkfs, `cp @f a`, `ln a b`, `cp @f a` (frees i-node 2, which b still
names, and gets it back with count 0), `rm a`, `rm b` (frees it again). `Frees` therefore
notes in `refreed` each call for an i-node not in use, and from there on only mkfs is modelled.
The same holds (`Running`)
as soon as a `Directory` object can be got on an i-node that is free, or when `wd` or the root
is no directory any more: what the object reads is another file's. Nothing is claimed of the
program beyond these states; `FreedInUse` says that no careful command leads to the first.

`CarefulShell` answers: what must the one who types keep to, for the name space to
stay sound? It guards each command with a condition (`CarefulRm`, `CarefulMv`, ...),
and no part of one can be spared: with any conjunct of them left out TLC finds one of the
five invariants of the run careful_shell violated. `Spec` of `Shell` has no such conditions, and
the run on it shows what holds regardless, until an i-node is freed that is not in use.

### DirectoryEntries, DirectoryFile, FileCopy: the bytes of files

`FileBlocks` has what the three share: the number of blocks of a file, how many bytes
of a block belong to it (`File::readBlock`), how much the last block takes
(`File::fillLastBlock`).

`DirectoryFile` is a directory as its file has it. `dirf` is the `File` of each
`Directory` object on it, with `nBlocksSoFar`, `nBytesInFileBuf`, `xNextByte` and
`fileBuf` as in file.cpp; the volume's root and `wd` are two such objects. A step is one
turn of a loop:

| action | code |
|---|---|
| `Called` | a method is called; its lookup begins where the object's cursor is |
| `ReadName`, `ReadNumber` | `nextName` within `setDirEntry`: a byte of a name, a byte of its i-number |
| `INumberOfReturns` | `iNumberOf` |
| `AddLeafNameAppends`, `FillLastBlock`, `AppendOneBlock`, `AddLeafNameReturns` | `addLeafName` and `File::appendBytes` |
| `DeleteFileShifts`, `Shift`, `DeleteFileReturns` | `deleteFile` and `deletePrecedingBytes` |
| `NamesEnd` | `namesEnd` |

`DirectoryEntries` promises what the callers rely on: a lookup finds the first entry of
the name, an append goes to the end, a deletion takes out one entry, and a cursor left
at the end finds nothing. `Promised` maps the bytes to the entries `nextName` would read
in them; while a method runs the promised state is the one before the call, so each
method takes effect when it returns. Two conditions on `Called` are needed, each verified
by leaving it out: `NoneLeftBehind` (no other object's cursor stands at an end the new
entry moves away from it) and `DiskHasRoom` (otherwise part of an entry is appended).

`FileCopy` is the content of ordinary files: `Write33File`/`WriteBlockOf` (`cp @h f`),
`Copy33File`/`CopyBlock` (`cp s d`), `Read33File`/`ReadBackBlock` (`cp f @h`) and
`CopyReturns`. `AppendOneBlockTo` drops its bytes when no block is free, as the code
does. `wanted` and `damaged` are history: what a file ought to hold, and the files that
lost a block, or got a block of its own for a part smaller than a block before the end of
a stream. `FileCopy` has no `cp f f`, which empties f, and no host file whose read() fails
(a directory of the host does): write33file takes the -1 for a number of bytes. A block is written in one step: in
the code it is one call per sector, with nothing in between that looks.

`MCFiles` runs both: they share no variable, so a behaviour chooses one of them at its
beginning and `Implements` and the properties of `FileCopy` are checked by one run.

### Processes: pipes, redirection, `&`

| variable | code |
|---|---|
| `pc`, `task` | where the shell is in main and pipingFunction; the command a process runs, and how far |
| `fds` | the descriptor table of each process |
| `held` | `fd`, `saved_stdin`, `saved_stdout`, `file` of the shell |
| `line` | the line typed: its form and its commands |
| `pipe`, `file`, `offset` | the host: what is in the pipes, the redirection file and where it is written next |
| `free`, `table` | the disk: the free-bit vector of the i-nodes; the block of i-nodes two processes share |
| `handed`, `got` | history: how often a bit was handed out; what a filter has read |

`Typed` is the prompt; `Plain`, `Redirect`, `Background`, `Pipe` and `TwoPipes` are what
main does with the five forms of a line; `PipeReader`, `SecondChild` and `ThirdCommand`
are pipingFunction after each `wait`; `Return` is the way back to the prompt, `Exit` the
end of a child. A command prints (`Say`), passes on what it reads (`Pass`, a `!` filter),
and one that changes the disk runs `GetBit`, `ReadVector`, `WriteVector` (getFreeBit and
setBit), `GetInode`, `PutInode` (setEntry's cycle on the block of i-nodes). These stand
for every change a command makes: each is such a read and write of a whole block.

The descriptor tables follow the calls: `Lowest` is the descriptor the host gives to open,
dup and pipe; `PipeMade`, `Dup`, `Dup2`, `Close` are the calls; `Writer`, `Reader`,
`FirstOfThree`, `SecondOfThree` the sequences of them that each process makes. A read of
an empty pipe waits as long as any process has a write end (`AtEnd`), a write waits while
the pipe is full. Output is line buffered, as it is when the shell's stdout is a terminal;
a program that `system` runs and the process that waits for it are one. That covers
`!prog` alone and in pipes. A line `!prog &` is not covered: the text given to `system` keeps
its "&" (shell.cpp:1025-1026), so the host's shell puts the program in the background and
`system` returns at once, while the program runs on as nobody's child. `Background` is the
form without "!".

`CarefulProcesses` has the conditions under which all goes well, each needed for a
property of the run (without it TLC finds a violation): `NoSecondReader` and `FitsInPipe`
(`PromptReturns`), `KnownRedirected` (`DescriptorsRestored`), `NoOtherChange`
(`ChangesKept`). `FairSpec` has none of them.

Not enumerated: `>` together with `|` or `&`, which ReadMe.txt:60 rules out; a background
command that reads the terminal; lines for which the shell has no descriptor left
(`Needed`: each pipe and redirection leaves one or more open for good).

### MC modules

`MCInodes` and `MCShell` only give TLC the specifications and the symmetry of names:
names of one kind are interchangeable in every definition and property. `MCProcesses` lists
the lines that may be typed, `MCFiles` the names and host files.

## Runs

| run | cfg | result | shows |
|---|---|---|---|
| storage | MCInodes | pass, 55 thousand states | `TypeOK`, `Exclusive`, `Readable`, `SuperBlockIntact`, `ContentStable` |
| storage_deep | MCInodesDeep | pass, 21 thousand | the same of the block lists, through both leaves of the double indirect tree and past the capacity |
| careful_shell | MCShell | pass, 79 thousand | `UniqueNames`, `LinkCounts`, `DirectoryTree`, `NoCrash`, `FreedInUse` of `CarefulSpec` |
| any_shell | MCShellAll | pass, 132 thousand | `TypeOK`, `Headed` of `Spec` |
| processes | MCProcesses | pass, 83 thousand | `TypeOK`, `DescriptorsRestored`, `PipeDelivers`, `RedirectionDelivers`, `ChangesKept`, `PromptReturns` of `CarefulSpec` |
| files | MCFiles | pass, 203 thousand | `Implements`, `TypeOK` of `DirectoryFile`; `FilesOK`, `CopiesFaithful`, `RoundTrip` of `FileCopy` |
| two_pipes | MCProcessesTwo | violation of `TwoPipesReturn` | with two pipes a filter in the middle never ends, and the shell waits for it |
| set_free_leak | MCInodesSetFree | violation of `SetFreeReleasesAll` | index and path blocks are never released |
| trim_leak | MCInodesTrim | violation of `TrimFreesLastBlock` | a trimmed directory keeps its last block |
| height_three | MCInodesHeight3 | violation of `ContentStable` | count and single indirect block share a word when iHeight is 3 |
| mv_keeps_target | MCShellMv | violation of `MvReplaces` | mv onto a file leaves both entries and the old i-node |
| rm_fr_leaves | MCShellRmFr | violation of `RmRecursionDeletesAll` | rm -fr deletes the first entry of a directory only |

The properties:

* `Exclusive`: a block number stored for an i-node in use, past the end of its file
  or not, names a block of the file area that is not free and that no other place
  names. "Past the end or not" matters: trims leave numbers there and appends
  overwrite or reuse them.
* `Readable`: getBlockNumber finds a block for every position below the size, up to
  the capacity of the double indirect tree.
* `ContentStable`: no step moves or drops a block of a file that keeps it.
* `SuperBlockIntact`: block 0 is written by mkfs only.
* `UniqueNames`, `LinkCounts` (count + 1 names for a file, one for a directory, no
  name for a free i-node and no i-node without a name), `DirectoryTree` (".." names
  the directory that holds the entry, pwd reaches the root), `NoCrash`.
* `FreedInUse`: setFree was never called for an i-node that was not in use. Several commands
  on several names are needed to break it, and then two files share blocks.
* `Headed`: a directory in use begins with "." and "..", whatever was typed, as long as
  `FreedInUse` holds and the disk has room; what `TypeOK` of `Shell` says of the table
  is under the same condition.
* `Implements`: the bytes of a directory, read through any cursor and shifted over any
  block boundary, are the entries the name space is modelled with.
* `CopiesFaithful`, `RoundTrip`: a file holds what was copied into it and gives it back,
  and the number cp returns is its size, except in the files a block was dropped from.
  `FilesOK`: the files never have more blocks together than the disk.
* `PromptReturns`: whatever line was typed, of those `CarefulSpec` allows, the shell gets
  back to its prompt.
* `DescriptorsRestored`, `PipeDelivers`, `RedirectionDelivers`: at the prompt stdin and
  stdout are the terminal again and no end of the last pipe is open; what the first
  command printed has gone, whole and in order, to the second, or to the file.
* `ChangesKept`: no i-node is given to two commands, and no process writes an old copy of
  a block over another's change.

Every property of a passing run has a mutant in PROJECT.json: an operator beside the
true one with a plausible mistake, under which TLC finds the property violated.

Bounds. i-node height 7 is the least with all three indirect words, so one direct
block, then a single indirect block of `BNPB` = 2, then a double indirect tree of
2 x 2: every boundary of the block list is within 7 blocks, and the deep run has 12.
`BSZ` = 2 gives files with and without a fragment. D1's height 3 is the run
height_three, D2's 8 has the same layout with one direct block more. Seven blocks
and three i-nodes make the disk run full in every way: mid-append, on an index block,
on a path block. `LinkCounts = {1}` writes one value; the code never reads the count
in this component. For the shell, five i-nodes are the root, three to tie into
chains, links or cycles, and i-node 0; `MaxEntries` and `MaxCount` bound the length
of a directory for commands that add, and the count for `ln`. Without them the same
directory would only grow. any_shell has two file names and links, so that a file can have
two names and go by one of them, and a directory name.

For the bytes, blocks of `BSZ` = 3 and entries of three and four bytes make entries begin
and end at every place of a block, in a directory of up to five blocks with two names
besides the dots; host files end within a block, at its end and after two blocks;
three blocks for two files make the disk run full in the middle of a copy. One name ends
as another does, so that a cursor in the middle of an entry would be noticed. For the
processes, one background child, a pipe of two lines and outputs of one, two and three
lines are below, at and above its capacity; nine descriptors allow several lines before
they are used up; two bits let a command find a bit, the next bit, or none.

`CHECK_DEADLOCK FALSE` is set for `Inodes`, which stops when starved, and for the run
two_pipes, in which the shell really waits for ever: its property is about that.

Fairness. `Fairness` of `Processes` is weak fairness of the shell's steps and of each
child's: the host's scheduler runs every process that can run, and nothing here depends on
more, since no two processes wait for the same resource in turn. Typing is not fair:
nobody need type a line. The other modules have safety properties only and assume none.

## Proofs

`InodesProofs` is from `SizesAssumption` (sizes are naturals; two blocks of file area at least;
height 3 at least), for every value of the constants.

* `TypeCorrect`: `Spec => []TypeOK`. `TypeOK` is inductive. The steps
  that are not obvious: a trim never takes the size below zero, and the index a
  block number is stored at stays within the i-node or the index block.
* `ExclusiveHolds`: `Spec => []Exclusive` when `IHeight >= 6`. TLC
  shows the condition is needed: at heights 3 and 4 the initial state breaks it, at 5
  a later one does, because the type or count lies where an indirect block's number is.
  `Exclusive` alone is not inductive: a step could hand out a block below the file
  area, or build on an index block that is not there. The invariant is
  `IInv == TypeOK /\ (~starved => Sound)` with `Sound == Disjoint /\ FreeInArea /\ Rooted`:
  `Disjoint` is what `Exclusive` says; `FreeInArea` keeps the free blocks in the file
  area; `Rooted` says which index blocks exist at which size. A slot is a place where
  a block number can be stored. The lemmas `Preserved...` say that
  a step which leaves all slots but the written one alone, and takes the block it
  writes from the free ones, keeps `Disjoint`; each case of setLastBlockNumber is one
  application of them (`DirectSound`, `SingleSound`, `DoubleSound`, `BeyondSound`).
* `SuperBlockKept`: `Spec => []SuperBlockIntact` when `IHeight >= 6`: by `IInv` every index
  block written is in the file area, which begins above block 0.

* `FilesReadable`, `ContentsStay`: `Spec => []Readable` and
  `Spec => ContentStable` when `IHeight >= 6`. `Readable` follows from `Rooted`, which has
  an entry in every slot below the size: `Mapped` computes the slot `Place` of a position,
  directly, through one index block or through two. `ContentStable` is about steps: each of the
  `...Sound` lemmas above also shows `Settles`, that the slots below the old size keep
  their numbers, and index blocks are never replaced while they are in use; a position has
  the same `Place` before and after, so the same block.

`LeastElement` and `FreeBitFound` derive what the CHOOSE in `FreeBit` picks.

`ProcessesProofs`, from `ProcessesAssumption` and `LineAssumption`:

* `ChangesAreKept`: `CarefulSpec => []ChangesKept`, for any number of background children
  and i-nodes, any descriptors, pipes and lines. The invariant is `Scheduled` (which
  processes can be running at each place of the shell), `NoneBefore` (no process changes
  the disk when a line that will is about to be carried out) and `DiskKept`:
  at most one task changes the disk (`OneChange`), its buffer is what is on the
  disk (`Current`), and `handed` and `table` follow the bits up to the step it is at. The
  heart is `OneChange`: a line with a change is typed only when no child changes, and
  within a line a command starts only when the one before has been waited for.

`ProcessesDescriptors` adds, with `DInv` and the invariant above:

* `ProcessesTyped`: `CarefulSpec => []TypeOK`; `PromptHasTerminal`, `PipesDeliver`,
  `RedirectionsDeliver`: `CarefulSpec =>` always `DescriptorsRestored`, `PipeDelivers`,
  `RedirectionDelivers`, for any number of descriptors, children, lines of output and any
  capacity of a pipe. All three speak of the prompt only, so the invariant says how far a
  line is. `Tidy`: the table the shell will have when `Restored` has put descriptors 0 and 1
  back is clean all along, whatever the present one is. `Holding`, `Lined`: who has which end of which
  pipe at each place of `pc`, which rests on `Lowest` giving unused descriptors while
  there are enough (`Needed`). `Tabled`: a child never has an end or a file but of its own
  line, so nothing else writes to it. `Flow`, `Filling`, `Reading`: what the filter has got,
  followed by what is in the pipe, is 1, 2, ... up to the line the first command is at; the
  same of the redirection file up to `offset`. `Delivered` is what is left of that at the prompt.

`ShellProofs`, from `NamesAssumption` and `BoundsAssumption`, for any number of i-nodes, names,
entries and links:

* `ShellTyped`, `DirectoriesHeaded`: `Spec => []TypeOK`, `Spec => []Headed`, whatever is typed,
  until setFree is called for an i-node not in use and while the disk has room.
  The invariant is `Good(tab)`, the table is typed and directories in use begin as they should,
  with the types of the other variables. For each method of `Directory` a lemma
  (`AddLeafNameKeeps`, `DeleteFileKeeps`, `CreateNewFileKeeps`, ... `RmRecursionKeeps`) says that
  from a good table it makes a good one, and each command is a few of them in a row. What they
  rest on: an entry is added at the end only (`Appending`); the one taken out has a name that
  can be typed, so is not "." or ".." (`Removing`); and an i-node becomes a directory only when
  it was zeroed and both are put into it (`MakeDirectoryIs`).
* `NamesUnique`: `CarefulSpec => []UniqueNames`. With `Good(tab)`, that no directory has a name
  twice is inductive. Lookups from the head make it so for all commands but mv, which appends
  where it does not look; there the deletion before it has taken the only entry of that name
  (`PutIntoKeeps`), or `CarefulMv` says it is not there (`RenamedKeeps`). No other condition of
  `CarefulSpec` is used: the proof shows `CarefulMv` is the one this property needs.

`ShellTree` builds on it, from the same assumptions:

* `LinksRight`, `DirectoriesATree`, `ShellSurvives`, `FreesInUse`: `CarefulSpec => []LinkCounts`,
  `CarefulSpec => []DirectoryTree`, `CarefulSpec => []NoCrash`, `CarefulSpec => []FreedInUse`. Positions in a directory move
  with every deletion, so the proofs are about `Named(t)`, the set of the links of a table:
  triples of a directory, a name and an i-node, which is all a sequence of entries with
  unique names says. The first three are not inductive, alone or together: that pwd returns
  from every directory does not say why the way up is no longer than it can follow. The
  invariant `Tree` adds the reason: the directories have a rank, one more than that of the
  directory their ".." names. By `RankBound` no rank reaches the number of i-nodes (the
  ranks met on the way up are pairwise different i-nodes), so pwd, rm -fr and ls -lR end
  (`PwdEnds`, `DescentEnds`, `ListingEnds`). The other parts: the root has no name, only directories in use hold
  names, a soft link has one, `Counted` is `LinkCounts` of the links. A command then is one of three changes of
  the set of links: those of one i-node that is no directory are changed with its count (`TreeRelinked`: ln, mv,
  rm of one of several), an i-node and its one link come (`TreeGrown`: mkdir, cp, ln -s), or
  i-nodes go with all their links (`TreePruned`: rm, rmdir, rm -fr). `TreeCreated` to `TreeRmRecursion` show that
  the methods make these changes, `RmSafe`, `MvSafe`, ... that the commands call them where they may:
  here each condition of `CarefulSpec` is used. `LinksCounted` goes back from links to entries.
  `FreesInUse` comes with them: by `FoundTaken` what a lookup finds is in use (`Tree` has no name for
  a free i-node), so each setFree of a careful command is for an i-node in use (`FreesSafe`,
  `FreeingSafe`). With it `ShellTyped` and `DirectoriesHeaded` lose their first condition
  under `CarefulSpec`.

`FileBlocksProofs` has what the next two rest on. The arithmetic of a block size that is a
variable (`Division` to `OneBlockMore`). And what a recursive function is: the
definition of one only says CHOOSE, which is worth something once such a function is shown to
exist. The library's induction theorems take an operator, which the installed provers cannot
instantiate; so `LeastElement`, the least of a set of naturals, is derived from `<` being well
founded, from it `SetInduction` and `SubsetInduction`, induction with a set in place of the
predicate, and from those `RecursionExists`, for a recursion that
comes closer to its end with every call, and `SumExists`, for one that takes elements out of a finite set.

`FileCopyProofs`, from `BlockSizeAssumption` and `FileCopyAssumption`:

* `CopiesAreFaithful`: `CopySpec => []CopiesFaithful` and `RoundTrips`:
  `CopySpec => []RoundTrip`, for blocks and disks of every size, all host files, any number
  of files. Between the commands the properties say all; in the middle of one the
  invariant says how far it is (`Writing`, `Copying`, `Reading`): the target holds the first
  `UpTo(i, size)` bytes of its source, i blocks or all. If there is more to read that is a
  multiple of the block size, so the next block fits behind it (`AppendBlockKeeps`). What
  getFreeBlock answers does not matter: a block dropped makes the file `damaged`.
* `DiskNeverOverfull`: `CopySpec => []FilesOK`, for finitely many files. `Used` adds up the blocks of all files by
  recursion over the set of them; `SumTyped` says it is a sum and `SumChanged` that changing one file
  changes it by as much. Then every step is about one file: emptied it uses no more, filled up
  to the end of its last block as much, and one block more only when one is free.

`DirectoryFileProofs`, from `BlockSizeAssumption` and `DirectoryFileAssumption` (names are non-empty
sequences of bytes other than 0; i-numbers fit a byte; the first two entries fit the disk):

* `DirectoryImplements`: `Spec => Implements`, the refinement of `DirectoryEntries` by the bytes, and
  `DirectoryTyped`: `Spec => []TypeOK`; for blocks, entries and disks of every size, any number of
  objects on the directory, and their cursors anywhere a call can leave them. The argument has three layers.
  - Bytes and entries. `Laid(c, es, off)`: the bytes c are the entries es, one after the other, entry
    k behind the first `off[k]` bytes. Bytes so laid are read back as these entries (`ReadBack`, by induction from
    the last to the first; `ReaderExists` says the recursion in `Entries` is a function),
    appending an entry's bytes appends the entry (`LaidAppended`), and taking out the bytes of
    one takes out the entry (`LaidRemoved`).
  - The cursor. `ReadsAt(f, p, c)`: the next byte the `File` f gives is byte p + 1 of c, in its
    buffer or in the block it will read next. `ReadsOn` says `getNextByte` goes on by one,
    `ReadToEnd` and `NothingAtEnd` that at the end it stays there.
  - The steps. `DInv` says how far a call is. `LookupInv`: the cursor is at a known byte of the name or
    the number of entry k, and no entry before k has the name that is looked for. `WriteInv`: what is in the file
    followed by what is left to append is the old directory and the new entry. `ShiftInv`:
    the blocks before the one being written, and the buffer of deletePrecedingBytes, hold the
    directory without the entry; the blocks the cursor has not read yet hold the old one. That the two do not
    meet is the heart: the block written is one the cursor has in its buffer or has left
    (`ReadBelow`). `OnCall`: the other objects' cursors are closed, or at an end that stays theirs, which
    is what `NoneLeftBehind` is for; `DiskHasRoom` keeps `AppendOneBlock` from dropping a part.
  One lemma for each action (`ReadNameStep` to `DeleteFileStep`) shows that it keeps `DInv` and that the
  promised state does not change before the method returns and then changes as promised.

Every invariant, action property and refinement that a passing run checks is stated by a theorem. Only
model-checked is the liveness property, `PromptReturns`, which is out of this prover's reach,
as ENABLED is.

## Not modelled, and what could follow

Left out: `SimDisk` (host file system calls; that an access past the end is dropped is in
`WriteWord`; that it fails in silence once the shell has no descriptor left is a hazard
without a property), mounts and `FileVolume::move` (TODO stubs), tokenising and printing,
the end of the shell's input, `user.cpp`, and opening an existing volume, for which no
command exists. That is why a crash between two disk accesses is not modelled: the program
never reads again what it left on disk.

What could follow: commands of `Shell` in two processes at once, on the entries of one
directory; `DirectoryFile` on a disk that gets full in the middle of an entry, with what the lookups after that find.
