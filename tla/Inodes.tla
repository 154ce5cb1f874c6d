------------------------------- MODULE Inodes -------------------------------
(***************************************************************************)
(* The storage core of a file volume: the two free-bit vectors             *)
(* (bitvector.cpp), the i-node table and its direct, single-indirect and   *)
(* double-indirect block lists (inodes.cpp), getFreeBlock (volume.cpp) and *)
(* the two methods of File that grow and shrink a file (file.cpp).         *)
(*                                                                         *)
(* An i-node is kept as the code keeps it, an array of iHeight words, so   *)
(* that two fields which share a word share it here too.  Only the words   *)
(* of blocks used as index blocks are modelled; the bytes of data blocks   *)
(* are File's business.  All the methods run to completion in one process, *)
(* so each is one step.                                                    *)
(***************************************************************************)
EXTENDS Naturals

CONSTANTS
    NTotalBlocks,      \* superBlock.nTotalBlocks
    NBlockBeginFiles,  \* superBlock.nBlockBeginFiles, first block of the file area
    NInodes,           \* superBlock.nInodes
    IHeight,           \* superBlock.iHeight, words in an i-node
    BNPB,              \* block numbers per index block
    BSZ,               \* superBlock.nBytesPerBlock, in the unit files grow by
    LinkCounts         \* the values setCount is called with

ASSUME SizesAssumption ==
    /\ NTotalBlocks \in Nat /\ NBlockBeginFiles \in Nat /\ NInodes \in Nat
    /\ IHeight \in Nat /\ BNPB \in Nat /\ BSZ \in Nat
    /\ 1 <= NBlockBeginFiles /\ NBlockBeginFiles + 2 <= NTotalBlocks
    /\ 2 <= NInodes /\ 3 <= IHeight /\ 1 <= BNPB /\ 1 <= BSZ
    /\ LinkCounts \subseteq Nat

VARIABLES
    fbvBlocks,   \* the free blocks: {x : bit x of the vector is 1}
    fbvInodes,   \* the free i-nodes
    inode,       \* the words of every i-node
    block,       \* the words of every block, when it is an index block
    starved      \* history: an index or path block was wanted and none was free

vars == <<fbvBlocks, fbvInodes, inode, block, starved>>
-----------------------------------------------------------------------------
Blocks == 0 .. NTotalBlocks - 1
Bits == 0 .. NTotalBlocks
InodeNumbers == 0 .. NInodes - 1
Words == 0 .. BNPB - 1
Entries == 0 .. IHeight - 1
Root == 1

xCount == IHeight - 3
xType == IHeight - 2
xFileSize == IHeight - 1
xPath == 0

\* "." and ".." are at the head of every directory and are never deleted.
DotsSize == 1

iTypeOrdinary == 1
iTypeDirectory == 2
iTypeSoftLink == 3

\* Inodes::create: how many words of the i-node are kept for indirect blocks.
IIndirect == CASE IHeight > 6 -> 3
               [] IHeight = 6 -> 2
               [] IHeight = 5 -> 1
               [] OTHER -> 0
IDirect == IHeight - 3 - IIndirect
IIndirectOne == IDirect + BNPB
IIndirectTwo == IIndirectOne + BNPB * BNPB

ZeroInode == [x \in Entries |-> 0]
ZeroBlock == [w \in Words |-> 0]
SuperBlock == [w \in Words |-> IF w = 0 THEN NTotalBlocks ELSE BSZ]
\* The text of a path, as words: all that matters is that it is not the superblock.
PathText == [w \in Words |-> NTotalBlocks + BSZ + 1]

\* BitVector::getFreeBit on a vector of n bits: the lowest set bit above 0, or 0 ...
FreeBit(free, n) ==
    IF free \cap (1 .. n - 1) = {} THEN 0
    ELSE CHOOSE x \in free \cap (1 .. n - 1) : \A y \in free \cap (1 .. n - 1) : x <= y

\* ... whose bit it clears.  A mistake to guard against: the bit left set.
TakenNot(free, x) == free
Taken(free, x) == free \ {x}

\* BitVector::setBit(x, 1) for each x of a set: x > nBits is refused, nBits is not.
Released(free, xs) == free \cup (xs \cap Bits)

\* FileVolume::getFreeBlock zeroes the block it hands out.
ZeroedBlock(blk, b) == IF b = 0 THEN blk ELSE [blk EXCEPT ![b] = ZeroBlock]

\* Read a block, set one word, write it back; SimDisk drops a write past the end.
WriteWord(blk, b, w, v) ==
    IF b \in Blocks THEN [blk EXCEPT ![b] = [@ EXCEPT ![w] = v]] ELSE blk

InUse(i) == i # 0 /\ i \notin fbvInodes
Size(i) == inode[i][xFileSize]
Type(i) == inode[i][xType]
Count(i) == inode[i][xCount]
\* Inodes::getInode: the number of blocks of file i.
NBlocks(i) == (Size(i) + BSZ - 1) \div BSZ

\* Inodes::getBlockNumberDoubleIndirect: entry k of the tree of file i.  A
\* mistake to guard against: the two indices swapped.
DoubleEntrySwapped(i, k) == block[block[inode[i][IDirect + 1]][k % BNPB]][k \div BNPB]
DoubleEntry(i, k) == block[block[inode[i][IDirect + 1]][k \div BNPB]][k % BNPB]

\* Inodes::getBlockNumber; the triple indirect block is a TODO that yields 0.
BlockNumber(i, nth) ==
    CASE nth >= NBlocks(i) -> 0
      [] nth < NBlocks(i) /\ nth < IDirect -> inode[i][nth]
      [] nth < NBlocks(i) /\ IDirect <= nth /\ nth < IIndirectOne ->
            block[inode[i][IDirect]][nth - IDirect]
      [] nth < NBlocks(i) /\ IIndirectOne <= nth /\ nth < IIndirectTwo ->
            DoubleEntry(i, nth - IIndirectOne)
      [] nth < NBlocks(i) /\ IIndirectTwo <= nth -> 0
-----------------------------------------------------------------------------
(* The volume mkfs leaves: block 0 is the superblock, i-node 1 is the root *)
(* directory with "." and ".." in its first block.                         *)
RootInode ==
    LET first == IF IDirect > 0 THEN NBlockBeginFiles ELSE NBlockBeginFiles + 1
    IN  [ZeroInode EXCEPT ![0] = first, ![xType] = iTypeDirectory, ![xFileSize] = DotsSize]

Init ==
    /\ fbvBlocks = NBlockBeginFiles + (IF IDirect > 0 THEN 1 ELSE 2) .. NTotalBlocks - 1
    /\ fbvInodes = InodeNumbers \ {0, Root}
    /\ inode = [i \in InodeNumbers |-> IF i = Root THEN RootInode ELSE ZeroInode]
    /\ block = [b \in Blocks |->
                  IF b = 0 THEN SuperBlock
                  ELSE IF b = NBlockBeginFiles + 1 /\ IDirect = 0
                       THEN [ZeroBlock EXCEPT ![0] = NBlockBeginFiles]
                       ELSE ZeroBlock]
    /\ starved = FALSE

(* Inodes::getFree *)
GetFree ==
    LET in == FreeBit(fbvInodes, NInodes)
    IN  /\ in # 0
        /\ fbvInodes' = Taken(fbvInodes, in)
        /\ inode' = [inode EXCEPT ![in] = ZeroInode]
        /\ UNCHANGED <<fbvBlocks, block, starved>>

(* Inodes::setType: createFile and the Directory constructor type a new    *)
(* i-node; createHardLink makes whatever it links ordinary.                *)
SetType(i, tp) ==
    /\ InUse(i)
    /\ tp = iTypeOrdinary \/ (tp = iTypeDirectory /\ Type(i) = 0)
    /\ inode' = [inode EXCEPT ![i][xType] = tp]
    /\ UNCHANGED <<fbvBlocks, fbvInodes, block, starved>>

(* Inodes::setCount *)
SetCount(i, c) ==
    /\ InUse(i)
    /\ inode' = [inode EXCEPT ![i][xCount] = c]
    /\ UNCHANGED <<fbvBlocks, fbvInodes, block, starved>>

(* Directory::createSoftLink once the i-node is allocated: type, count and *)
(* setPathBlock.  A link to a directory has been given a block for "." and *)
(* ".." already, whose number the path block's then replaces.  With no     *)
(* block left the path is written over block 0.                            *)
SetPathBlock(i) ==
    LET bn == FreeBit(fbvBlocks, NTotalBlocks)
    IN  /\ InUse(i)
        /\ Type(i) = 0 \/ (Type(i) = iTypeDirectory /\ NBlocks(i) = 1)
        /\ inode' = [inode EXCEPT ![i] =
                       [@ EXCEPT ![xType] = iTypeSoftLink, ![xCount] = 0, ![xPath] = bn]]
        /\ fbvBlocks' = Taken(fbvBlocks, bn)
        /\ block' = IF bn = 0 THEN [block EXCEPT ![0] = PathText] ELSE block
        /\ starved' = (starved \/ bn = 0)
        /\ UNCHANGED fbvInodes
-----------------------------------------------------------------------------
(* Inodes::setLastBlockNumber writes bn at position nu = NBlocks(i) of the *)
(* block list, one past the last block.  "free" is the bit vector when it  *)
(* is called, sz the size its caller stores after it.                      *)
SetDirect(i, nu, bn, free, sz) ==
    /\ fbvBlocks' = IF bn = 0 THEN Released(free, {inode[i][nu]}) ELSE free
    /\ inode' = [inode EXCEPT ![i] = [@ EXCEPT ![nu] = bn, ![xFileSize] = sz]]
    /\ UNCHANGED <<fbvInodes, block, starved>>

\* The single index block is allocated for entry 0, whoever asks; the root of
\* the double indirect tree and its entries when they are 0.  Mistakes to
\* guard against: one entry late, and for every block.
WantsSingleLate(nu) == nu = 1
WantsSingleAlways(nu) == TRUE
WantsSingle(nu) == nu = 0
WantsIndexAlways(entry) == TRUE
WantsIndex(entry) == entry = 0

SetSingleIndirect(i, nu, bn, free, sz) ==
    LET single == IF WantsSingle(nu) THEN FreeBit(free, NTotalBlocks) ELSE inode[i][IDirect]
        fresh == IF WantsSingle(nu) THEN ZeroedBlock(block, single) ELSE block
    IN  /\ fbvBlocks' = IF WantsSingle(nu) THEN Taken(free, single) ELSE free
        /\ inode' = [inode EXCEPT ![i] = [@ EXCEPT ![IDirect] = single, ![xFileSize] = sz]]
        /\ block' = WriteWord(fresh, single, nu, bn)
        /\ starved' = (starved \/ (WantsSingle(nu) /\ single = 0))
        /\ UNCHANGED fbvInodes

SetDoubleIndirect(i, nu, bn, free, sz) ==
    LET first == nu \div BNPB
        root == inode[i][IDirect + 1]
        duble == IF root = 0 THEN FreeBit(free, NTotalBlocks) ELSE root
        free1 == IF root = 0 THEN Taken(free, duble) ELSE free
        block1 == IF root = 0 THEN ZeroedBlock(block, duble) ELSE block
        entry == block1[duble][first]
        leaf == IF WantsIndex(entry) THEN FreeBit(free1, NTotalBlocks) ELSE entry
        block2 == IF WantsIndex(entry)
                  THEN WriteWord(ZeroedBlock(block1, leaf), duble, first, leaf)
                  ELSE block1
    IN  /\ fbvBlocks' = IF WantsIndex(entry) THEN Taken(free1, leaf) ELSE free1
        /\ inode' = [inode EXCEPT ![i] = [@ EXCEPT ![IDirect + 1] = duble, ![xFileSize] = sz]]
        /\ block' = WriteWord(block2, leaf, nu % BNPB, bn)
        /\ starved' = (starved \/ duble = 0 \/ leaf = 0)
        /\ UNCHANGED fbvInodes

\* setTripleIndirect is a TODO: bn is dropped.
BeyondCapacity(i, free, sz) ==
    /\ fbvBlocks' = free
    /\ inode' = [inode EXCEPT ![i][xFileSize] = sz]
    /\ UNCHANGED <<fbvInodes, block, starved>>

SetLastBlockNumber(i, bn, free, sz) ==
    LET nu == NBlocks(i)
    IN  \/ nu < IDirect /\ SetDirect(i, nu, bn, free, sz)
        \/ IDirect <= nu /\ nu < IIndirectOne
             /\ SetSingleIndirect(i, nu - IDirect, bn, free, sz)
        \/ IIndirectOne <= nu /\ nu < IIndirectTwo
             /\ SetDoubleIndirect(i, nu - IIndirectOne, bn, free, sz)
        \/ IIndirectTwo <= nu /\ BeyondCapacity(i, free, sz)

(* File::fillLastBlock: how many of n bytes fit in the last block.  A      *)
(* mistake to guard against: a full last block taken for an empty one.     *)
FillWhole(i, n) ==
    LET room == BSZ - (Size(i) % BSZ)
    IN  IF room > n THEN n ELSE room

Fill(i, n) ==
    LET frag == Size(i) % BSZ
        room == IF frag = 0 THEN 0 ELSE BSZ - frag
    IN  IF room > n THEN n ELSE room

(* File::appendBytes and appendOneBlock: fill the last block, then append  *)
(* one block with the rest; with no free block the rest is dropped.        *)
AppendBytes(i, n) ==
    LET fill == Fill(i, n)
        bn == FreeBit(fbvBlocks, NTotalBlocks)
    IN  /\ InUse(i)
        /\ Type(i) \in {iTypeOrdinary, iTypeDirectory}
        /\ \/ /\ n = fill \/ bn = 0
              /\ inode' = [inode EXCEPT ![i][xFileSize] = @ + fill]
              /\ UNCHANGED <<fbvBlocks, fbvInodes, block, starved>>
           \/ /\ n # fill /\ bn # 0
              /\ SetLastBlockNumber(i, bn, Taken(fbvBlocks, bn), Size(i) + n)

\* The entry deleted is one of the directory's, and not "." or "..".  A
\* mistake to guard against: more bytes deleted than precede the cursor.
DeletableAlways(i, n) == TRUE
Deletable(i, n) == n + DotsSize <= Size(i)

(* File::deletePrecedingBytes, as Directory::deleteFile calls it; position *)
(* nu of the block list is cleared only when n is the fragment's size.     *)
DeletePrecedingBytes(i, n) ==
    /\ InUse(i)
    /\ Type(i) = iTypeDirectory
    /\ Deletable(i, n)
    /\ \/ /\ Size(i) % BSZ # n
          /\ inode' = [inode EXCEPT ![i][xFileSize] = @ - n]
          /\ UNCHANGED <<fbvBlocks, fbvInodes, block, starved>>
       \/ /\ Size(i) % BSZ = n
          /\ SetLastBlockNumber(i, 0, fbvBlocks, Size(i) - n)

(* Inodes::setFree: the blocks getBlockNumber lists, and the i-node's bit. *)
(* That i is in use is the precondition at inodes.cpp:337, which the code  *)
(* leaves to the callers: FreedInUse of Shell says when they keep to it.   *)
SetFree(i) ==
    /\ InUse(i)
    /\ fbvBlocks' = Released(fbvBlocks, {BlockNumber(i, k) : k \in 0 .. NBlocks(i) - 1})
    /\ fbvInodes' = fbvInodes \cup {i}
    /\ UNCHANGED <<inode, block, starved>>

(* The model stops once a pointer has been written to block 0: from there  *)
(* on the program reads the superblock's words as block numbers.           *)
Next ==
    /\ ~starved
    /\ \/ GetFree
       \/ \E i \in InodeNumbers \ {Root} :
             \/ \E tp \in {iTypeOrdinary, iTypeDirectory} : SetType(i, tp)
             \/ \E c \in LinkCounts : SetCount(i, c)
             \/ SetPathBlock(i)
             \/ SetFree(i)
       \/ \E i \in InodeNumbers, n \in 1 .. BSZ :
             \/ AppendBytes(i, n)
             \/ DeletePrecedingBytes(i, n)

Spec == Init /\ [][Next]_vars
-----------------------------------------------------------------------------
(* The volume's state is well typed: bits are bits of the vectors, words   *)
(* are naturals (a size that went below zero, a uint wrapped round, is     *)
(* not).                                                                   *)
TypeOK ==
    /\ fbvBlocks \subseteq Bits
    /\ fbvInodes \subseteq InodeNumbers
    /\ inode \in [InodeNumbers -> [Entries -> Nat]]
    /\ block \in [Blocks -> [Words -> Nat]]
    /\ starved \in BOOLEAN

(* Where a block number can be stored: a word of an i-node, of its single  *)
(* indirect block, of the root of its double indirect tree, of a leaf.     *)
Slots ==
    ({"inode"} \X InodeNumbers \X (0 .. IDirect + 1) \X {0})
      \cup ({"single", "double"} \X InodeNumbers \X Words \X {0})
      \cup ({"leaf"} \X InodeNumbers \X Words \X Words)

Word(b, w) == IF b = 0 THEN 0 ELSE block[b][w]

\* The block number in a slot; the slots of a free i-node hold none.
Pointer(s) ==
    LET i == s[2]
    IN  CASE ~InUse(i) -> 0
          [] InUse(i) /\ s[1] = "inode" -> inode[i][s[3]]
          [] InUse(i) /\ s[1] = "single" -> Word(inode[i][IDirect], s[3])
          [] InUse(i) /\ s[1] = "double" -> Word(inode[i][IDirect + 1], s[3])
          [] InUse(i) /\ s[1] = "leaf" -> Word(Word(inode[i][IDirect + 1], s[3]), s[4])

(* Every block has one holder: a block number stored for an i-node in use, *)
(* past the end of its file or not, is a block of the file area that is    *)
(* not free and that no other slot of any i-node in use names.  It is what *)
(* getFreeBlock, the three setXxx methods and setFree must agree on.       *)
Exclusive ==
    ~starved =>
      \A s \in Slots : Pointer(s) # 0 =>
        /\ Pointer(s) \in NBlockBeginFiles .. NTotalBlocks - 1
        /\ Pointer(s) \notin fbvBlocks
        /\ \A t \in Slots : Pointer(t) = Pointer(s) => t = s

(* Every block of a file can be read back: getBlockNumber finds, for each  *)
(* position the file's size covers up to the capacity of the double        *)
(* indirect tree, the block that setLastBlockNumber stored for it, which   *)
(* is a block of the file area that is not free.                           *)
Readable ==
    ~starved =>
      \A i \in InodeNumbers :
        InUse(i) /\ Type(i) \in {iTypeOrdinary, iTypeDirectory} =>
          \A k \in 0 .. NBlocks(i) - 1 : k < IIndirectTwo =>
            BlockNumber(i, k) \in (NBlockBeginFiles .. NTotalBlocks - 1) \ fbvBlocks

(* The superblock is written by mkfs only: as long as no index block was   *)
(* wanted in vain, no append, trim or link stores anything in block 0, so  *)
(* FileVolume::isOK still holds when the volume is opened again.           *)
SuperBlockIntact == ~starved => block[0] = SuperBlock

(* What a step that moves no block of a file leaves alone. *)
BlocksStay ==
    ~starved' =>
      \A i \in InodeNumbers :
        (InUse(i) /\ InUse(i)' /\ Type(i)' \in {iTypeOrdinary, iTypeDirectory}) =>
          \A k \in 0 .. NBlocks(i) - 1 :
            (k < NBlocks(i)' /\ k < IIndirectTwo) => BlockNumber(i, k)' = BlockNumber(i, k)

(* A file's blocks stay where they are: no operation on any i-node moves   *)
(* or drops a block of an ordinary file or directory that is in use before *)
(* and after it and that still covers the block's position.                *)
ContentStable == [][BlocksStay]_vars
-----------------------------------------------------------------------------
(* What the comments promise and the code does not do.                     *)

\* The blocks named by the slots of i-node i.
HeldBy(i) == {Pointer(s) : s \in {t \in Slots : t[2] = i}} \ {0}

(* inodes.cpp:337: setFree releases "all the blocks of file associated     *)
(* with inode in": what the i-node held is free afterwards.  The index     *)
(* blocks, a path block and blocks past the end of the file are not.       *)
SetFreeReleasesAll ==
    [][\A i \in InodeNumbers : SetFree(i) => HeldBy(i) \subseteq fbvBlocks']_vars

(* file.cpp:150: when a directory gets a block shorter deletePrecedingBytes*)
(* is to "free last block".  It is not asked to when the fragment is       *)
(* smaller than n, and it clears the position after the last otherwise.    *)
TrimFreesLastBlock ==
    [][\A i \in InodeNumbers :
        (InUse(i) /\ InUse(i)' /\ NBlocks(i)' = NBlocks(i) - 1) =>
          BlockNumber(i, NBlocks(i) - 1) \in fbvBlocks']_vars
=============================================================================
