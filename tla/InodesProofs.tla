---------------------------- MODULE InodesProofs ----------------------------
(***************************************************************************)
(* Proofs about the storage core for every size of volume, of block and,   *)
(* where a theorem does not say otherwise, of i-node.                      *)
(*                                                                         *)
(* Three parts: the words are well typed; every block has one holder, for  *)
(* i-nodes whose count does not share a word with an indirect block        *)
(* (IHeight >= 6); every block of a file can be read back and stays where  *)
(* it is.  The last rests on Settles, which the second proves of every     *)
(* step: the slots of a file's positions keep their blocks, and a position *)
(* gained is given one.                                                    *)
(***************************************************************************)
EXTENDS Inodes, WellFoundedInduction, TLAPS

(* A non-empty set of naturals has a least element. *)
LEMMA LeastElement ==
    ASSUME NEW S \in SUBSET Nat, S # {}
    PROVE  \E x \in S : \A y \in S : x <= y
<1>1. PICK x \in S : \A y \in S : <<y, x>> \notin OpToRel(<, Nat)
  BY NatLessThanWellFounded, WFMin
<1>2. \A y \in S : ~(y < x)
  BY <1>1 DEF OpToRel
<1> QED
  BY <1>2

(* What BitVector::getFreeBit returns: 0, or a free bit above 0 and below n. *)
LEMMA FreeBitFound ==
    ASSUME NEW free, NEW n \in Nat
    PROVE  FreeBit(free, n) = 0 \/ FreeBit(free, n) \in free \cap (1 .. n - 1)
<1> DEFINE S == free \cap (1 .. n - 1)
<1>1. CASE S = {}
  BY <1>1 DEF FreeBit
<1>2. CASE S # {}
  <2>1. S \in SUBSET Nat
    OBVIOUS
  <2>2. \E x \in S : \A y \in S : x <= y
    BY <1>2, <2>1, LeastElement
  <2> QED
    BY <2>2, <1>2, Zenon DEF FreeBit
<1> QED
  BY <1>1, <1>2

(* The words of an i-node that hold a count, a type or a size are not those
   that hold block numbers. *)
LEMMA Layout ==
    /\ IDirect \in Nat /\ IIndirect \in 0 .. 3
    /\ IDirect + IIndirect = xCount
    /\ IDirect \in Entries /\ IDirect + 1 \in Entries
    /\ xCount \in Entries /\ xType \in Entries /\ xFileSize \in Entries /\ xPath \in Entries
BY SizesAssumption DEF IDirect, IIndirect, xCount, xType, xFileSize, xPath, Entries
-----------------------------------------------------------------------------
(* The pieces of a step keep the shape of what they are applied to. *)
InodeTables == [InodeNumbers -> [Entries -> Nat]]
BlockTables == [Blocks -> [Words -> Nat]]

LEMMA WordWritten ==
    ASSUME NEW blk \in BlockTables, NEW b, NEW w, NEW v \in Nat
    PROVE  WriteWord(blk, b, w, v) \in BlockTables
BY DEF BlockTables, WriteWord

LEMMA BlockZeroed ==
    ASSUME NEW blk \in BlockTables, NEW b
    PROVE  ZeroedBlock(blk, b) \in BlockTables
BY DEF BlockTables, ZeroedBlock, ZeroBlock

LEMMA EntryWritten ==
    ASSUME NEW table \in InodeTables, NEW i \in InodeNumbers, NEW x, NEW v \in Nat
    PROVE  [table EXCEPT ![i] = [@ EXCEPT ![x] = v]] \in InodeTables
BY DEF InodeTables

LEMMA EntriesWritten ==
    ASSUME NEW table \in InodeTables, NEW i \in InodeNumbers,
           NEW x, NEW v \in Nat, NEW y, NEW w \in Nat
    PROVE  [table EXCEPT ![i] = [@ EXCEPT ![x] = v, ![y] = w]] \in InodeTables
BY DEF InodeTables

\* A free bit of the block vector is a natural, 0 included.
LEMMA FreeBlockNat ==
    ASSUME NEW free
    PROVE  FreeBit(free, NTotalBlocks) \in Nat
BY FreeBitFound, SizesAssumption

(* Fill is at most what is asked for. *)
LEMMA FillBound ==
    ASSUME TypeOK, NEW i \in InodeNumbers, NEW n \in 1 .. BSZ
    PROVE  Fill(i, n) \in 0 .. n
<1>1. Size(i) \in Nat
  BY Layout DEF TypeOK, Size
<1>2. Size(i) % BSZ \in 0 .. BSZ - 1
  BY <1>1, SizesAssumption
<1> QED
  BY <1>2, SizesAssumption DEF Fill

LEMMA InitTypeOK == Init => TypeOK
<1> SUFFICES ASSUME Init PROVE TypeOK
  OBVIOUS
<1>1. fbvBlocks \subseteq Bits
  BY SizesAssumption, Layout DEF Init, Bits
<1>2. fbvInodes \subseteq InodeNumbers /\ starved \in BOOLEAN
  BY DEF Init
<1>3. RootInode \in [Entries -> Nat]
  BY Layout, SizesAssumption DEF RootInode, ZeroInode, DotsSize, iTypeDirectory
<1>4. inode \in InodeTables
  BY <1>3 DEF Init, InodeTables, ZeroInode
<1>5. block \in BlockTables
  BY SizesAssumption DEF Init, BlockTables, SuperBlock, ZeroBlock
<1> QED
  BY <1>1, <1>2, <1>4, <1>5 DEF TypeOK, InodeTables, BlockTables

(* The three ways to store a last block number keep the types. *)
LEMMA SetLastTyped ==
    ASSUME TypeOK, NEW i \in InodeNumbers, NEW bn \in Nat, NEW free \in SUBSET Bits,
           NEW sz \in Nat, SetLastBlockNumber(i, bn, free, sz)
    PROVE  TypeOK'
<1> DEFINE nu == NBlocks(i)
<1> USE DEF InodeTables, BlockTables
<1>1. inode \in InodeTables /\ block \in BlockTables
  BY DEF TypeOK
<1>2. CASE SetDirect(i, nu, bn, free, sz)
  <2>1. inode' \in InodeTables
    BY <1>1, <1>2, EntriesWritten DEF SetDirect
  <2>2. fbvBlocks' \subseteq Bits
    BY <1>2 DEF SetDirect, Released
  <2> QED
    BY <1>2, <2>1, <2>2 DEF SetDirect, TypeOK
<1>3. CASE SetSingleIndirect(i, nu - IDirect, bn, free, sz)
  <2> DEFINE new == FreeBit(free, NTotalBlocks)
             single == IF WantsSingle(nu - IDirect) THEN new ELSE inode[i][IDirect]
             fresh == IF WantsSingle(nu - IDirect) THEN ZeroedBlock(block, single) ELSE block
  <2>1. single \in Nat
    <3>1. inode[i][IDirect] \in Nat
      BY <1>1, Layout
    <3> QED
      BY <3>1, FreeBlockNat
  <2>2. fresh \in BlockTables
    BY <1>1, BlockZeroed
  <2>3. WriteWord(fresh, single, nu - IDirect, bn) \in BlockTables
    BY <2>2, WordWritten
  <2>4. inode' \in InodeTables
    BY <1>1, <1>3, <2>1, EntriesWritten DEF SetSingleIndirect
  <2>5. fbvBlocks' \subseteq Bits
    BY <1>3 DEF SetSingleIndirect, Taken
  <2> QED
    BY <1>3, <2>3, <2>4, <2>5 DEF SetSingleIndirect, TypeOK
<1>4. CASE SetDoubleIndirect(i, nu - IIndirectOne, bn, free, sz)
  <2> DEFINE k == nu - IIndirectOne
             root == inode[i][IDirect + 1]
             duble == IF root = 0 THEN FreeBit(free, NTotalBlocks) ELSE root
             free1 == IF root = 0 THEN Taken(free, duble) ELSE free
             block1 == IF root = 0 THEN ZeroedBlock(block, duble) ELSE block
             entry == block1[duble][k \div BNPB]
             leaf == IF WantsIndex(entry) THEN FreeBit(free1, NTotalBlocks) ELSE entry
             block2 == IF WantsIndex(entry)
                       THEN WriteWord(ZeroedBlock(block1, leaf), duble, k \div BNPB, leaf)
                       ELSE block1
  <2>1. duble \in Nat
    <3>1. root \in Nat
      BY <1>1, Layout
    <3> QED
      BY <3>1, FreeBlockNat
  <2>2. block1 \in BlockTables
    BY <1>1, BlockZeroed
  <2>3. block2 \in BlockTables
    <3>1. CASE WantsIndex(entry)
      <4>1. leaf \in Nat
        BY <3>1, FreeBlockNat
      <4> QED
        BY <2>2, <4>1, BlockZeroed, WordWritten
    <3>2. CASE ~WantsIndex(entry)
      BY <3>2, <2>2
    <3> QED
      BY <3>1, <3>2
  <2>4. WriteWord(block2, leaf, k % BNPB, bn) \in BlockTables
    <3> HIDE DEF block2, leaf
    <3> QED
      BY <2>3, WordWritten
  <2>5. inode' \in InodeTables
    <3>1. inode' = [inode EXCEPT ![i] = [@ EXCEPT ![IDirect + 1] = duble, ![xFileSize] = sz]]
      BY <1>4 DEF SetDoubleIndirect
    <3> HIDE DEF duble
    <3> QED
      BY <1>1, <2>1, <3>1, EntriesWritten
  <2>6. fbvBlocks' \subseteq Bits
    BY <1>4 DEF SetDoubleIndirect, Taken
  <2>7. block' = WriteWord(block2, leaf, k % BNPB, bn) /\ fbvInodes' = fbvInodes
        /\ starved' = (starved \/ duble = 0 \/ leaf = 0)
    BY <1>4 DEF SetDoubleIndirect
  <2> QED
    BY <2>4, <2>5, <2>6, <2>7 DEF TypeOK
<1>5. CASE BeyondCapacity(i, free, sz)
  BY <1>5, <1>1, EntryWritten DEF BeyondCapacity, TypeOK
<1> QED
  BY <1>2, <1>3, <1>4, <1>5 DEF SetLastBlockNumber

(* Every operation keeps the types: a size does not go below zero, a bit   *)
(* beyond the vectors is not set.                                          *)
LEMMA NextTyped == TypeOK /\ [Next]_vars => TypeOK'
<1> SUFFICES ASSUME TypeOK, [Next]_vars PROVE TypeOK'
  OBVIOUS
<1>1. inode \in InodeTables /\ block \in BlockTables
  BY DEF TypeOK, InodeTables, BlockTables
<1>2. CASE GetFree
  <2>1. FreeBit(fbvInodes, NInodes) \in InodeNumbers
    BY FreeBitFound, SizesAssumption, <1>2 DEF GetFree, InodeNumbers
  <2>2. inode' \in InodeTables
    BY <1>1, <1>2, <2>1 DEF GetFree, InodeTables, ZeroInode
  <2> QED
    BY <1>2, <2>2 DEF GetFree, Taken, TypeOK, InodeTables
<1>3. ASSUME NEW i \in InodeNumbers, NEW tp \in {iTypeOrdinary, iTypeDirectory}, SetType(i, tp)
      PROVE  TypeOK'
  <2>1. inode' \in InodeTables
    BY <1>1, <1>3, EntryWritten DEF SetType, iTypeOrdinary, iTypeDirectory
  <2> QED
    BY <1>3, <2>1 DEF SetType, TypeOK, InodeTables
<1>4. ASSUME NEW i \in InodeNumbers, NEW c \in LinkCounts, SetCount(i, c)
      PROVE  TypeOK'
  <2>1. inode' \in InodeTables
    BY <1>1, <1>4, SizesAssumption, EntryWritten DEF SetCount
  <2> QED
    BY <1>4, <2>1 DEF SetCount, TypeOK, InodeTables
<1>5. ASSUME NEW i \in InodeNumbers, SetPathBlock(i)
      PROVE  TypeOK'
  <2> DEFINE bn == FreeBit(fbvBlocks, NTotalBlocks)
  <2>1. bn \in Nat
    BY FreeBlockNat
  <2>2. inode' \in InodeTables
    BY <1>1, <1>5, <2>1 DEF SetPathBlock, InodeTables, iTypeSoftLink
  <2>3. block' \in BlockTables
    <3>1. PathText \in [Words -> Nat]
      BY SizesAssumption DEF PathText
    <3> QED
      BY <1>1, <1>5, <3>1 DEF SetPathBlock, BlockTables
  <2> QED
    BY <1>5, <2>2, <2>3 DEF SetPathBlock, Taken, TypeOK, InodeTables, BlockTables
<1>6. ASSUME NEW i \in InodeNumbers, SetFree(i)
      PROVE  TypeOK'
  BY <1>6 DEF SetFree, Released, TypeOK
<1>7. ASSUME NEW i \in InodeNumbers, NEW n \in 1 .. BSZ, AppendBytes(i, n)
      PROVE  TypeOK'
  <2> DEFINE bn == FreeBit(fbvBlocks, NTotalBlocks)
  <2>1. Size(i) \in Nat /\ Fill(i, n) \in Nat /\ bn \in Nat
    BY Layout, FillBound, FreeBlockNat DEF TypeOK, Size
  <2>2. CASE inode' = [inode EXCEPT ![i][xFileSize] = @ + Fill(i, n)]
             /\ UNCHANGED <<fbvBlocks, fbvInodes, block, starved>>
    <3>1. inode' = [inode EXCEPT ![i] = [@ EXCEPT ![xFileSize] = Size(i) + Fill(i, n)]]
      BY <2>2 DEF Size
    <3>2. Size(i) + Fill(i, n) \in Nat
      BY <2>1
    <3>3. inode' \in InodeTables
      BY <1>1, <3>1, <3>2, EntryWritten
    <3> QED
      BY <2>2, <3>3 DEF TypeOK, InodeTables
  <2>3. CASE SetLastBlockNumber(i, bn, Taken(fbvBlocks, bn), Size(i) + n)
    <3>1. Taken(fbvBlocks, bn) \in SUBSET Bits /\ Size(i) + n \in Nat
      BY <2>1 DEF Taken, TypeOK
    <3> QED
      BY <2>1, <2>3, <3>1, SetLastTyped
  <2> QED
    BY <1>7, <2>2, <2>3 DEF AppendBytes
<1>8. ASSUME NEW i \in InodeNumbers, NEW n \in 1 .. BSZ, DeletePrecedingBytes(i, n)
      PROVE  TypeOK'
  <2>1. Size(i) - n \in Nat
    <3>1. Size(i) \in Nat
      BY Layout DEF TypeOK, Size
    <3> QED
      BY <1>8, <3>1 DEF DeletePrecedingBytes, Deletable, DotsSize
  <2>2. CASE inode' = [inode EXCEPT ![i][xFileSize] = @ - n]
             /\ UNCHANGED <<fbvBlocks, fbvInodes, block, starved>>
    <3>1. inode' \in InodeTables
      BY <1>1, <2>1, <2>2, EntryWritten DEF Size
    <3> QED
      BY <2>2, <3>1 DEF TypeOK, InodeTables
  <2>3. CASE SetLastBlockNumber(i, 0, fbvBlocks, Size(i) - n)
    BY <2>1, <2>3, SetLastTyped DEF TypeOK
  <2> QED
    BY <1>8, <2>2, <2>3 DEF DeletePrecedingBytes
<1>9. CASE UNCHANGED vars
  BY <1>9 DEF vars, TypeOK
<1> QED
  BY <1>2, <1>3, <1>4, <1>5, <1>6, <1>7, <1>8, <1>9 DEF Next

(* The volume's state is well typed, whatever the sizes: in particular no  *)
(* sequence of appends and deletions takes a file's size, an unsigned      *)
(* number in the code, below zero.                                         *)
THEOREM TypeCorrect == Spec => []TypeOK
<1>1. Init => TypeOK
  BY InitTypeOK
<1>2. TypeOK /\ [Next]_vars => TypeOK'
  BY NextTyped
<1> QED
  BY <1>1, <1>2, PTL DEF Spec
-----------------------------------------------------------------------------
(* Every block has one holder.                                             *)
(* Arithmetic: sizes in blocks, rounded up. *)
InBlocks(sz) == (sz + BSZ - 1) \div BSZ

LEMMA Cancel ==
    ASSUME NEW c \in Nat \ {0}, NEW x \in Int, NEW y \in Int, c * x < c * y
    PROVE  x < y
<1> SUFFICES ASSUME y <= x PROVE c * y <= c * x
  BY SMT
<1>1. x - y \in Nat /\ c * (x - y) \in Nat
  BY SMT
<1>2. c * x = c * y + c * (x - y)
  BY SMT
<1> QED
  BY <1>1, <1>2, SMT

LEMMA Division ==
    ASSUME NEW x \in Nat, NEW c \in Nat \ {0}
    PROVE  /\ x \div c \in Nat /\ x % c \in 0 .. c - 1
           /\ x = c * (x \div c) + (x % c)
BY SMT

LEMMA BlocksBound ==
    ASSUME NEW sz \in Nat
    PROVE  /\ InBlocks(sz) \in Nat
           /\ sz <= BSZ * InBlocks(sz) /\ BSZ * InBlocks(sz) < sz + BSZ
<1> DEFINE x == sz + BSZ - 1
<1>1. x \in Nat /\ BSZ \in Nat \ {0}
  BY SizesAssumption
<1>2. x \div BSZ \in Nat /\ x % BSZ \in 0 .. BSZ - 1 /\ x = BSZ * (x \div BSZ) + (x % BSZ)
  BY <1>1, Division
<1>3. BSZ * (x \div BSZ) \in Nat
  BY <1>1, <1>2
<1> QED
  BY <1>1, <1>2, <1>3 DEF InBlocks

\* A file that grows by a block's worth or less gets one more block or none.
LEMMA OneBlockMore ==
    ASSUME NEW sz \in Nat, NEW n \in 0 .. BSZ
    PROVE  InBlocks(sz + n) <= InBlocks(sz) + 1
<1> DEFINE p == InBlocks(sz)
           q == InBlocks(sz + n)
<1>1. p \in Nat /\ q \in Nat /\ sz <= BSZ * p /\ BSZ * q < sz + n + BSZ
  BY BlocksBound, SizesAssumption
<1>2. BSZ \in Nat \ {0} /\ BSZ * (p + 2) = BSZ * p + BSZ + BSZ
  BY <1>1, SizesAssumption, SMT
<1>3. BSZ * q < BSZ * (p + 2)
  <2>1. BSZ * q \in Nat /\ BSZ * p \in Nat
    BY <1>1, <1>2
  <2> QED
    BY <1>1, <1>2, <2>1
<1>4. q < p + 2
  <2> HIDE DEF p, q
  <2> QED
    BY <1>1, <1>2, <1>3, Cancel
<1> QED
  BY <1>1, <1>4

LEMMA NoBlockMore ==
    ASSUME NEW x \in Nat, NEW y \in Nat, x <= y
    PROVE  InBlocks(x) <= InBlocks(y)
<1> DEFINE p == InBlocks(x)
           q == InBlocks(y)
<1>1. p \in Nat /\ q \in Nat /\ y <= BSZ * q /\ BSZ * p < x + BSZ
  BY BlocksBound
<1>2. BSZ \in Nat \ {0} /\ BSZ * (q + 1) = BSZ * q + BSZ
  BY <1>1, SizesAssumption, SMT
<1>3. BSZ * p < BSZ * (q + 1)
  <2>1. BSZ * p \in Nat /\ BSZ * q \in Nat
    BY <1>1, <1>2
  <2> QED
    BY <1>1, <1>2, <2>1
<1>4. p < q + 1
  <2> HIDE DEF p, q
  <2> QED
    BY <1>1, <1>2, <1>3, Cancel
<1> QED
  BY <1>1, <1>4

\* Filling the last block up needs no other.
LEMMA FillNeedsNoBlock ==
    ASSUME NEW sz \in Nat, NEW n \in Nat,
           sz % BSZ # 0 => n <= BSZ - (sz % BSZ),
           sz % BSZ = 0 => n = 0
    PROVE  InBlocks(sz + n) <= InBlocks(sz)
<1> DEFINE p == InBlocks(sz)
           q == InBlocks(sz + n)
           d == sz \div BSZ
           r == sz % BSZ
<1>1. BSZ \in Nat \ {0} /\ d \in Nat /\ r \in 0 .. BSZ - 1 /\ sz = BSZ * d + r
  <2>1. BSZ \in Nat \ {0}
    BY SizesAssumption
  <2> QED
    BY <2>1, Division
<1>2. CASE r = 0
  BY <1>2, BlocksBound
<1>3. CASE r # 0
  <2>1. p \in Nat /\ q \in Nat /\ sz <= BSZ * p /\ BSZ * q < sz + n + BSZ
    BY BlocksBound
  <2> HIDE DEF p, q, d, r
  <2>2. n <= BSZ - r
    BY <1>3 DEF r
  <2>3. BSZ * d \in Nat /\ BSZ * p \in Nat /\ BSZ * q \in Nat
        /\ BSZ * (d + 2) = BSZ * d + BSZ + BSZ
    BY <1>1, <2>1, SMT
  <2>4. BSZ * d < BSZ * p /\ BSZ * q < BSZ * (d + 2)
    BY <1>1, <1>3, <2>1, <2>2, <2>3
  <2>5. d < p /\ q < d + 2
    BY <1>1, <2>1, <2>4, Cancel
  <2>6. q <= p
    BY <1>1, <2>1, <2>5
  <2> QED
    BY <2>6 DEF p, q
<1> QED
  BY <1>2, <1>3

LEMMA EmptyFile == InBlocks(0) = 0
<1>1. BSZ \in Nat \ {0} /\ InBlocks(0) \in Nat /\ BSZ * InBlocks(0) < BSZ * 1
  BY BlocksBound, SizesAssumption
<1>2. InBlocks(0) < 1
  BY <1>1, Cancel
<1> QED
  BY <1>1, <1>2

(* The two indices of an entry of the double indirect tree. *)
LEMMA TwoIndices ==
    ASSUME NEW k \in Nat, k < BNPB * BNPB
    PROVE  /\ k \div BNPB \in Words /\ k % BNPB \in Words
           /\ k = BNPB * (k \div BNPB) + (k % BNPB)
<1>1. BNPB \in Nat \ {0}
  BY SizesAssumption
<1>2. /\ k \div BNPB \in Nat /\ k % BNPB \in 0 .. BNPB - 1
      /\ k = BNPB * (k \div BNPB) + (k % BNPB)
  BY <1>1, Division
<1>3. BNPB * (k \div BNPB) < BNPB * BNPB
  <2>1. BNPB * (k \div BNPB) \in Nat /\ BNPB * BNPB \in Nat
    BY <1>1, <1>2
  <2> QED
    BY <1>2, <2>1
<1>4. k \div BNPB < BNPB
  BY <1>1, <1>2, <1>3, Cancel
<1> QED
  BY <1>1, <1>2, <1>4 DEF Words

(* Leaf j begins at entry BNPB * j: an entry before it has a smaller first
   index, and every leaf begins below BNPB * BNPB. *)
LEMMA LeafBegins ==
    ASSUME NEW j \in Words, NEW k \in Words, j < k
    PROVE  BNPB * j + BNPB <= BNPB * k /\ BNPB * k + BNPB <= BNPB * BNPB
<1>1. BNPB \in Nat \ {0} /\ j \in Nat /\ k \in Nat /\ k <= BNPB - 1
  BY SizesAssumption DEF Words
<1>2. PICK d \in Nat : k = j + 1 + d
  <2>1. k - j - 1 \in Nat /\ k = j + 1 + (k - j - 1)
    BY <1>1
  <2> QED
    BY <2>1
<1>3. PICK e \in Nat : BNPB = k + 1 + e
  <2>1. BNPB - k - 1 \in Nat /\ BNPB = k + 1 + (BNPB - k - 1)
    BY <1>1
  <2> QED
    BY <2>1
<1>4. BNPB * k = BNPB * j + BNPB + BNPB * d /\ BNPB * d \in Nat
  BY <1>1, <1>2, SMT
<1>5. BNPB * BNPB = BNPB * k + BNPB + BNPB * e /\ BNPB * e \in Nat
  <2>1. BNPB * (k + 1 + e) = BNPB * k + BNPB + BNPB * e /\ BNPB * e \in Nat
    BY <1>1, SMT
  <2> QED
    BY <1>3, <2>1
<1>6. BNPB * j \in Nat /\ BNPB * k \in Nat /\ BNPB * BNPB \in Nat
  BY <1>1
<1> QED
  BY <1>1, <1>4, <1>5, <1>6
-----------------------------------------------------------------------------
(* The slots, kind by kind, and what they hold. *)
LEMMA SlotKinds ==
    ASSUME NEW s \in Slots
    PROVE  \E i \in InodeNumbers :
             \/ \E x \in 0 .. IDirect + 1 : s = <<"inode", i, x, 0>>
             \/ \E w \in Words : s = <<"single", i, w, 0>>
             \/ \E w \in Words : s = <<"double", i, w, 0>>
             \/ \E v, w \in Words : s = <<"leaf", i, v, w>>
BY DEF Slots

LEMMA SlotHolds ==
    ASSUME NEW i \in InodeNumbers, InUse(i)
    PROVE  /\ \A x \in 0 .. IDirect + 1 :
                <<"inode", i, x, 0>> \in Slots /\ Pointer(<<"inode", i, x, 0>>) = inode[i][x]
           /\ \A w \in Words :
                /\ <<"single", i, w, 0>> \in Slots
                /\ Pointer(<<"single", i, w, 0>>) = Word(inode[i][IDirect], w)
           /\ \A w \in Words :
                /\ <<"double", i, w, 0>> \in Slots
                /\ Pointer(<<"double", i, w, 0>>) = Word(inode[i][IDirect + 1], w)
           /\ \A v, w \in Words :
                /\ <<"leaf", i, v, w>> \in Slots
                /\ Pointer(<<"leaf", i, v, w>>) = Word(Word(inode[i][IDirect + 1], v), w)
BY DEF Slots, Pointer

LEMMA SlotHoldsNext ==
    ASSUME NEW i \in InodeNumbers, InUse(i)'
    PROVE  /\ \A x \in 0 .. IDirect + 1 : Pointer(<<"inode", i, x, 0>>)' = inode'[i][x]
           /\ \A w \in Words : Pointer(<<"single", i, w, 0>>)' = Word(inode[i][IDirect], w)'
           /\ \A w \in Words : Pointer(<<"double", i, w, 0>>)' = Word(inode[i][IDirect + 1], w)'
           /\ \A v, w \in Words :
                Pointer(<<"leaf", i, v, w>>)' = Word(Word(inode[i][IDirect + 1], v), w)'
BY DEF Pointer

LEMMA SlotsOfTheFree ==
    ASSUME NEW s \in Slots
    PROVE  /\ ~InUse(s[2]) => Pointer(s) = 0
           /\ ~InUse(s[2])' => Pointer(s)' = 0
BY DEF Pointer
-----------------------------------------------------------------------------
(***************************************************************************)
(* The inductive invariant.  Disjoint is what Exclusive says of a volume   *)
(* where no index block was wanted in vain.  By itself it is not kept:     *)
(* getFreeBlock must not find a block of the bit vectors free, and a file  *)
(* long enough to need an index block must have it, or setSingleIndirect   *)
(* would write to, and getBlockNumber read from, the superblock.           *)
(***************************************************************************)
Area == NBlockBeginFiles .. NTotalBlocks - 1

Disjoint ==
    \A s \in Slots : Pointer(s) # 0 =>
      /\ Pointer(s) \in Area
      /\ Pointer(s) \notin fbvBlocks
      /\ \A t \in Slots : Pointer(t) = Pointer(s) => t = s

FreeInArea == fbvBlocks \subseteq {0} \cup (NBlockBeginFiles .. NTotalBlocks)

RootedAt(i) ==
    /\ NBlocks(i) > IDirect => Pointer(<<"inode", i, IDirect, 0>>) # 0
    /\ \A k \in Words :
         NBlocks(i) > IIndirectOne + BNPB * k => Pointer(<<"double", i, k, 0>>) # 0

Rooted == \A i \in InodeNumbers : InUse(i) => RootedAt(i)

Sound == Disjoint /\ FreeInArea /\ Rooted

IInv == TypeOK /\ (~starved => Sound)

(* A step keeps Disjoint if every slot keeps its block, drops it or gets a
   free one that no other slot gets, and no block still held is freed. *)
LEMMA Preserved ==
    ASSUME Disjoint,
           \A s \in Slots : Pointer(s)' # 0 =>
             /\ Pointer(s)' \notin fbvBlocks'
             /\ \/ Pointer(s)' = Pointer(s)
                \/ /\ Pointer(s)' \in fbvBlocks \cap Area
                   /\ \A t \in Slots : Pointer(t)' = Pointer(s)' => t = s
    PROVE  Disjoint'
<1> SUFFICES ASSUME NEW s \in Slots, Pointer(s)' # 0
             PROVE  /\ Pointer(s)' \in Area
                    /\ Pointer(s)' \notin fbvBlocks'
                    /\ \A t \in Slots : Pointer(t)' = Pointer(s)' => t = s
  BY DEF Disjoint, Slots, Area
<1>1. CASE Pointer(s)' \in fbvBlocks \cap Area /\ \A t \in Slots : Pointer(t)' = Pointer(s)' => t = s
  BY <1>1
<1>2. CASE Pointer(s)' = Pointer(s)
  <2>1. Pointer(s)' \in Area /\ Pointer(s) \notin fbvBlocks
    BY <1>2 DEF Disjoint
  <2>2. ASSUME NEW t \in Slots, Pointer(t)' = Pointer(s)'
        PROVE  t = s
    <3>1. Pointer(t)' = Pointer(t)
      BY <1>2, <2>1, <2>2
    <3> QED
      BY <1>2, <2>2, <3>1 DEF Disjoint
  <2> QED
    BY <2>1, <2>2
<1> QED
  BY <1>1, <1>2

(* Slots get a block each: G pairs each of them with the block it gets. *)
LEMMA PreservedTaking ==
    ASSUME Disjoint, fbvBlocks' \subseteq fbvBlocks, NEW G,
           \A g \in G : g[2] # 0 =>
             /\ g[2] \in (fbvBlocks \cap Area) \ fbvBlocks'
             /\ \A h \in G : h[2] = g[2] => h[1] = g[1],
           \A s \in Slots : \/ Pointer(s)' = 0 \/ Pointer(s)' = Pointer(s)
                            \/ \E g \in G : g[1] = s /\ g[2] = Pointer(s)'
    PROVE  Disjoint'
<1>1. ASSUME NEW s \in Slots, Pointer(s)' # 0
      PROVE  /\ Pointer(s)' \notin fbvBlocks'
             /\ \/ Pointer(s)' = Pointer(s)
                \/ /\ Pointer(s)' \in fbvBlocks \cap Area
                   /\ \A t \in Slots : Pointer(t)' = Pointer(s)' => t = s
  <2>1. CASE Pointer(s)' = Pointer(s)
    BY <1>1, <2>1 DEF Disjoint
  <2>2. ASSUME NEW g \in G, g[1] = s, g[2] = Pointer(s)'
        PROVE  /\ Pointer(s)' \in (fbvBlocks \cap Area) \ fbvBlocks'
               /\ \A t \in Slots : Pointer(t)' = Pointer(s)' => t = s
    <3>1. Pointer(s)' \in (fbvBlocks \cap Area) \ fbvBlocks'
      BY <1>1, <2>2
    <3>2. ASSUME NEW t \in Slots, Pointer(t)' = Pointer(s)'
          PROVE  t = s
      <4>1. Pointer(t)' # 0 /\ Pointer(t)' # Pointer(t)
        BY <1>1, <3>1, <3>2 DEF Disjoint
      <4>2. PICK h \in G : h[1] = t /\ h[2] = Pointer(t)'
        BY <4>1
      <4> QED
        BY <1>1, <2>2, <3>2, <4>2
    <3> QED
      BY <3>1, <3>2
  <2> QED
    BY <1>1, <2>1, <2>2
<1> QED
  BY <1>1, Preserved

\* For one block, for two, and for three: a data block, a leaf and a root.
LEMMA PreservedTakingOne ==
    ASSUME Disjoint, fbvBlocks' \subseteq fbvBlocks, NEW s1, NEW f1,
           f1 # 0 => f1 \in (fbvBlocks \cap Area) \ fbvBlocks',
           \A s \in Slots : \/ Pointer(s)' = 0 \/ Pointer(s)' = Pointer(s)
                            \/ s = s1 /\ Pointer(s)' = f1
    PROVE  Disjoint'
<1> DEFINE G == {<<s1, f1>>}
<1>1. \A g \in G : g[1] = s1 /\ g[2] = f1
  OBVIOUS
<1>2. <<s1, f1>> \in G
  OBVIOUS
<1> HIDE DEF G
<1> QED
  BY <1>1, <1>2, PreservedTaking

LEMMA PreservedTakingTwo ==
    ASSUME Disjoint, fbvBlocks' \subseteq fbvBlocks, NEW s1, NEW s2, NEW f1, NEW f2,
           f1 # 0 => f1 \in (fbvBlocks \cap Area) \ fbvBlocks',
           f2 # 0 => f2 \in (fbvBlocks \cap Area) \ fbvBlocks', f1 # 0 => f1 # f2,
           \A s \in Slots : \/ Pointer(s)' = 0 \/ Pointer(s)' = Pointer(s)
                            \/ s = s1 /\ Pointer(s)' = f1
                            \/ s = s2 /\ Pointer(s)' = f2
    PROVE  Disjoint'
<1> DEFINE G == {<<s1, f1>>, <<s2, f2>>}
<1>1. \A g \in G : (g[1] = s1 /\ g[2] = f1) \/ (g[1] = s2 /\ g[2] = f2)
  OBVIOUS
<1>2. /\ <<s1, f1>> \in G /\ <<s1, f1>>[1] = s1 /\ <<s1, f1>>[2] = f1
      /\ <<s2, f2>> \in G /\ <<s2, f2>>[1] = s2 /\ <<s2, f2>>[2] = f2
  OBVIOUS
<1> HIDE DEF G
<1>3. \A g \in G : g[2] # 0 =>
        /\ g[2] \in (fbvBlocks \cap Area) \ fbvBlocks'
        /\ \A h \in G : h[2] = g[2] => h[1] = g[1]
  BY <1>1
<1>4. \A s \in Slots : \/ Pointer(s)' = 0 \/ Pointer(s)' = Pointer(s)
                       \/ \E g \in G : g[1] = s /\ g[2] = Pointer(s)'
  BY <1>2
<1> QED
  BY <1>3, <1>4, PreservedTaking

(* The blocks of the slots D are freed, and those slots emptied. *)
LEMMA PreservedReleasing ==
    ASSUME Disjoint, NEW D \in SUBSET Slots,
           fbvBlocks' \subseteq fbvBlocks \cup {0} \cup {Pointer(s) : s \in D},
           \A s \in Slots : Pointer(s)' = 0 \/ (s \notin D /\ Pointer(s)' = Pointer(s))
    PROVE  Disjoint'
<1>1. ASSUME NEW s \in Slots, Pointer(s)' # 0
      PROVE  Pointer(s)' \notin fbvBlocks' /\ Pointer(s)' = Pointer(s)
  BY <1>1 DEF Disjoint
<1> QED
  BY <1>1, Preserved

LEMMA PreservedReleasingOne ==
    ASSUME Disjoint, NEW s1 \in Slots,
           fbvBlocks' \subseteq fbvBlocks \cup {0} \cup {Pointer(s1)}, Pointer(s1)' = 0,
           \A s \in Slots : s # s1 => Pointer(s)' = Pointer(s)
    PROVE  Disjoint'
<1>1. ASSUME NEW s \in Slots, Pointer(s)' # 0
      PROVE  Pointer(s)' \notin fbvBlocks' /\ Pointer(s)' = Pointer(s)
  BY <1>1 DEF Disjoint
<1> QED
  BY <1>1, Preserved

LEMMA FreeKeptInArea ==
    ASSUME Disjoint, FreeInArea,
           fbvBlocks' \subseteq fbvBlocks \cup {0} \cup {Pointer(s) : s \in Slots}
    PROVE  FreeInArea'
<1>1. \A s \in Slots : Pointer(s) = 0 \/ Pointer(s) \in NBlockBeginFiles .. NTotalBlocks
  BY SizesAssumption DEF Disjoint, Area
<1> QED
  BY <1>1 DEF FreeInArea

\* What getFreeBlock finds is a block of the file area.
LEMMA FreeBlockInArea ==
    ASSUME FreeInArea, NEW free \in SUBSET fbvBlocks
    PROVE  LET bn == FreeBit(free, NTotalBlocks)
           IN  bn = 0 \/ bn \in free \cap Area
<1> DEFINE bn == FreeBit(free, NTotalBlocks)
<1>1. bn = 0 \/ bn \in free \cap (1 .. NTotalBlocks - 1)
  BY FreeBitFound, SizesAssumption
<1> HIDE DEF bn
<1>2. bn = 0 \/ bn \in free \cap Area
  BY <1>1, SizesAssumption DEF FreeInArea, Area
<1> QED
  BY <1>2 DEF bn
-----------------------------------------------------------------------------
(* The index blocks of an i-node in use are blocks its slots hold. *)
LEMMA IndexBlocks ==
    ASSUME Disjoint, NEW j \in InodeNumbers, InUse(j)
    PROVE  /\ inode[j][IDirect] # 0 =>
                inode[j][IDirect] \in Blocks /\ inode[j][IDirect] = Pointer(<<"inode", j, IDirect, 0>>)
           /\ inode[j][IDirect + 1] # 0 =>
                /\ inode[j][IDirect + 1] \in Blocks
                /\ inode[j][IDirect + 1] = Pointer(<<"inode", j, IDirect + 1, 0>>)
           /\ \A v \in Words :
                Word(inode[j][IDirect + 1], v) # 0 =>
                  /\ Word(inode[j][IDirect + 1], v) \in Blocks
                  /\ Word(inode[j][IDirect + 1], v) = Pointer(<<"double", j, v, 0>>)
<1>1. IDirect \in 0 .. IDirect + 1 /\ IDirect + 1 \in 0 .. IDirect + 1
  BY Layout
<1>2. \A s \in Slots : Pointer(s) # 0 => Pointer(s) \in Blocks
  BY SizesAssumption DEF Disjoint, Area, Blocks
<1> QED
  BY <1>1, <1>2, SlotHolds

(* Slots read through index blocks that a step leaves alone keep their
   blocks: those of the single indirect block, and those of the tree. *)
LEMMA SingleKept ==
    ASSUME Disjoint, NEW j \in InodeNumbers, InUse(j), InUse(j)',
           inode'[j][IDirect] = inode[j][IDirect],
           inode[j][IDirect] # 0 => block'[inode[j][IDirect]] = block[inode[j][IDirect]]
    PROVE  \A w \in Words :
             Pointer(<<"single", j, w, 0>>)' = Pointer(<<"single", j, w, 0>>)
BY SlotHolds, SlotHoldsNext DEF Word

LEMMA DoubleKept ==
    ASSUME Disjoint, NEW j \in InodeNumbers, InUse(j), InUse(j)',
           inode'[j][IDirect + 1] = inode[j][IDirect + 1],
           NEW W \in SUBSET Words,
           inode[j][IDirect + 1] # 0 =>
             \A v \in W : block'[inode[j][IDirect + 1]][v] = block[inode[j][IDirect + 1]][v]
    PROVE  \A v \in W :
             /\ Pointer(<<"double", j, v, 0>>)' = Pointer(<<"double", j, v, 0>>)
             /\ Word(inode[j][IDirect + 1], v)' = Word(inode[j][IDirect + 1], v)
BY SlotHolds, SlotHoldsNext DEF Word

LEMMA LeafKept ==
    ASSUME Disjoint, NEW j \in InodeNumbers, InUse(j), InUse(j)', NEW v \in Words,
           Word(inode[j][IDirect + 1], v)' = Word(inode[j][IDirect + 1], v),
           NEW W \in SUBSET Words,
           Word(inode[j][IDirect + 1], v) # 0 =>
             \A w \in W : block'[Word(inode[j][IDirect + 1], v)][w]
                            = block[Word(inode[j][IDirect + 1], v)][w]
    PROVE  \A w \in W : Pointer(<<"leaf", j, v, w>>)' = Pointer(<<"leaf", j, v, w>>)
<1> DEFINE b == Word(inode[j][IDirect + 1], v)
<1>1. ASSUME NEW w \in W
      PROVE  /\ Pointer(<<"leaf", j, v, w>>) = Word(b, w)
             /\ Pointer(<<"leaf", j, v, w>>)' = Word(b, w)'
  BY SlotHolds, SlotHoldsNext
<1>2. b' = b
  OBVIOUS
<1>3. ASSUME NEW w \in W
      PROVE  Word(b, w)' = Word(b, w)
  <2> HIDE DEF b
  <2> QED
    BY <1>2, <1>3 DEF Word, b
<1> QED
  BY <1>1, <1>3

(* A step that writes to free blocks and to blocks of i-node i only leaves
   the slots of the other i-nodes as they are. *)
LEMMA OthersKept ==
    ASSUME Disjoint, NEW i \in InodeNumbers,
           \A b \in Blocks : \/ block'[b] = block[b]
                             \/ b \in fbvBlocks
                             \/ \E s \in Slots : s[2] = i /\ Pointer(s) = b /\ b # 0,
           \A j \in InodeNumbers \ {i} : inode'[j] = inode[j] /\ InUse(j)' = InUse(j)
    PROVE  \A s \in Slots : s[2] # i => Pointer(s)' = Pointer(s)
<1>1. ASSUME NEW t \in Slots, t[2] # i, Pointer(t) # 0, Pointer(t) \in Blocks
      PROVE  block'[Pointer(t)] = block[Pointer(t)]
  BY <1>1 DEF Disjoint
<1>2. ASSUME NEW j \in InodeNumbers \ {i}, InUse(j)
      PROVE  /\ \A x \in 0 .. IDirect + 1 :
                  Pointer(<<"inode", j, x, 0>>)' = Pointer(<<"inode", j, x, 0>>)
             /\ \A w \in Words :
                  Pointer(<<"single", j, w, 0>>)' = Pointer(<<"single", j, w, 0>>)
             /\ \A v \in Words :
                  Pointer(<<"double", j, v, 0>>)' = Pointer(<<"double", j, v, 0>>)
             /\ \A v, w \in Words :
                  Pointer(<<"leaf", j, v, w>>)' = Pointer(<<"leaf", j, v, w>>)
  <2>1. InUse(j)' /\ inode'[j] = inode[j]
    BY <1>2
  <2>2. IDirect \in 0 .. IDirect + 1 /\ IDirect + 1 \in 0 .. IDirect + 1
    BY Layout
  <2>3. \A x \in 0 .. IDirect + 1 :
          Pointer(<<"inode", j, x, 0>>)' = Pointer(<<"inode", j, x, 0>>)
    BY <1>2, <2>1, SlotHolds, SlotHoldsNext
  <2>4. inode[j][IDirect] # 0 => block'[inode[j][IDirect]] = block[inode[j][IDirect]]
    <3>1. <<"inode", j, IDirect, 0>> \in Slots
      BY <1>2, <2>2, SlotHolds
    <3> QED
      BY <1>1, <1>2, <3>1, IndexBlocks
  <2>5. inode[j][IDirect + 1] # 0 =>
          block'[inode[j][IDirect + 1]] = block[inode[j][IDirect + 1]]
    <3>1. <<"inode", j, IDirect + 1, 0>> \in Slots
      BY <1>2, <2>2, SlotHolds
    <3> QED
      BY <1>1, <1>2, <3>1, IndexBlocks
  <2>6. \A w \in Words : Pointer(<<"single", j, w, 0>>)' = Pointer(<<"single", j, w, 0>>)
    BY <1>2, <2>1, <2>4, SingleKept
  <2>7. \A v \in Words :
          /\ Pointer(<<"double", j, v, 0>>)' = Pointer(<<"double", j, v, 0>>)
          /\ Word(inode[j][IDirect + 1], v)' = Word(inode[j][IDirect + 1], v)
    BY <1>2, <2>1, <2>5, DoubleKept
  <2>8. ASSUME NEW v \in Words
        PROVE  \A w \in Words : Pointer(<<"leaf", j, v, w>>)' = Pointer(<<"leaf", j, v, w>>)
    <3>1. <<"double", j, v, 0>> \in Slots
      BY <1>2, SlotHolds
    <3>2. Word(inode[j][IDirect + 1], v) # 0 =>
            block'[Word(inode[j][IDirect + 1], v)] = block[Word(inode[j][IDirect + 1], v)]
      BY <1>1, <1>2, <3>1, IndexBlocks
    <3> QED
      BY <1>2, <2>1, <2>7, <3>2, LeafKept
  <2> QED
    BY <2>3, <2>6, <2>7, <2>8
<1>3. ASSUME NEW s \in Slots, s[2] # i
      PROVE  Pointer(s)' = Pointer(s)
  <2>1. PICK j \in InodeNumbers :
             \/ \E x \in 0 .. IDirect + 1 : s = <<"inode", j, x, 0>>
             \/ \E w \in Words : s = <<"single", j, w, 0>>
             \/ \E w \in Words : s = <<"double", j, w, 0>>
             \/ \E v, w \in Words : s = <<"leaf", j, v, w>>
    BY SlotKinds
  <2>2. j = s[2]
    BY <2>1
  <2>3. CASE ~InUse(j)
    <3>1. ~InUse(j)'
      BY <1>3, <2>2, <2>3
    <3> QED
      BY <2>2, <2>3, <3>1, SlotsOfTheFree
  <2>4. CASE InUse(j)
    BY <1>2, <1>3, <2>1, <2>2, <2>4
  <2> QED
    BY <2>3, <2>4
<1> QED
  BY <1>3
-----------------------------------------------------------------------------
(* How long a file is, before and after a step. *)
LEMMA BlockCounts ==
    ASSUME TypeOK, TypeOK', NEW j \in InodeNumbers
    PROVE  /\ Size(j) \in Nat /\ NBlocks(j) = InBlocks(Size(j)) /\ NBlocks(j) \in Nat
           /\ Size(j)' \in Nat /\ NBlocks(j)' = InBlocks(Size(j)') /\ NBlocks(j)' \in Nat
<1>1. Size(j) \in Nat /\ Size(j)' \in Nat
  BY Layout DEF TypeOK, Size
<1>2. NBlocks(j) = InBlocks(Size(j)) /\ NBlocks(j)' = InBlocks(Size(j)')
  BY DEF NBlocks, InBlocks
<1> QED
  BY <1>1, <1>2, BlocksBound

LEMMA Thresholds ==
    /\ IDirect \in Nat /\ IIndirectOne \in Nat
    /\ \A k \in Words : BNPB * k \in Nat /\ IIndirectOne + BNPB * k \in Nat
<1>1. IIndirectOne \in Nat
  BY Layout, SizesAssumption DEF IIndirectOne
<1>2. ASSUME NEW k \in Words PROVE BNPB * k \in Nat
  BY <1>2, SizesAssumption DEF Words
<1> QED
  BY <1>1, <1>2, Layout

\* A file too long for the double indirect tree has every index block.
LEMMA BeyondTree ==
    ASSUME NEW nu \in Nat, IIndirectTwo <= nu
    PROVE  nu > IDirect /\ \A k \in Words : nu > IIndirectOne + BNPB * k
<1>1. /\ IDirect \in Nat /\ IIndirectOne \in Nat /\ BNPB \in Nat \ {0}
      /\ IIndirectOne = IDirect + BNPB /\ IIndirectTwo = IIndirectOne + BNPB * BNPB
  BY Thresholds, SizesAssumption DEF IIndirectOne, IIndirectTwo
<1>2. BNPB * BNPB \in Nat
  BY <1>1
<1>3. ASSUME NEW k \in Words
      PROVE  BNPB * k \in Nat /\ BNPB * k < BNPB * BNPB
  <2>1. PICK e \in Nat : BNPB = k + 1 + e
    <3>1. k \in Nat /\ BNPB - k - 1 \in Nat /\ BNPB = k + 1 + (BNPB - k - 1)
      BY <1>1 DEF Words
    <3> QED
      BY <3>1
  <2>2. BNPB * (k + 1 + e) = BNPB * k + BNPB + BNPB * e /\ BNPB * e \in Nat /\ BNPB * k \in Nat
    <3>1. k \in Nat
      BY <1>1 DEF Words
    <3> QED
      BY <1>1, <3>1, SMT
  <2>3. BNPB * BNPB = BNPB * k + BNPB + BNPB * e
    BY <2>1, <2>2
  <2> QED
    BY <1>1, <2>2, <2>3
<1> QED
  BY <1>1, <1>2, <1>3

\* The index blocks of a file that grows no longer are still there.
LEMMA RootedKept ==
    ASSUME TypeOK, TypeOK', NEW j \in InodeNumbers, RootedAt(j), NBlocks(j)' <= NBlocks(j),
           Pointer(<<"inode", j, IDirect, 0>>)' = Pointer(<<"inode", j, IDirect, 0>>),
           \A k \in Words :
             Pointer(<<"double", j, k, 0>>)' = Pointer(<<"double", j, k, 0>>)
    PROVE  RootedAt(j)'
BY BlockCounts, Thresholds DEF RootedAt

\* And so are those of the i-nodes that a step does not touch.
LEMMA OthersRooted ==
    ASSUME TypeOK, TypeOK', Rooted, NEW i \in InodeNumbers,
           \A s \in Slots : s[2] # i => Pointer(s)' = Pointer(s),
           \A j \in InodeNumbers \ {i} : inode'[j] = inode[j] /\ InUse(j)' = InUse(j)
    PROVE  \A j \in InodeNumbers \ {i} : InUse(j)' => RootedAt(j)'
<1> SUFFICES ASSUME NEW j \in InodeNumbers \ {i}, InUse(j)' PROVE RootedAt(j)'
  OBVIOUS
<1>1. InUse(j) /\ RootedAt(j)
  BY DEF Rooted
<1>2. NBlocks(j)' = NBlocks(j)
  BY DEF NBlocks, Size
<1>3. <<"inode", j, IDirect, 0>> \in Slots /\ \A k \in Words : <<"double", j, k, 0>> \in Slots
  BY <1>1, Layout, SlotHolds
<1> QED
  BY <1>1, <1>2, <1>3, BlockCounts, RootedKept

-----------------------------------------------------------------------------
(* Where the block for position k of file i is stored, below the capacity  *)
(* of the double indirect tree. *)
Place(i, k) ==
    IF k < IDirect THEN <<"inode", i, k, 0>>
    ELSE IF k < IIndirectOne THEN <<"single", i, k - IDirect, 0>>
    ELSE <<"leaf", i, (k - IIndirectOne) \div BNPB, (k - IIndirectOne) % BNPB>>

(* A step on file i moves none of the blocks the file keeps, and for each  *)
(* position the file gains it has stored a block; only the path block of a *)
(* soft link may take a block's place.                                     *)
Settled(i) ==
    \A k \in Nat : k < NBlocks(i)' /\ k < IIndirectTwo =>
      \/ k < NBlocks(i) /\ Pointer(Place(i, k))' = Pointer(Place(i, k))
      \/ Pointer(Place(i, k))' # 0 /\ (NBlocks(i) <= k \/ Type(i)' = iTypeSoftLink)

(* So does a step of the volume; an i-node just taken is an empty file's.  *)
Settles ==
    \A j \in InodeNumbers : InUse(j)' => IF InUse(j) THEN Settled(j) ELSE NBlocks(j)' = 0

LEMMA PlaceKinds ==
    ASSUME NEW i \in InodeNumbers, NEW k \in Nat, k < IIndirectTwo
    PROVE  /\ Place(i, k) \in Slots /\ Place(i, k)[2] = i
           /\ \/ k < IDirect /\ k \in 0 .. IDirect + 1 /\ Place(i, k) = <<"inode", i, k, 0>>
              \/ /\ IDirect <= k /\ k < IIndirectOne /\ k - IDirect \in Words
                 /\ Place(i, k) = <<"single", i, k - IDirect, 0>>
              \/ /\ IIndirectOne <= k
                 /\ \E v, w \in Words :
                      k = IIndirectOne + BNPB * v + w /\ Place(i, k) = <<"leaf", i, v, w>>
<1>1. /\ IDirect \in Nat /\ BNPB \in Nat \ {0} /\ IIndirectOne = IDirect + BNPB
      /\ IIndirectTwo = IIndirectOne + BNPB * BNPB /\ BNPB * BNPB \in Nat
  BY Thresholds, SizesAssumption DEF IIndirectOne, IIndirectTwo
<1>2. CASE k < IDirect
  BY <1>1, <1>2 DEF Place, Slots
<1>3. CASE IDirect <= k /\ k < IIndirectOne
  <2>1. k - IDirect \in Words /\ Place(i, k) = <<"single", i, k - IDirect, 0>>
    BY <1>1, <1>3 DEF Place, Words
  <2> QED
    BY <1>3, <2>1 DEF Slots
<1>4. CASE IIndirectOne <= k
  <2> DEFINE m == k - IIndirectOne
  <2>1. m \in Nat /\ m < BNPB * BNPB /\ k = IIndirectOne + m
    BY <1>1, <1>4
  <2>2. m \div BNPB \in Words /\ m % BNPB \in Words /\ m = BNPB * (m \div BNPB) + (m % BNPB)
    BY <2>1, TwoIndices
  <2>3. Place(i, k) = <<"leaf", i, m \div BNPB, m % BNPB>>
    BY <1>1, <1>4 DEF Place
  <2>4. k = IIndirectOne + BNPB * (m \div BNPB) + (m % BNPB)
    <3>1. BNPB * (m \div BNPB) \in Nat /\ m % BNPB \in Nat
      BY <1>1, <2>2 DEF Words
    <3> HIDE DEF m
    <3> QED
      BY <1>1, <2>1, <2>2, <3>1
  <2> QED
    BY <1>4, <2>2, <2>3, <2>4 DEF Slots
<1> QED
  BY <1>1, <1>2, <1>3, <1>4

\* Storing a block at position NBlocks(i), or clearing it, settles the file
\* when the positions before it are left alone.
LEMMA StoredSettled ==
    ASSUME TypeOK, TypeOK', NEW i \in InodeNumbers, NEW bn, NEW sz \in Nat,
           NEW nu \in Nat, nu = NBlocks(i), NBlocks(i)' = InBlocks(sz),
           InBlocks(sz) <= nu + 1, bn = 0 => InBlocks(sz) <= nu,
           \A k \in Nat : k < nu /\ k < IIndirectTwo =>
             Pointer(Place(i, k))' = Pointer(Place(i, k)),
           nu < IIndirectTwo => Pointer(Place(i, nu))' = bn
    PROVE  Settled(i)
<1> SUFFICES ASSUME NEW k \in Nat, k < NBlocks(i)', k < IIndirectTwo
             PROVE  \/ k < nu /\ Pointer(Place(i, k))' = Pointer(Place(i, k))
                    \/ Pointer(Place(i, k))' # 0 /\ nu <= k
  BY DEF Settled
<1>1. InBlocks(sz) \in Nat
  BY BlocksBound
<1>2. CASE k < nu
  BY <1>2
<1>3. CASE nu <= k
  <2>1. k = nu /\ bn # 0
    BY <1>1, <1>3
  <2> QED
    BY <2>1
<1> QED
  BY <1>1, <1>2, <1>3

\* The other files keep all they have.
LEMMA OthersSettled ==
    ASSUME TypeOK, TypeOK', NEW i \in InodeNumbers,
           \A s \in Slots : s[2] # i => Pointer(s)' = Pointer(s),
           \A j \in InodeNumbers \ {i} : inode'[j] = inode[j] /\ InUse(j)' = InUse(j),
           InUse(i)' => IF InUse(i) THEN Settled(i) ELSE NBlocks(i)' = 0
    PROVE  Settles
<1> SUFFICES ASSUME NEW j \in InodeNumbers \ {i}, InUse(j)'
             PROVE  InUse(j) /\ Settled(j)
  BY DEF Settles
<1>1. NBlocks(j)' = NBlocks(j)
  BY DEF NBlocks, Size
<1>2. \A k \in Nat : k < IIndirectTwo => Pointer(Place(j, k))' = Pointer(Place(j, k))
  BY PlaceKinds
<1> QED
  BY <1>1, <1>2 DEF Settled

(* A step that changes neither a block nor a word holding a block number,
   and makes the file no longer or longer than the tree can hold. *)
LEMMA ShapeKept ==
    ASSUME TypeOK, TypeOK', Sound, NEW i \in InodeNumbers, InUse(i),
           fbvBlocks' \subseteq fbvBlocks, UNCHANGED <<fbvInodes, block>>,
           \A j \in InodeNumbers \ {i} : inode'[j] = inode[j],
           \A x \in 0 .. IDirect + 1 : inode'[i][x] = inode[i][x],
           NBlocks(i)' <= NBlocks(i) \/ IIndirectTwo <= NBlocks(i)
    PROVE  Sound' /\ Settles
<1>1. \A j \in InodeNumbers : InUse(j)' = InUse(j)
  BY DEF InUse
<1>2. \A s \in Slots : s[2] # i => Pointer(s)' = Pointer(s)
  BY <1>1, OthersKept DEF Sound
<1>3. \A x \in 0 .. IDirect + 1 : Pointer(<<"inode", i, x, 0>>)' = Pointer(<<"inode", i, x, 0>>)
  BY <1>1, SlotHolds, SlotHoldsNext
<1>4. IDirect \in 0 .. IDirect + 1 /\ IDirect + 1 \in 0 .. IDirect + 1
  BY Layout
<1>5. \A w \in Words : Pointer(<<"single", i, w, 0>>)' = Pointer(<<"single", i, w, 0>>)
  BY <1>1, <1>4, SingleKept DEF Sound
<1>6. \A v \in Words :
        /\ Pointer(<<"double", i, v, 0>>)' = Pointer(<<"double", i, v, 0>>)
        /\ Word(inode[i][IDirect + 1], v)' = Word(inode[i][IDirect + 1], v)
  BY <1>1, <1>4, DoubleKept DEF Sound
<1>7. \A v, w \in Words : Pointer(<<"leaf", i, v, w>>)' = Pointer(<<"leaf", i, v, w>>)
  BY <1>1, <1>6, LeafKept DEF Sound
<1>8. \A s \in Slots : Pointer(s)' = Pointer(s)
  BY <1>2, <1>3, <1>5, <1>6, <1>7, SlotKinds
<1>9. Disjoint'
  BY <1>8, PreservedTakingOne DEF Sound
<1>10. RootedAt(i)'
  <2>1. CASE NBlocks(i)' <= NBlocks(i)
    BY <1>3, <1>4, <1>6, <2>1, RootedKept DEF Sound, Rooted
  <2>2. CASE IIndirectTwo <= NBlocks(i)
    <3>1. NBlocks(i) > IDirect /\ \A k \in Words : NBlocks(i) > IIndirectOne + BNPB * k
      BY <2>2, BeyondTree, BlockCounts
    <3> QED
      BY <1>3, <1>4, <1>6, <3>1 DEF Sound, Rooted, RootedAt
  <2> QED
    BY <2>1, <2>2
<1>11. Settled(i)
  <2>1. ASSUME NEW k \in Nat, k < NBlocks(i)', k < IIndirectTwo
        PROVE  k < NBlocks(i) /\ Pointer(Place(i, k))' = Pointer(Place(i, k))
    <3>1. NBlocks(i) \in Nat /\ NBlocks(i)' \in Nat /\ IIndirectTwo \in Nat
      BY BlockCounts, Thresholds, SizesAssumption DEF IIndirectTwo
    <3>2. k < NBlocks(i)
      BY <2>1, <3>1
    <3> QED
      BY <1>8, <2>1, <3>2, PlaceKinds
  <2> QED
    BY <2>1 DEF Settled
<1>12. Settles
  BY <1>1, <1>2, <1>11, OthersSettled
<1> QED
  BY <1>1, <1>2, <1>9, <1>10, <1>12, OthersRooted DEF Sound, FreeInArea, Rooted
-----------------------------------------------------------------------------
(* The three ways to store a last block number.  They are called with a    *)
(* block just taken from the free ones, or with none.                      *)
TakenFrom(bn, free) ==
    \/ bn = 0 /\ free = fbvBlocks
    \/ bn \in fbvBlocks \cap Area /\ bn # 0 /\ free = fbvBlocks \ {bn}

LEMMA WideLayout ==
    ASSUME IHeight >= 6
    PROVE  /\ IDirect \in Nat /\ 1 <= IDirect
           /\ \A x \in 0 .. IDirect + 1 : x # xCount /\ x # xType /\ x # xFileSize
           /\ xFileSize # xCount /\ xFileSize # xType
           /\ (0 .. IDirect + 1) \subseteq Entries /\ xFileSize \in Entries
           /\ IDirect \in 0 .. IDirect + 1 /\ IDirect + 1 \in 0 .. IDirect + 1
BY SizesAssumption DEF IDirect, IIndirect, xCount, xType, xFileSize, Entries

LEMMA DirectSound ==
    ASSUME IHeight >= 6, TypeOK, TypeOK', Sound, NEW i \in InodeNumbers, InUse(i),
           NEW bn, NEW free, TakenFrom(bn, free), NEW sz \in Nat,
           NEW nu \in Nat, nu = NBlocks(i), InBlocks(sz) <= nu + 1, bn = 0 => InBlocks(sz) <= nu,
           nu < IDirect, SetDirect(i, nu, bn, free, sz)
    PROVE  Sound' /\ Settles
<1> DEFINE s1 == <<"inode", i, nu, 0>>
<1>1. nu \in 0 .. IDirect + 1 /\ nu \in Entries /\ nu # xFileSize
  <2>1. nu \in 0 .. IDirect + 1
    BY WideLayout
  <2> QED
    BY <2>1, WideLayout
<1>2. /\ inode'[i] = [inode[i] EXCEPT ![nu] = bn, ![xFileSize] = sz]
      /\ \A j \in InodeNumbers \ {i} : inode'[j] = inode[j]
      /\ UNCHANGED <<fbvInodes, block>>
  BY DEF SetDirect, TypeOK
<1>3. /\ inode'[i][nu] = bn /\ inode'[i][xFileSize] = sz
      /\ \A x \in 0 .. IDirect + 1 : x # nu => inode'[i][x] = inode[i][x]
  <2>1. inode[i] \in [Entries -> Nat] /\ xFileSize \in Entries
    BY Layout DEF TypeOK
  <2>2. \A x \in 0 .. IDirect + 1 : x # xFileSize /\ x \in Entries
    BY WideLayout
  <2> QED
    BY <1>1, <1>2, <2>1, <2>2
<1>4. \A j \in InodeNumbers : InUse(j)' = InUse(j)
  BY <1>2 DEF InUse
<1>5. \A s \in Slots : s[2] # i => Pointer(s)' = Pointer(s)
  BY <1>2, <1>4, OthersKept DEF Sound
<1>6. /\ \A x \in 0 .. IDirect + 1 : x # nu =>
           Pointer(<<"inode", i, x, 0>>)' = Pointer(<<"inode", i, x, 0>>)
      /\ s1 \in Slots /\ Pointer(s1)' = bn /\ Pointer(s1) = inode[i][nu]
  <2>1. InUse(i)'
    BY <1>4
  <2> QED
    BY <1>1, <1>3, <2>1, SlotHolds, SlotHoldsNext
<1>7. inode'[i][IDirect] = inode[i][IDirect] /\ inode'[i][IDirect + 1] = inode[i][IDirect + 1]
  BY <1>1, <1>3, WideLayout
<1>8. \A w \in Words : Pointer(<<"single", i, w, 0>>)' = Pointer(<<"single", i, w, 0>>)
  BY <1>2, <1>4, <1>7, SingleKept DEF Sound
<1>9. \A v \in Words :
        /\ Pointer(<<"double", i, v, 0>>)' = Pointer(<<"double", i, v, 0>>)
        /\ Word(inode[i][IDirect + 1], v)' = Word(inode[i][IDirect + 1], v)
  BY <1>2, <1>4, <1>7, DoubleKept DEF Sound
<1>10. \A v, w \in Words : Pointer(<<"leaf", i, v, w>>)' = Pointer(<<"leaf", i, v, w>>)
  BY <1>2, <1>4, <1>9, LeafKept DEF Sound
<1>11. \A s \in Slots : s # s1 => Pointer(s)' = Pointer(s)
  BY <1>5, <1>6, <1>8, <1>9, <1>10, SlotKinds
<1>12. Disjoint' /\ FreeInArea'
  <2> HIDE DEF s1
  <2>1. CASE bn = 0 /\ free = fbvBlocks
    <3>1. fbvBlocks' \subseteq fbvBlocks \cup {0} \cup {Pointer(s1)}
      BY <1>6, <2>1 DEF SetDirect, Released
    <3>2. Disjoint'
      BY <1>6, <1>11, <2>1, <3>1, PreservedReleasingOne DEF Sound
    <3>3. FreeInArea'
      BY <1>6, <3>1, FreeKeptInArea DEF Sound
    <3> QED
      BY <3>2, <3>3
  <2>2. CASE bn \in fbvBlocks \cap Area /\ bn # 0 /\ free = fbvBlocks \ {bn}
    <3>1. fbvBlocks' = fbvBlocks \ {bn}
      BY <2>2 DEF SetDirect
    <3>2. Disjoint'
      BY <1>6, <1>11, <2>2, <3>1, PreservedTakingOne DEF Sound
    <3> QED
      BY <3>1, <3>2 DEF FreeInArea, Sound
  <2> QED
    BY <2>1, <2>2 DEF TakenFrom
<1>13. RootedAt(i)'
  <2>1. NBlocks(i)' = InBlocks(sz)
    BY <1>3 DEF NBlocks, Size, InBlocks
  <2>2. InBlocks(sz) \in Nat /\ InBlocks(sz) <= IDirect
    BY BlocksBound, WideLayout
  <2>3. IDirect <= IIndirectOne
    BY Layout, SizesAssumption DEF IIndirectOne
  <2>4. \A k \in Words : ~(NBlocks(i)' > IIndirectOne + BNPB * k)
    BY <2>1, <2>2, <2>3, Thresholds
  <2>5. ~(NBlocks(i)' > IDirect)
    BY <2>1, <2>2, Thresholds
  <2> QED
    BY <2>4, <2>5 DEF RootedAt
<1>14. Settled(i)
  <2>1. ASSUME NEW k \in Nat, k < IDirect
        PROVE  Place(i, k) = <<"inode", i, k, 0>> /\ k \in 0 .. IDirect + 1
    BY <2>1, WideLayout DEF Place
  <2>2. \A k \in Nat : k < nu => Pointer(Place(i, k))' = Pointer(Place(i, k))
    BY <1>6, <2>1, WideLayout
  <2>3. Pointer(Place(i, nu))' = bn
    BY <1>6, <2>1
  <2>4. NBlocks(i)' = InBlocks(sz)
    BY <1>3 DEF NBlocks, Size, InBlocks
  <2> QED
    BY <2>2, <2>3, <2>4, StoredSettled
<1>15. Settles
  BY <1>2, <1>4, <1>5, <1>14, OthersSettled
<1> QED
  BY <1>2, <1>4, <1>5, <1>12, <1>13, <1>15, OthersRooted DEF Sound, Rooted

\* What TakenFrom leaves to take an index block from.
LEMMA Takings ==
    ASSUME FreeInArea, NEW bn, NEW free, TakenFrom(bn, free)
    PROVE  /\ free \subseteq fbvBlocks
           /\ bn # 0 => bn \in (fbvBlocks \cap Area) \ free
BY DEF TakenFrom

LEMMA SingleSound ==
    ASSUME IHeight >= 6, TypeOK, TypeOK', Sound, NEW i \in InodeNumbers, InUse(i),
           NEW bn, NEW free, TakenFrom(bn, free), NEW sz \in Nat,
           NEW nu \in Nat, nu = NBlocks(i), InBlocks(sz) <= nu + 1, bn = 0 => InBlocks(sz) <= nu,
           NEW k \in Words, nu = IDirect + k,
           SetSingleIndirect(i, k, bn, free, sz), ~starved'
    PROVE  Sound' /\ Settles
<1> DEFINE new == FreeBit(free, NTotalBlocks)
           s0 == <<"inode", i, IDirect, 0>>
           s1 == <<"single", i, k, 0>>
<1> USE DEF WantsSingle
<1>1. IDirect \in 0 .. IDirect + 1 /\ IDirect + 1 \in 0 .. IDirect + 1 /\ IDirect \in Nat
      /\ k \in Nat /\ IDirect # IDirect + 1
  BY WideLayout DEF Words
<1>2. PICK single :
        /\ single = (IF k = 0 THEN new ELSE inode[i][IDirect])
        /\ inode' = [inode EXCEPT ![i] = [@ EXCEPT ![IDirect] = single, ![xFileSize] = sz]]
        /\ block' = WriteWord(IF k = 0 THEN ZeroedBlock(block, single) ELSE block, single, k, bn)
        /\ fbvBlocks' = (IF k = 0 THEN free \ {single} ELSE free)
        /\ k = 0 => single # 0
        /\ UNCHANGED fbvInodes
  BY DEF SetSingleIndirect, Taken
<1> HIDE DEF WantsSingle
<1>3. /\ inode'[i][IDirect] = single /\ inode'[i][IDirect + 1] = inode[i][IDirect + 1]
      /\ \A y \in 0 .. IDirect + 1 : y # IDirect => inode'[i][y] = inode[i][y]
      /\ \A j \in InodeNumbers \ {i} : inode'[j] = inode[j]
      /\ \A j \in InodeNumbers : InUse(j)' = InUse(j)
      /\ NBlocks(i)' = InBlocks(sz)
  <2>1. /\ inode'[i] = [inode[i] EXCEPT ![IDirect] = single, ![xFileSize] = sz]
        /\ \A j \in InodeNumbers \ {i} : inode'[j] = inode[j]
        /\ fbvInodes' = fbvInodes
    BY <1>2 DEF TypeOK
  <2>2. /\ inode[i] \in [Entries -> Nat] /\ xFileSize \in Entries
        /\ \A y \in 0 .. IDirect + 1 : y # xFileSize /\ y \in Entries
    BY WideLayout DEF TypeOK
  <2>3. inode'[i][IDirect] = single /\ inode'[i][xFileSize] = sz
    BY <1>1, <2>1, <2>2
  <2>4. \A y \in 0 .. IDirect + 1 : y # IDirect => inode'[i][y] = inode[i][y]
    BY <1>1, <2>1, <2>2
  <2>5. \A j \in InodeNumbers : InUse(j)' = InUse(j)
    BY <2>1 DEF InUse
  <2>6. NBlocks(i)' = InBlocks(sz)
    BY <2>3 DEF NBlocks, Size, InBlocks
  <2> QED
    BY <1>1, <2>1, <2>3, <2>4, <2>5, <2>6
<1>4. /\ free \in SUBSET fbvBlocks
      /\ bn # 0 => bn \in (fbvBlocks \cap Area) \ free
  BY Takings DEF Sound
\* The index block is a free one or, past the first entry, the one there is.
<1>5. /\ s0 \in Slots /\ Pointer(s0) = inode[i][IDirect] /\ Pointer(s0)' = single
      /\ s1 \in Slots
  BY <1>1, <1>3, SlotHolds, SlotHoldsNext
<1>6. /\ single # 0 /\ single \in Blocks
      /\ k = 0 => single \in free \cap Area
      /\ k # 0 => single = Pointer(s0)
  <2>1. CASE k = 0
    <3>1. new = 0 \/ new \in free \cap Area
      BY <1>4, FreeBlockInArea DEF Sound
    <3> HIDE DEF new
    <3> QED
      BY <1>2, <2>1, <3>1, SizesAssumption DEF Area, Blocks
  <2>2. CASE k # 0
    <3>1. NBlocks(i) > IDirect
      BY <1>1, <2>2
    <3>2. Pointer(s0) # 0
      BY <3>1 DEF Sound, Rooted, RootedAt
    <3> QED
      BY <1>2, <1>5, <2>2, <3>2, IndexBlocks DEF Sound
  <2> QED
    BY <2>1, <2>2
<1>7. /\ \A b \in Blocks : b # single => block'[b] = block[b]
      /\ block'[single][k] = bn
      /\ \A w \in Words : w # k =>
           block'[single][w] = (IF k = 0 THEN 0 ELSE block[single][w])
  <2>1. block \in BlockTables
    BY DEF TypeOK, BlockTables
  <2> QED
    BY <1>2, <1>6, <2>1 DEF WriteWord, ZeroedBlock, ZeroBlock, BlockTables
<1>8. \A s \in Slots : s[2] # i => Pointer(s)' = Pointer(s)
  <2>1. s0[2] = i
    OBVIOUS
  <2>2. \A b \in Blocks : \/ block'[b] = block[b]
                          \/ b \in fbvBlocks
                          \/ \E s \in Slots : s[2] = i /\ Pointer(s) = b /\ b # 0
    BY <1>4, <1>5, <1>6, <1>7, <2>1
  <2> QED
    BY <1>3, <2>2, OthersKept DEF Sound
<1>9. \A y \in 0 .. IDirect + 1 : y # IDirect =>
        Pointer(<<"inode", i, y, 0>>)' = Pointer(<<"inode", i, y, 0>>)
  BY <1>3, SlotHolds, SlotHoldsNext
<1>10. \A w \in Words :
         /\ Pointer(<<"single", i, w, 0>>)' = block'[single][w]
         /\ k # 0 => Pointer(<<"single", i, w, 0>>) = block[single][w]
  <2>1. \A w \in Words : Pointer(<<"single", i, w, 0>>)' = Word(inode[i][IDirect], w)'
    BY <1>3, SlotHoldsNext
  <2>2. k # 0 => \A w \in Words : Pointer(<<"single", i, w, 0>>) = block[single][w]
    BY <1>2, <1>6, SlotHolds DEF Word
  <2> QED
    BY <1>3, <1>6, <2>1, <2>2 DEF Word
\* The double indirect tree is made of other blocks.
<1>11. \A s \in Slots : s # s0 /\ Pointer(s) # 0 => Pointer(s) # single
  BY <1>4, <1>6, <1>5 DEF Sound, Disjoint
<1>12. \A v \in Words :
         /\ Pointer(<<"double", i, v, 0>>)' = Pointer(<<"double", i, v, 0>>)
         /\ Word(inode[i][IDirect + 1], v)' = Word(inode[i][IDirect + 1], v)
  <2>1. <<"inode", i, IDirect + 1, 0>> \in Slots /\ <<"inode", i, IDirect + 1, 0>> # s0
    BY <1>1, SlotHolds
  <2>2. inode[i][IDirect + 1] # 0 =>
          block'[inode[i][IDirect + 1]] = block[inode[i][IDirect + 1]]
    <3> HIDE DEF s0
    <3> QED
      BY <1>7, <1>11, <2>1, IndexBlocks DEF Sound
  <2> QED
    BY <1>3, <2>2, DoubleKept DEF Sound
<1>13. ASSUME NEW v \in Words
       PROVE  \A w \in Words : Pointer(<<"leaf", i, v, w>>)' = Pointer(<<"leaf", i, v, w>>)
  <2>1. <<"double", i, v, 0>> \in Slots /\ <<"double", i, v, 0>> # s0
    BY SlotHolds
  <2>2. Word(inode[i][IDirect + 1], v) # 0 =>
          block'[Word(inode[i][IDirect + 1], v)] = block[Word(inode[i][IDirect + 1], v)]
    <3> HIDE DEF s0
    <3> QED
      BY <1>7, <1>11, <2>1, IndexBlocks DEF Sound
  <2> QED
    BY <1>3, <1>12, <2>2, LeafKept DEF Sound
<1>14. \A s \in Slots : \/ Pointer(s)' = 0 \/ Pointer(s)' = Pointer(s)
                        \/ k = 0 /\ s = s0 /\ Pointer(s)' = single
                        \/ s = s1 /\ Pointer(s)' = bn
  BY <1>5, <1>6, <1>7, <1>8, <1>9, <1>10, <1>12, <1>13, SlotKinds
<1>15. Disjoint' /\ FreeInArea'
  <2> HIDE DEF s0, s1
  <2>1. fbvBlocks' \subseteq fbvBlocks
    BY <1>2, <1>4
  <2>2. CASE k = 0
    <3>1. /\ single \in (fbvBlocks \cap Area) \ fbvBlocks' /\ single # bn
          /\ bn # 0 => bn \in (fbvBlocks \cap Area) \ fbvBlocks'
      BY <1>2, <1>4, <1>6, <2>2
    <3>2. \A s \in Slots : \/ Pointer(s)' = 0 \/ Pointer(s)' = Pointer(s)
                           \/ s = s0 /\ Pointer(s)' = single
                           \/ s = s1 /\ Pointer(s)' = bn
      BY <1>14
    <3>3. Disjoint /\ (single # 0 => single # bn)
      BY <3>1 DEF Sound
    <3>4. Disjoint'
      BY <2>1, <3>1, <3>2, <3>3, PreservedTakingTwo, SMTT(20), ZenonT(40)
    <3> QED
      BY <2>1, <3>4 DEF FreeInArea, Sound
  <2>3. CASE k # 0
    <3>1. bn # 0 => bn \in (fbvBlocks \cap Area) \ fbvBlocks'
      BY <1>2, <1>4, <2>3
    <3>2. \A s \in Slots : \/ Pointer(s)' = 0 \/ Pointer(s)' = Pointer(s)
                           \/ s = s1 /\ Pointer(s)' = bn
      BY <1>14, <2>3
    <3>3. Disjoint
      BY DEF Sound
    <3>4. Disjoint'
      BY <2>1, <3>1, <3>2, <3>3, PreservedTakingOne
    <3> QED
      BY <2>1, <3>4 DEF FreeInArea, Sound
  <2> QED
    BY <2>2, <2>3
<1>16. RootedAt(i)'
  <2>1. InBlocks(sz) \in Nat /\ InBlocks(sz) <= IIndirectOne
    BY <1>1, BlocksBound, SizesAssumption DEF IIndirectOne, Words
  <2>2. \A j \in Words : ~(NBlocks(i)' > IIndirectOne + BNPB * j)
    BY <1>3, <2>1, Thresholds
  <2> QED
    BY <1>5, <1>6, <2>2 DEF RootedAt
<1>17. Settled(i)
  <2>1. ASSUME NEW m \in Nat, m < nu, m < IIndirectTwo
        PROVE  Pointer(Place(i, m))' = Pointer(Place(i, m))
    <3>1. CASE m < IDirect
      <4>1. Place(i, m) = <<"inode", i, m, 0>> /\ m \in 0 .. IDirect + 1 /\ m # IDirect
        BY <1>1, <3>1 DEF Place
      <4> QED
        BY <1>9, <4>1
    <3>2. CASE IDirect <= m
      <4>1. m - IDirect \in Words /\ m - IDirect # k /\ k # 0 /\ m < IIndirectOne
        BY <1>1, <2>1, <3>2, SizesAssumption DEF Words, IIndirectOne
      <4>2. Place(i, m) = <<"single", i, m - IDirect, 0>>
        BY <1>1, <3>2, <4>1 DEF Place
      <4> QED
        BY <1>7, <1>10, <4>1, <4>2
    <3> QED
      BY <1>1, <3>1, <3>2
  <2>2. Pointer(Place(i, nu))' = bn
    <3>1. nu < IIndirectOne /\ ~(nu < IDirect) /\ nu - IDirect = k
      BY <1>1, SizesAssumption DEF Words, IIndirectOne
    <3>2. Place(i, nu) = s1
      BY <3>1 DEF Place
    <3> QED
      BY <1>7, <1>10, <3>2
  <2> QED
    BY <1>3, <2>1, <2>2, StoredSettled
<1>18. Settles
  BY <1>3, <1>8, <1>17, OthersSettled
<1> QED
  BY <1>3, <1>8, <1>15, <1>16, <1>18, OthersRooted DEF Sound, Rooted

\* What setDoubleIndirect leaves in the words it may write: the root of the
\* tree, the entry of leaf a, and entry b of the leaf.
LEMMA DoubleStored ==
    ASSUME IHeight >= 6, TypeOK, Sound, NEW i \in InodeNumbers, InUse(i),
           NEW bn, NEW free, TakenFrom(bn, free), NEW sz \in Nat,
           NEW k \in Nat, NEW a \in Words, NEW b \in Words, a = k \div BNPB, b = k % BNPB,
           SetDoubleIndirect(i, k, bn, free, sz), ~starved'
    PROVE  \E root, leaf \in Blocks \ {0} :
             /\ inode' = [inode EXCEPT ![i] = [@ EXCEPT ![IDirect + 1] = root, ![xFileSize] = sz]]
             /\ root # leaf
             /\ \A x \in Blocks \ {root, leaf} : block'[x] = block[x]
             /\ block'[root][a] = leaf
             /\ \A v \in Words \ {a} : block'[root][v] = Word(inode[i][IDirect + 1], v)
             /\ block'[leaf][b] = bn
             /\ \A w \in Words \ {b} :
                  block'[leaf][w] = Word(Word(inode[i][IDirect + 1], a), w)
             /\ fbvBlocks' \subseteq free
             /\ \/ root = inode[i][IDirect + 1]
                \/ root \in (free \cap Area) \ fbvBlocks'
             /\ \/ leaf = Word(inode[i][IDirect + 1], a)
                \/ leaf \in (free \cap Area) \ fbvBlocks'
             /\ fbvInodes' = fbvInodes
<1> DEFINE r == inode[i][IDirect + 1]
           root == IF r = 0 THEN FreeBit(free, NTotalBlocks) ELSE r
           free1 == IF r = 0 THEN free \ {root} ELSE free
           block1 == IF r = 0 THEN ZeroedBlock(block, root) ELSE block
           entry == block1[root][a]
           leaf == IF entry = 0 THEN FreeBit(free1, NTotalBlocks) ELSE entry
           block2 == IF entry = 0 THEN WriteWord(ZeroedBlock(block1, leaf), root, a, leaf)
                     ELSE block1
<1>1. /\ fbvBlocks' = IF entry = 0 THEN free1 \ {leaf} ELSE free1
      /\ inode' = [inode EXCEPT ![i] = [@ EXCEPT ![IDirect + 1] = root, ![xFileSize] = sz]]
      /\ block' = WriteWord(block2, leaf, b, bn)
      /\ root # 0 /\ leaf # 0
      /\ fbvInodes' = fbvInodes
  BY DEF SetDoubleIndirect, Taken, WantsIndex
<1>2. /\ free \in SUBSET fbvBlocks /\ FreeInArea /\ Disjoint
      /\ IDirect + 1 \in 0 .. IDirect + 1 /\ block \in BlockTables
  BY Takings, WideLayout DEF Sound, TypeOK, BlockTables
<1>3. /\ r = 0 => root \in free \cap Area
      /\ r # 0 => root = r /\ r = Pointer(<<"inode", i, IDirect + 1, 0>>)
      /\ root \in Blocks \ {0}
  <2>1. CASE r = 0
    <3>1. root \in free \cap Area
      BY <1>1, <1>2, <2>1, FreeBlockInArea
    <3> QED
      BY <1>1, <2>1, <3>1, SizesAssumption DEF Area, Blocks
  <2>2. CASE r # 0
    BY <1>2, <2>2, IndexBlocks
  <2> QED
    BY <2>1, <2>2
<1>4. /\ block1 \in [Blocks -> [Words -> Nat]]
      /\ \A x \in Blocks \ {root} : block1[x] = block[x]
      /\ \A v \in Words : block1[root][v] = Word(r, v)
  <2> HIDE DEF root
  <2>1. CASE r = 0
    BY <1>2, <1>3, <2>1 DEF ZeroedBlock, ZeroBlock, BlockTables, Word
  <2>2. CASE r # 0
    BY <1>2, <1>3, <2>2 DEF BlockTables, Word
  <2> QED
    BY <2>1, <2>2
<1>5. entry = Word(r, a)
  BY <1>4
<1>6. /\ entry = 0 => leaf \in free1 \cap Area
      /\ entry # 0 => leaf = entry /\ leaf = Pointer(<<"double", i, a, 0>>)
      /\ leaf \in Blocks \ {0}
  <2> HIDE DEF entry
  <2>1. CASE entry = 0
    <3>1. free1 \in SUBSET fbvBlocks
      BY <1>2
    <3>2. leaf \in free1 \cap Area
      <4> HIDE DEF free1
      <4> QED
        BY <1>1, <1>2, <2>1, <3>1, FreeBlockInArea
    <3> QED
      BY <1>1, <2>1, <3>2, SizesAssumption DEF Area, Blocks
  <2>2. CASE entry # 0
    <3>1. r # 0
      BY <1>5, <2>2 DEF Word
    <3> QED
      BY <1>2, <1>5, <2>2, <3>1, IndexBlocks
  <2> QED
    BY <2>1, <2>2
<1>7. root # leaf
  <2>1. <<"inode", i, IDirect + 1, 0>> \in Slots /\ <<"double", i, a, 0>> \in Slots
        /\ <<"inode", i, IDirect + 1, 0>> # <<"double", i, a, 0>>
    BY <1>2, SlotHolds
  <2>2. r = 0 => entry = 0
    BY <1>5 DEF Word
  <2> HIDE DEF root, leaf, entry
  <2>3. CASE r = 0
    BY <1>6, <2>2, <2>3
  <2>4. CASE r # 0 /\ entry = 0
    BY <1>2, <1>3, <1>6, <2>1, <2>4 DEF Disjoint
  <2>5. CASE r # 0 /\ entry # 0
    BY <1>2, <1>3, <1>6, <2>1, <2>5 DEF Disjoint
  <2> QED
    BY <2>3, <2>4, <2>5
<1>8. /\ block2 \in [Blocks -> [Words -> Nat]]
      /\ \A x \in Blocks \ {root, leaf} : block2[x] = block1[x]
      /\ block2[root][a] = leaf
      /\ \A v \in Words \ {a} : block2[root][v] = block1[root][v]
      /\ \A w \in Words : block2[leaf][w] = (IF entry = 0 THEN 0 ELSE block[leaf][w])
  <2>1. entry = block1[root][a] /\ (entry # 0 => leaf = entry)
    BY <1>6
  <2> HIDE DEF root, leaf, entry, block1
  <2>2. CASE entry = 0
    <3>1. leaf \in Nat
      BY <1>6, SizesAssumption DEF Blocks
    <3> QED
      BY <1>3, <1>4, <1>6, <1>7, <2>2, <3>1 DEF WriteWord, ZeroedBlock, ZeroBlock
  <2>3. CASE entry # 0
    BY <1>3, <1>4, <1>6, <1>7, <2>1, <2>3
  <2> QED
    BY <2>2, <2>3
<1>9. /\ \A x \in Blocks \ {leaf} : block'[x] = block2[x]
      /\ block'[leaf][b] = bn
      /\ \A w \in Words \ {b} : block'[leaf][w] = block2[leaf][w]
  <2> HIDE DEF root, leaf, entry, block1, block2
  <2> QED
    BY <1>1, <1>6, <1>8 DEF WriteWord
<1>10. /\ fbvBlocks' \subseteq free
       /\ root = r \/ root \in (free \cap Area) \ fbvBlocks'
       /\ leaf = Word(r, a) \/ leaf \in (free \cap Area) \ fbvBlocks'
  <2> HIDE DEF root, leaf, entry, r
  <2> QED
    BY <1>1, <1>3, <1>5, <1>6
<1>11. \A w \in Words \ {b} : block'[leaf][w] = Word(Word(r, a), w)
  <2> HIDE DEF root, leaf, entry, block1, block2, r
  <2> QED
    BY <1>5, <1>6, <1>8, <1>9 DEF Word
<1> HIDE DEF root, leaf, entry, block1, block2, free1, r
<1>12. \A x \in Blocks \ {root, leaf} : block'[x] = block[x]
  BY <1>4, <1>8, <1>9
<1>13. /\ block'[root][a] = leaf
       /\ \A v \in Words \ {a} : block'[root][v] = Word(r, v)
  BY <1>3, <1>4, <1>7, <1>8, <1>9
<1> QED
  BY <1>1, <1>3, <1>6, <1>7, <1>9, <1>10, <1>11, <1>12, <1>13 DEF r

LEMMA DoubleSound ==
    ASSUME IHeight >= 6, TypeOK, TypeOK', Sound, NEW i \in InodeNumbers, InUse(i),
           NEW bn, NEW free, TakenFrom(bn, free), NEW sz \in Nat,
           NEW nu \in Nat, nu = NBlocks(i), InBlocks(sz) <= nu + 1, bn = 0 => InBlocks(sz) <= nu,
           NEW k \in Nat, k < BNPB * BNPB, nu = IIndirectOne + k,
           SetDoubleIndirect(i, k, bn, free, sz), ~starved'
    PROVE  Sound' /\ Settles
<1>1. PICK a \in Words, b \in Words :
        a = k \div BNPB /\ b = k % BNPB /\ k = BNPB * a + b
  BY TwoIndices
<1>2. PICK root \in Blocks \ {0}, leaf \in Blocks \ {0} :
        /\ inode' = [inode EXCEPT ![i] = [@ EXCEPT ![IDirect + 1] = root, ![xFileSize] = sz]]
        /\ root # leaf
        /\ \A x \in Blocks \ {root, leaf} : block'[x] = block[x]
        /\ block'[root][a] = leaf
        /\ \A v \in Words \ {a} : block'[root][v] = Word(inode[i][IDirect + 1], v)
        /\ block'[leaf][b] = bn
        /\ \A w \in Words \ {b} : block'[leaf][w] = Word(Word(inode[i][IDirect + 1], a), w)
        /\ fbvBlocks' \subseteq free
        /\ \/ root = inode[i][IDirect + 1]
           \/ root \in (free \cap Area) \ fbvBlocks'
        /\ \/ leaf = Word(inode[i][IDirect + 1], a)
           \/ leaf \in (free \cap Area) \ fbvBlocks'
        /\ fbvInodes' = fbvInodes
  BY <1>1, DoubleStored
<1> DEFINE s0 == <<"inode", i, IDirect + 1, 0>>
           s1 == <<"double", i, a, 0>>
           s2 == <<"leaf", i, a, b>>
<1>3. /\ \A y \in 0 .. IDirect : inode'[i][y] = inode[i][y]
      /\ inode'[i][IDirect + 1] = root
      /\ \A j \in InodeNumbers \ {i} : inode'[j] = inode[j]
      /\ \A j \in InodeNumbers : InUse(j)' = InUse(j)
      /\ NBlocks(i)' = InBlocks(sz)
  <2>1. /\ inode'[i] = [inode[i] EXCEPT ![IDirect + 1] = root, ![xFileSize] = sz]
        /\ \A j \in InodeNumbers \ {i} : inode'[j] = inode[j]
    BY <1>2 DEF TypeOK
  <2>2. /\ inode[i] \in [Entries -> Nat] /\ xFileSize \in Entries /\ IDirect \in Nat
        /\ \A y \in 0 .. IDirect + 1 : y # xFileSize /\ y \in Entries
    BY WideLayout DEF TypeOK
  <2>3. inode'[i][IDirect + 1] = root /\ inode'[i][xFileSize] = sz
    BY <2>1, <2>2
  <2>4. \A y \in 0 .. IDirect : inode'[i][y] = inode[i][y]
    <3>1. \A y \in 0 .. IDirect : y # IDirect + 1 /\ y # xFileSize /\ y \in Entries
      BY <2>2
    <3> QED
      BY <2>1, <2>2, <3>1
  <2>5. \A j \in InodeNumbers : InUse(j)' = InUse(j)
    BY <1>2 DEF InUse
  <2>6. NBlocks(i)' = InBlocks(sz)
    BY <2>3 DEF NBlocks, Size, InBlocks
  <2> QED
    BY <2>1, <2>3, <2>4, <2>5, <2>6
<1>4. /\ Disjoint /\ FreeInArea /\ InUse(i)' /\ IDirect \in Nat
      /\ IDirect \in 0 .. IDirect + 1 /\ IDirect + 1 \in 0 .. IDirect + 1
      /\ free \in SUBSET fbvBlocks /\ (bn # 0 => bn \in (fbvBlocks \cap Area) \ free)
  BY <1>3, Takings, WideLayout DEF Sound
<1>5. /\ s0 \in Slots /\ Pointer(s0) = inode[i][IDirect + 1] /\ Pointer(s0)' = root
      /\ s1 \in Slots /\ Pointer(s1) = Word(inode[i][IDirect + 1], a)
      /\ s2 \in Slots
  BY <1>3, <1>4, SlotHolds, SlotHoldsNext
\* The two index blocks are free ones or those of s0 and s1.
<1>6. \A s \in Slots \ {s0, s1} : Pointer(s) # 0 => Pointer(s) # root /\ Pointer(s) # leaf
  BY <1>2, <1>4, <1>5 DEF Disjoint
<1>7. \A s \in Slots : s[2] # i => Pointer(s)' = Pointer(s)
  <2>1. s0[2] = i /\ s1[2] = i
    OBVIOUS
  <2>2. \A x \in Blocks : \/ block'[x] = block[x]
                          \/ x \in fbvBlocks
                          \/ \E s \in Slots : s[2] = i /\ Pointer(s) = x /\ x # 0
    BY <1>2, <1>4, <1>5, <2>1
  <2> QED
    BY <1>3, <1>4, <2>2, OthersKept
<1>8. \A y \in 0 .. IDirect :
        Pointer(<<"inode", i, y, 0>>)' = Pointer(<<"inode", i, y, 0>>)
  BY <1>3, <1>4, SlotHolds, SlotHoldsNext
<1>9. \A w \in Words : Pointer(<<"single", i, w, 0>>)' = Pointer(<<"single", i, w, 0>>)
  <2>1. <<"inode", i, IDirect, 0>> \in Slots \ {s0, s1}
    BY <1>4, SlotHolds
  <2>2. inode[i][IDirect] # 0 => block'[inode[i][IDirect]] = block[inode[i][IDirect]]
    <3> HIDE DEF s0, s1
    <3> QED
      BY <1>2, <1>4, <1>6, <2>1, IndexBlocks
  <2>3. inode'[i][IDirect] = inode[i][IDirect]
    BY <1>3, <1>4
  <2> QED
    BY <1>4, <2>2, <2>3, SingleKept
<1>10. /\ \A v \in Words : Pointer(<<"double", i, v, 0>>)' = block'[root][v]
       /\ \A v \in Words : Word(inode[i][IDirect + 1], v)' = block'[root][v]
       /\ \A v \in Words : Pointer(<<"double", i, v, 0>>) = Word(inode[i][IDirect + 1], v)
  <2>1. \A v \in Words : Word(inode[i][IDirect + 1], v)' = block'[root][v]
    BY <1>2, <1>3 DEF Word
  <2> QED
    BY <1>4, <2>1, SlotHolds, SlotHoldsNext
<1>11. /\ Pointer(s1)' = leaf
       /\ \A v \in Words \ {a} :
            Pointer(<<"double", i, v, 0>>)' = Pointer(<<"double", i, v, 0>>)
  BY <1>2, <1>10
<1>12. ASSUME NEW v \in Words \ {a}
       PROVE  \A w \in Words : Pointer(<<"leaf", i, v, w>>)' = Pointer(<<"leaf", i, v, w>>)
  <2>1. <<"double", i, v, 0>> \in Slots \ {s0, s1}
    BY <1>4, SlotHolds
  <2>2. Word(inode[i][IDirect + 1], v) # 0 =>
          block'[Word(inode[i][IDirect + 1], v)] = block[Word(inode[i][IDirect + 1], v)]
    <3> HIDE DEF s0, s1
    <3> QED
      BY <1>2, <1>4, <1>6, <2>1, IndexBlocks
  <2>3. Word(inode[i][IDirect + 1], v)' = Word(inode[i][IDirect + 1], v)
    BY <1>2, <1>10
  <2> QED
    BY <1>4, <2>2, <2>3, LeafKept
<1>13. /\ \A w \in Words : Pointer(<<"leaf", i, a, w>>)' = block'[leaf][w]
       /\ \A w \in Words : Pointer(<<"leaf", i, a, w>>)
                             = Word(Word(inode[i][IDirect + 1], a), w)
  <2>1. Word(inode[i][IDirect + 1], a)' = leaf
    BY <1>2, <1>10
  <2>2. \A w \in Words : Pointer(<<"leaf", i, a, w>>)' = Word(Word(inode[i][IDirect + 1], a), w)'
    BY <1>4, SlotHoldsNext
  <2>3. \A w \in Words : Word(Word(inode[i][IDirect + 1], a), w)' = block'[leaf][w]
    BY <1>2, <2>1 DEF Word
  <2> QED
    BY <1>4, <2>2, <2>3, SlotHolds
<1>14. /\ Pointer(s2)' = bn
       /\ \A w \in Words \ {b} :
            Pointer(<<"leaf", i, a, w>>)' = Pointer(<<"leaf", i, a, w>>)
  BY <1>2, <1>13
<1>15. \A s \in Slots : \/ Pointer(s)' = 0 \/ Pointer(s)' = Pointer(s)
                        \/ s = s0 /\ Pointer(s)' = root
                        \/ s = s1 /\ Pointer(s)' = leaf
                        \/ s = s2 /\ Pointer(s)' = bn
  <2>1. \A y \in 0 .. IDirect + 1 : y \in 0 .. IDirect \/ y = IDirect + 1
    BY <1>4
  <2> QED
    BY <2>1, <1>5, <1>7, <1>8, <1>9, <1>11, <1>12, <1>14, SlotKinds
<1>16. Disjoint' /\ FreeInArea'
  <2> DEFINE G == {g \in {<<s0, root>>, <<s1, leaf>>, <<s2, bn>>} :
                    g[1] \in Slots /\ g[2] # Pointer(g[1])}
  <2>1. fbvBlocks' \subseteq fbvBlocks
    BY <1>2, <1>4
  <2>2. ASSUME NEW g \in G, g[2] # 0
        PROVE  /\ g[2] \in (fbvBlocks \cap Area) \ fbvBlocks'
               /\ g[1] = s0 => g[2] = root /\ g[2] # leaf /\ g[2] # bn
               /\ g[1] = s1 => g[2] = leaf /\ g[2] # root /\ g[2] # bn
               /\ g[1] = s2 => g[2] = bn /\ g[2] # root /\ g[2] # leaf
               /\ g[1] \in {s0, s1, s2}
    BY <1>2, <1>4, <1>5, <2>2 DEF Disjoint
  <2>3. \A s \in Slots : \/ Pointer(s)' = 0 \/ Pointer(s)' = Pointer(s)
                         \/ \E g \in G : g[1] = s /\ g[2] = Pointer(s)'
    <3> HIDE DEF s0, s1, s2
    <3> SUFFICES ASSUME NEW s \in Slots, Pointer(s)' # 0, Pointer(s)' # Pointer(s)
                 PROVE  \E g \in G : g[1] = s /\ g[2] = Pointer(s)'
      OBVIOUS
    <3>1. <<s, Pointer(s)'>> \in G
      BY <1>15
    <3> HIDE DEF G
    <3> QED
      BY <3>1
  <2> HIDE DEF s0, s1, s2, G
  <2>4. \A g \in G : g[2] # 0 =>
          /\ g[2] \in (fbvBlocks \cap Area) \ fbvBlocks'
          /\ \A h \in G : h[2] = g[2] => h[1] = g[1]
    BY <2>2
  <2>5. Disjoint'
    BY <1>4, <2>1, <2>3, <2>4, PreservedTaking
  <2> QED
    BY <1>4, <2>1, <2>5 DEF FreeInArea
<1>17. RootedAt(i)'
  <2>1. /\ InBlocks(sz) \in Nat /\ IIndirectOne \in Nat /\ IDirect < IIndirectOne
        /\ BNPB \in Nat \ {0}
    BY <1>4, BlocksBound, Thresholds, SizesAssumption DEF IIndirectOne
  <2>2. RootedAt(i)
    BY DEF Sound, Rooted
  <2>3. Pointer(<<"inode", i, IDirect, 0>>)' # 0
    BY <1>4, <1>8, <2>1, <2>2 DEF RootedAt
  <2>4. ASSUME NEW v \in Words, InBlocks(sz) > IIndirectOne + BNPB * v
        PROVE  Pointer(<<"double", i, v, 0>>)' # 0
    <3>1. /\ BNPB * v \in Nat /\ BNPB * a \in Nat /\ v \in Nat /\ a \in Nat
          /\ b \in 0 .. BNPB - 1 /\ BNPB * v < BNPB * a + b + 1
      BY <1>1, <2>1, <2>4, Thresholds DEF Words
    <3>2. CASE v = a
      BY <1>11, <3>2
    <3>3. CASE v < a
      <4>1. BNPB * v + BNPB <= BNPB * a
        BY <3>3, LeafBegins
      <4>2. NBlocks(i) > IIndirectOne + BNPB * v
        BY <1>1, <2>1, <3>1, <4>1
      <4>3. Pointer(<<"double", i, v, 0>>) # 0
        BY <2>2, <4>2 DEF RootedAt
      <4>4. v # a
        BY <3>1, <3>3
      <4> QED
        BY <1>11, <4>3, <4>4
    <3>4. CASE a < v
      <4>1. BNPB * a + BNPB <= BNPB * v
        BY <3>4, LeafBegins
      <4> QED
        BY <2>1, <3>1, <4>1
    <3> QED
      BY <3>1, <3>2, <3>3, <3>4
  <2> QED
    BY <1>3, <2>3, <2>4 DEF RootedAt
<1>18. Settled(i)
  <2>1. /\ IIndirectOne \in Nat /\ IDirect < IIndirectOne /\ BNPB * a \in Nat
        /\ a \in Nat /\ b \in Nat /\ nu = IIndirectOne + BNPB * a + b
    BY <1>1, <1>4, Thresholds, SizesAssumption DEF IIndirectOne, Words
  <2>2. ASSUME NEW m \in Nat, m < nu, m < IIndirectTwo
        PROVE  Pointer(Place(i, m))' = Pointer(Place(i, m))
    <3>1. CASE m < IDirect
      <4>1. Place(i, m) = <<"inode", i, m, 0>> /\ m \in 0 .. IDirect
        BY <1>4, <3>1 DEF Place
      <4> QED
        BY <1>8, <4>1
    <3>2. CASE IDirect <= m /\ m < IIndirectOne
      <4>1. m - IDirect \in Words /\ Place(i, m) = <<"single", i, m - IDirect, 0>>
        BY <1>4, <2>1, <2>2, <3>2, PlaceKinds
      <4> QED
        BY <1>9, <4>1
    <3>3. CASE IIndirectOne <= m
      <4>1. PICK v \in Words, w \in Words :
              m = IIndirectOne + BNPB * v + w /\ Place(i, m) = <<"leaf", i, v, w>>
        BY <1>4, <2>1, <2>2, <3>3, PlaceKinds
      <4>2. CASE v # a
        BY <1>12, <4>1, <4>2
      <4>3. CASE v = a
        <5>1. w # b
          BY <2>1, <2>2, <4>1, <4>3
        <5> QED
          BY <1>14, <4>1, <4>3, <5>1
      <4> QED
        BY <4>2, <4>3
    <3> QED
      BY <1>4, <2>1, <3>1, <3>2, <3>3
  <2>3. Pointer(Place(i, nu))' = bn
    <3>1. ~(nu < IDirect) /\ ~(nu < IIndirectOne) /\ nu - IIndirectOne = k
      BY <1>4, <2>1
    <3>2. Place(i, nu) = s2
      BY <1>1, <3>1 DEF Place
    <3> HIDE DEF s2
    <3> QED
      BY <1>14, <3>2
  <2> QED
    BY <1>3, <2>2, <2>3, StoredSettled
<1>19. Settles
  BY <1>3, <1>7, <1>18, OthersSettled
<1> QED
  BY <1>3, <1>7, <1>16, <1>17, <1>19, OthersRooted DEF Sound, Rooted

LEMMA BeyondSound ==
    ASSUME IHeight >= 6, TypeOK, TypeOK', Sound, NEW i \in InodeNumbers, InUse(i),
           NEW bn, NEW free, TakenFrom(bn, free), NEW sz \in Nat,
           IIndirectTwo <= NBlocks(i), BeyondCapacity(i, free, sz)
    PROVE  Sound' /\ Settles
<1>1. free \subseteq fbvBlocks
  BY Takings DEF Sound
<1>2. /\ inode' = [inode EXCEPT ![i] = [@ EXCEPT ![xFileSize] = sz]]
      /\ fbvBlocks' \subseteq fbvBlocks /\ UNCHANGED <<fbvInodes, block>>
  BY <1>1 DEF BeyondCapacity
<1>3. \A x \in 0 .. IDirect + 1 : inode'[i][x] = inode[i][x]
  BY <1>2, WideLayout DEF TypeOK
<1>4. \A j \in InodeNumbers \ {i} : inode'[j] = inode[j]
  BY <1>2 DEF TypeOK
<1> QED
  BY <1>2, <1>3, <1>4, ShapeKept

LEMMA SetLastSound ==
    ASSUME IHeight >= 6, TypeOK, TypeOK', Sound, NEW i \in InodeNumbers, InUse(i),
           NEW bn, NEW free, TakenFrom(bn, free), NEW sz \in Nat,
           InBlocks(sz) <= NBlocks(i) + 1, bn = 0 => InBlocks(sz) <= NBlocks(i),
           SetLastBlockNumber(i, bn, free, sz), ~starved'
    PROVE  Sound' /\ Settles
<1> DEFINE nu == NBlocks(i)
<1>1. /\ nu \in Nat /\ IDirect \in Nat /\ BNPB \in Nat \ {0}
      /\ IIndirectOne = IDirect + BNPB /\ IIndirectTwo = IIndirectOne + BNPB * BNPB
  BY BlockCounts, Thresholds, SizesAssumption DEF IIndirectOne, IIndirectTwo
<1>2. \/ nu < IDirect /\ SetDirect(i, nu, bn, free, sz)
      \/ IDirect <= nu /\ nu < IIndirectOne /\ SetSingleIndirect(i, nu - IDirect, bn, free, sz)
      \/ IIndirectOne <= nu /\ nu < IIndirectTwo
           /\ SetDoubleIndirect(i, nu - IIndirectOne, bn, free, sz)
      \/ IIndirectTwo <= nu /\ BeyondCapacity(i, free, sz)
  BY DEF SetLastBlockNumber
<1>3. nu = NBlocks(i) /\ InBlocks(sz) <= nu + 1 /\ (bn = 0 => InBlocks(sz) <= nu)
  OBVIOUS
<1> HIDE DEF nu
<1>4. CASE nu < IDirect /\ SetDirect(i, nu, bn, free, sz)
  BY <1>1, <1>3, <1>4, DirectSound
<1>5. CASE IDirect <= nu /\ nu < IIndirectOne /\ SetSingleIndirect(i, nu - IDirect, bn, free, sz)
  <2>1. nu - IDirect \in Words /\ nu = IDirect + (nu - IDirect)
    BY <1>1, <1>5 DEF Words
  <2> QED
    BY <1>1, <1>3, <1>5, <2>1, SingleSound
<1>6. CASE IIndirectOne <= nu /\ nu < IIndirectTwo
             /\ SetDoubleIndirect(i, nu - IIndirectOne, bn, free, sz)
  <2>1. /\ nu - IIndirectOne \in Nat /\ nu = IIndirectOne + (nu - IIndirectOne)
        /\ nu - IIndirectOne < BNPB * BNPB
    <3>1. BNPB * BNPB \in Nat
      BY <1>1
    <3> QED
      BY <1>1, <1>6, <3>1
  <2> QED
    BY <1>1, <1>3, <1>6, <2>1, DoubleSound
<1>7. CASE IIndirectTwo <= nu /\ BeyondCapacity(i, free, sz)
  BY <1>3, <1>7, BeyondSound
<1> QED
  BY <1>2, <1>4, <1>5, <1>6, <1>7
-----------------------------------------------------------------------------
(* The operations, one by one. *)
LEMMA GetFreeSound ==
    ASSUME IHeight >= 6, TypeOK, TypeOK', Sound, GetFree
    PROVE  Sound' /\ Settles
<1>1. PICK in \in InodeNumbers :
        /\ in # 0 /\ in \in fbvInodes /\ fbvInodes' = fbvInodes \ {in}
        /\ inode' = [inode EXCEPT ![in] = ZeroInode]
        /\ UNCHANGED <<fbvBlocks, block>>
  <2>1. NInodes \in Nat /\ fbvInodes \subseteq InodeNumbers
    BY SizesAssumption DEF TypeOK
  <2>2. FreeBit(fbvInodes, NInodes) \in fbvInodes
    BY <2>1, FreeBitFound, SizesAssumption DEF GetFree, InodeNumbers
  <2> QED
    BY <2>1, <2>2 DEF GetFree, Taken
<1>2. /\ \A x \in 0 .. IDirect + 1 : inode'[in][x] = 0
      /\ inode'[in][xFileSize] = 0
      /\ \A j \in InodeNumbers \ {in} : inode'[j] = inode[j] /\ InUse(j)' = InUse(j)
      /\ ~InUse(in) /\ InUse(in)' /\ Disjoint
      /\ IDirect \in 0 .. IDirect + 1 /\ IDirect + 1 \in 0 .. IDirect + 1
  BY <1>1, WideLayout DEF TypeOK, ZeroInode, InUse, Sound
<1>3. \A s \in Slots : s[2] # in => Pointer(s)' = Pointer(s)
  BY <1>1, <1>2, OthersKept
<1>4. /\ \A x \in 0 .. IDirect + 1 : Pointer(<<"inode", in, x, 0>>)' = 0
      /\ \A w \in Words : Pointer(<<"single", in, w, 0>>)' = 0
      /\ \A w \in Words : Pointer(<<"double", in, w, 0>>)' = 0
      /\ \A v, w \in Words : Pointer(<<"leaf", in, v, w>>)' = 0
  BY <1>2, SlotHoldsNext DEF Word
<1>5. \A s \in Slots : Pointer(s)' = 0 \/ Pointer(s)' = Pointer(s)
  BY <1>3, <1>4, SlotKinds
<1>6. Disjoint'
  BY <1>1, <1>2, <1>5, PreservedTakingOne
<1>7. NBlocks(in)' = 0
  BY <1>2, EmptyFile DEF NBlocks, Size, InBlocks
<1>8. RootedAt(in)' /\ Settles
  BY <1>2, <1>3, <1>7, Thresholds, OthersSettled DEF RootedAt
<1> QED
  BY <1>1, <1>2, <1>3, <1>6, <1>8, OthersRooted DEF Sound, FreeInArea, Rooted

LEMMA SetFieldSound ==
    ASSUME IHeight >= 6, TypeOK, TypeOK', Sound, NEW i \in InodeNumbers, InUse(i),
           NEW x \in {xCount, xType}, NEW v, inode' = [inode EXCEPT ![i] = [@ EXCEPT ![x] = v]],
           UNCHANGED <<fbvBlocks, fbvInodes, block>>
    PROVE  Sound' /\ Settles
<1>1. x # xFileSize /\ \A y \in 0 .. IDirect + 1 : y # x
  BY WideLayout, Layout
<1>2. /\ inode'[i] = [inode[i] EXCEPT ![x] = v]
      /\ \A j \in InodeNumbers \ {i} : inode'[j] = inode[j]
  BY DEF TypeOK
<1>3. /\ \A y \in 0 .. IDirect + 1 : inode'[i][y] = inode[i][y]
      /\ inode'[i][xFileSize] = inode[i][xFileSize]
  BY <1>1, <1>2, WideLayout DEF TypeOK
<1>4. NBlocks(i)' = NBlocks(i)
  BY <1>3 DEF NBlocks, Size
<1>5. NBlocks(i)' <= NBlocks(i)
  BY <1>4, BlockCounts
<1> QED
  BY <1>2, <1>3, <1>5, ShapeKept

LEMMA SetPathBlockSound ==
    ASSUME IHeight >= 6, TypeOK, TypeOK', Sound, NEW i \in InodeNumbers,
           SetPathBlock(i), ~starved'
    PROVE  Sound' /\ Settles
<1>1. PICK bn \in fbvBlocks \cap Area :
        /\ InUse(i) /\ bn # 0
        /\ inode'[i] = [inode[i] EXCEPT ![xType] = iTypeSoftLink, ![xCount] = 0, ![xPath] = bn]
        /\ \A j \in InodeNumbers \ {i} : inode'[j] = inode[j]
        /\ fbvBlocks' = fbvBlocks \ {bn} /\ UNCHANGED <<fbvInodes, block>>
  <2>1. LET bn == FreeBit(fbvBlocks, NTotalBlocks) IN bn = 0 \/ bn \in fbvBlocks \cap Area
    BY FreeBlockInArea DEF Sound
  <2> QED
    BY <2>1 DEF SetPathBlock, Taken, TypeOK
<1> DEFINE s1 == <<"inode", i, 0, 0>>
<1>2. /\ inode'[i][0] = bn /\ inode'[i][xFileSize] = inode[i][xFileSize]
      /\ inode'[i][xType] = iTypeSoftLink
      /\ \A x \in 1 .. IDirect + 1 : inode'[i][x] = inode[i][x]
  <2>1. /\ inode[i] \in [Entries -> Nat] /\ 0 \in 0 .. IDirect + 1
        /\ \A x \in 0 .. IDirect + 1 : x \in Entries /\ x # xCount /\ x # xType /\ x # xFileSize
        /\ xFileSize \in Entries /\ xFileSize # xCount /\ xFileSize # xType
        /\ xType \in Entries /\ xType # xCount
        /\ \A x \in 1 .. IDirect + 1 : x \in 0 .. IDirect + 1 /\ x # 0
    <3>1. 0 \in 0 .. IDirect + 1 /\ \A x \in 1 .. IDirect + 1 : x \in 0 .. IDirect + 1 /\ x # 0
      BY WideLayout
    <3>2. inode[i] \in [Entries -> Nat]
      BY DEF TypeOK
    <3>3. xType \in Entries /\ xType # xCount
      BY SizesAssumption DEF xType, xCount, Entries
    <3> QED
      BY <3>1, <3>2, <3>3, WideLayout
  <2> QED
    BY <1>1, <2>1 DEF xPath
<1>3. /\ \A j \in InodeNumbers : InUse(j)' = InUse(j)
      /\ InUse(i)' /\ Disjoint
      /\ IDirect \in 1 .. IDirect + 1 /\ IDirect + 1 \in 1 .. IDirect + 1
      /\ \A x \in 1 .. IDirect + 1 : x \in 0 .. IDirect + 1
      /\ \A x \in 0 .. IDirect + 1 : x = 0 \/ x \in 1 .. IDirect + 1
      /\ 0 \in 0 .. IDirect + 1
  BY <1>1, WideLayout DEF InUse, Sound
<1>4. \A s \in Slots : s[2] # i => Pointer(s)' = Pointer(s)
  BY <1>1, <1>3, OthersKept
<1>5. /\ \A x \in 1 .. IDirect + 1 :
           Pointer(<<"inode", i, x, 0>>)' = Pointer(<<"inode", i, x, 0>>)
      /\ Pointer(s1)' = bn
  <2>1. \A x \in 0 .. IDirect + 1 :
          /\ Pointer(<<"inode", i, x, 0>>)' = inode'[i][x]
          /\ Pointer(<<"inode", i, x, 0>>) = inode[i][x]
    BY <1>1, <1>3, SlotHolds, SlotHoldsNext
  <2> QED
    BY <1>2, <1>3, <2>1
<1>6. \A w \in Words : Pointer(<<"single", i, w, 0>>)' = Pointer(<<"single", i, w, 0>>)
  BY <1>1, <1>2, <1>3, SingleKept
<1>7. \A v \in Words :
        /\ Pointer(<<"double", i, v, 0>>)' = Pointer(<<"double", i, v, 0>>)
        /\ Word(inode[i][IDirect + 1], v)' = Word(inode[i][IDirect + 1], v)
  BY <1>1, <1>2, <1>3, DoubleKept
<1>8. \A v, w \in Words : Pointer(<<"leaf", i, v, w>>)' = Pointer(<<"leaf", i, v, w>>)
  BY <1>1, <1>3, <1>7, LeafKept
<1>9. \A s \in Slots : Pointer(s)' = Pointer(s) \/ (s = s1 /\ Pointer(s)' = bn)
  BY <1>3, <1>4, <1>5, <1>6, <1>7, <1>8, SlotKinds
<1>10. Disjoint'
  <2> HIDE DEF s1
  <2> QED
    BY <1>1, <1>3, <1>9, PreservedTakingOne
<1>11. NBlocks(i)' = NBlocks(i) /\ NBlocks(i)' <= NBlocks(i) /\ Type(i)' = iTypeSoftLink
  <2>1. NBlocks(i)' = NBlocks(i) /\ Type(i)' = iTypeSoftLink
    BY <1>2 DEF NBlocks, Size, Type
  <2> QED
    BY <2>1, BlockCounts
<1>12. RootedAt(i)'
  BY <1>1, <1>3, <1>5, <1>7, <1>11, RootedKept DEF Sound, Rooted
<1>13. Settled(i)
  <2>1. \A k \in Nat : k < IIndirectTwo =>
          Pointer(Place(i, k))' = Pointer(Place(i, k)) \/ Pointer(Place(i, k))' # 0
    BY <1>1, <1>9, PlaceKinds
  <2> QED
    BY <1>11, <2>1 DEF Settled
<1>14. Settles
  BY <1>1, <1>3, <1>4, <1>13, OthersSettled
<1> QED
  BY <1>1, <1>3, <1>4, <1>10, <1>12, <1>14, OthersRooted DEF Sound, FreeInArea, Rooted

LEMMA AppendSound ==
    ASSUME IHeight >= 6, TypeOK, TypeOK', Sound, NEW i \in InodeNumbers, NEW n \in 1 .. BSZ,
           AppendBytes(i, n), ~starved'
    PROVE  Sound' /\ Settles
<1> DEFINE fill == Fill(i, n)
           bn == FreeBit(fbvBlocks, NTotalBlocks)
<1>1. /\ Size(i) \in Nat /\ NBlocks(i) = InBlocks(Size(i)) /\ n \in Nat /\ n \in 0 .. BSZ
      /\ BSZ \in Nat \ {0} /\ InUse(i)
  BY BlockCounts, SizesAssumption DEF AppendBytes
<1>2. CASE /\ inode' = [inode EXCEPT ![i][xFileSize] = @ + fill]
           /\ UNCHANGED <<fbvBlocks, fbvInodes, block, starved>>
  <2>1. fill \in Nat /\ InBlocks(Size(i) + fill) <= InBlocks(Size(i))
    <3>1. fill \in Nat
      BY FillBound
    <3>2. Size(i) % BSZ \in 0 .. BSZ - 1
      BY <1>1
    <3>3. /\ Size(i) % BSZ # 0 => fill <= BSZ - (Size(i) % BSZ)
          /\ Size(i) % BSZ = 0 => fill = 0
      BY <1>1, <3>2 DEF Fill
    <3> QED
      BY <1>1, <3>1, <3>3, FillNeedsNoBlock
  <2> HIDE DEF fill
  <2>2. /\ inode'[i] = [inode[i] EXCEPT ![xFileSize] = Size(i) + fill]
        /\ \A j \in InodeNumbers \ {i} : inode'[j] = inode[j]
    BY <1>2 DEF TypeOK, Size
  <2>3. /\ \A x \in 0 .. IDirect + 1 : inode'[i][x] = inode[i][x]
        /\ inode'[i][xFileSize] = Size(i) + fill
    BY <2>2, WideLayout DEF TypeOK
  <2>4. NBlocks(i)' = InBlocks(Size(i) + fill)
    BY <2>3 DEF NBlocks, Size, InBlocks
  <2> QED
    BY <1>1, <1>2, <2>1, <2>2, <2>3, <2>4, ShapeKept
<1>3. CASE bn # 0 /\ SetLastBlockNumber(i, bn, Taken(fbvBlocks, bn), Size(i) + n)
  <2>1. bn \in fbvBlocks \cap Area
    BY <1>3, FreeBlockInArea DEF Sound
  <2> HIDE DEF bn
  <2>2. TakenFrom(bn, Taken(fbvBlocks, bn))
    BY <1>3, <2>1 DEF TakenFrom, Taken
  <2>3. InBlocks(Size(i) + n) <= NBlocks(i) + 1 /\ Size(i) + n \in Nat
    BY <1>1, OneBlockMore
  <2> QED
    BY <1>1, <1>3, <2>2, <2>3, SetLastSound
<1> QED
  BY <1>2, <1>3 DEF AppendBytes

LEMMA DeletePrecedingSound ==
    ASSUME IHeight >= 6, TypeOK, TypeOK', Sound, NEW i \in InodeNumbers, NEW n \in 1 .. BSZ,
           DeletePrecedingBytes(i, n), ~starved'
    PROVE  Sound' /\ Settles
<1> DEFINE sz == Size(i) - n
<1>1. /\ Size(i) \in Nat /\ NBlocks(i) = InBlocks(Size(i)) /\ n \in Nat /\ InUse(i)
      /\ sz \in Nat /\ sz <= Size(i)
  BY BlockCounts, SizesAssumption DEF DeletePrecedingBytes, Deletable, DotsSize
<1>2. InBlocks(sz) <= NBlocks(i) /\ InBlocks(sz) \in Nat /\ NBlocks(i) \in Nat
  BY <1>1, NoBlockMore, BlocksBound
<1>3. CASE /\ inode' = [inode EXCEPT ![i][xFileSize] = @ - n]
           /\ UNCHANGED <<fbvBlocks, fbvInodes, block, starved>>
  <2>1. /\ inode'[i] = [inode[i] EXCEPT ![xFileSize] = sz]
        /\ \A j \in InodeNumbers \ {i} : inode'[j] = inode[j]
    BY <1>3 DEF TypeOK, Size
  <2> HIDE DEF sz
  <2>2. /\ \A x \in 0 .. IDirect + 1 : inode'[i][x] = inode[i][x]
        /\ inode'[i][xFileSize] = sz
    BY <2>1, WideLayout DEF TypeOK
  <2>3. NBlocks(i)' = InBlocks(sz)
    BY <2>2 DEF NBlocks, Size, InBlocks
  <2> QED
    BY <1>1, <1>2, <1>3, <2>1, <2>2, <2>3, ShapeKept
<1>4. CASE SetLastBlockNumber(i, 0, fbvBlocks, sz)
  <2> HIDE DEF sz
  <2>1. TakenFrom(0, fbvBlocks) /\ InBlocks(sz) <= NBlocks(i) + 1 /\ InBlocks(sz) <= NBlocks(i)
    BY <1>2 DEF TakenFrom
  <2> QED
    BY <1>1, <1>4, <2>1, SetLastSound
<1> QED
  BY <1>3, <1>4 DEF DeletePrecedingBytes

\* setFree releases blocks the i-node's own slots hold.
LEMMA BlocksAreHeld ==
    ASSUME TypeOK, Sound, NEW i \in InodeNumbers, InUse(i), NEW m \in Nat,
           IDirect \in 0 .. IDirect + 1
    PROVE  BlockNumber(i, m) = 0 \/ \E s \in Slots : s[2] = i /\ Pointer(s) = BlockNumber(i, m)
<1>1. /\ IDirect \in Nat /\ IIndirectOne \in Nat /\ BNPB \in Nat \ {0} /\ BNPB * BNPB \in Nat
      /\ IIndirectOne = IDirect + BNPB /\ IIndirectTwo = IIndirectOne + BNPB * BNPB
      /\ NBlocks(i) \in Nat /\ RootedAt(i)
  <2>1. NBlocks(i) \in Nat
    <3>1. Size(i) \in Nat
      BY Layout DEF TypeOK, Size
    <3> QED
      BY <3>1, BlocksBound DEF NBlocks, InBlocks
  <2> QED
    BY <2>1, Thresholds, SizesAssumption DEF IIndirectOne, IIndirectTwo, Sound, Rooted
<1>2. CASE m < NBlocks(i) /\ m < IDirect
  <2>1. m \in 0 .. IDirect + 1 /\ BlockNumber(i, m) = inode[i][m]
    BY <1>1, <1>2 DEF BlockNumber
  <2>2. <<"inode", i, m, 0>>[2] = i
    OBVIOUS
  <2> QED
    BY <2>1, <2>2, SlotHolds
<1>3. CASE m < NBlocks(i) /\ IDirect <= m /\ m < IIndirectOne
  <2>1. m - IDirect \in Words /\ BlockNumber(i, m) = block[inode[i][IDirect]][m - IDirect]
    BY <1>1, <1>3 DEF BlockNumber, Words
  <2>2. inode[i][IDirect] # 0
    BY <1>1, <1>3, SlotHolds DEF RootedAt
  <2>3. Word(inode[i][IDirect], m - IDirect) = BlockNumber(i, m)
    BY <2>1, <2>2 DEF Word
  <2>4. <<"single", i, m - IDirect, 0>>[2] = i
    OBVIOUS
  <2> QED
    BY <2>1, <2>3, <2>4, SlotHolds, ZenonT(40)
<1>4. CASE m < NBlocks(i) /\ IIndirectOne <= m /\ m < IIndirectTwo
  <2> DEFINE k == m - IIndirectOne
             a == k \div BNPB
             b == k % BNPB
  <2>1. k \in Nat /\ k < BNPB * BNPB /\ BlockNumber(i, m) = DoubleEntry(i, k)
    BY <1>1, <1>4 DEF BlockNumber
  <2>2. a \in Words /\ b \in Words /\ k = BNPB * a + b
    BY <2>1, TwoIndices
  <2>3. DoubleEntry(i, k) = block[block[inode[i][IDirect + 1]][a]][b]
    BY DEF DoubleEntry
  <2>4. NBlocks(i) > IIndirectOne + BNPB * a
    <3>1. m = IIndirectOne + k
      BY <1>1, <1>4
    <3> HIDE DEF k, a, b
    <3>2. BNPB * a \in Nat /\ b \in Nat
      BY <1>1, <2>2 DEF Words
    <3> QED
      BY <1>1, <1>4, <2>2, <3>1, <3>2
  <2> HIDE DEF k, a, b
  <2>5. Word(inode[i][IDirect + 1], a) # 0
    BY <1>1, <2>2, <2>4, SlotHolds DEF RootedAt
  <2>6. Word(Word(inode[i][IDirect + 1], a), b) = BlockNumber(i, m)
    BY <2>1, <2>3, <2>5 DEF Word
  <2>7. <<"leaf", i, a, b>>[2] = i
    OBVIOUS
  <2> QED
    BY <2>2, <2>6, <2>7, SlotHolds
<1> QED
  BY <1>1, <1>2, <1>3, <1>4 DEF BlockNumber

LEMMA SetFreeSound ==
    ASSUME TypeOK, TypeOK', Sound, NEW i \in InodeNumbers, SetFree(i)
    PROVE  Sound' /\ Settles
<1> DEFINE D == {s \in Slots : s[2] = i}
<1>1. /\ InUse(i) /\ ~InUse(i)' /\ Disjoint /\ UNCHANGED <<inode, block>>
      /\ \A j \in InodeNumbers \ {i} : InUse(j)' = InUse(j)
  BY DEF SetFree, InUse, Sound
<1>2. fbvBlocks' \subseteq fbvBlocks \cup {0} \cup {Pointer(s) : s \in D}
  <2>1. IDirect \in 0 .. IDirect + 1
    BY Layout
  <2>2. \A m \in 0 .. NBlocks(i) - 1 : m \in Nat
    OBVIOUS
  <2> QED
    BY <1>1, <2>1, <2>2, BlocksAreHeld DEF SetFree, Released
<1>3. /\ \A s \in Slots : s[2] # i => Pointer(s)' = Pointer(s)
      /\ \A s \in Slots : s[2] = i => Pointer(s)' = 0
  BY <1>1, OthersKept, SlotsOfTheFree
<1>4. Disjoint' /\ FreeInArea'
  <2>1. D \in SUBSET Slots /\ \A s \in Slots : Pointer(s)' = 0 \/ (s \notin D /\ Pointer(s)' = Pointer(s))
    BY <1>3
  <2>2. fbvBlocks' \subseteq fbvBlocks \cup {0} \cup {Pointer(s) : s \in Slots}
    BY <1>2
  <2> HIDE DEF D
  <2> QED
    BY <1>1, <1>2, <2>1, <2>2, PreservedReleasing, FreeKeptInArea DEF Sound
<1>5. Settles
  BY <1>1, <1>3, OthersSettled
<1> QED
  BY <1>1, <1>3, <1>4, <1>5, OthersRooted DEF Sound, Rooted
-----------------------------------------------------------------------------
LEMMA InitSound ==
    ASSUME IHeight >= 6, Init
    PROVE  Sound
<1>1. /\ InUse(Root) /\ \A j \in InodeNumbers : InUse(j) => j = Root
      /\ fbvBlocks = NBlockBeginFiles + 1 .. NTotalBlocks - 1
      /\ Root \in InodeNumbers
  BY WideLayout, SizesAssumption DEF Init, InUse, Root, InodeNumbers
<1>2. /\ inode[Root][0] = NBlockBeginFiles /\ inode[Root][xFileSize] = 1
      /\ \A x \in 1 .. IDirect + 1 : inode[Root][x] = 0
  <2>1. inode[Root] = [ZeroInode EXCEPT ![0] = NBlockBeginFiles, ![xType] = iTypeDirectory,
                                        ![xFileSize] = DotsSize]
    <3>1. inode[Root] = RootInode
      BY <1>1 DEF Init
    <3>2. IDirect > 0
      BY WideLayout
    <3> QED
      BY <3>1, <3>2 DEF RootInode
  <2>2. \A x \in 0 .. IDirect + 1 : x \in Entries /\ x # xType /\ x # xFileSize
    BY WideLayout
  <2>3. 0 \in 0 .. IDirect + 1 /\ xFileSize \in Entries
        /\ \A x \in 1 .. IDirect + 1 : x \in 0 .. IDirect + 1 /\ x # 0
    BY WideLayout
  <2> QED
    BY <2>1, <2>2, <2>3 DEF ZeroInode, DotsSize
<1>3. /\ IDirect \in 1 .. IDirect + 1 /\ IDirect + 1 \in 1 .. IDirect + 1
      /\ 0 \in 0 .. IDirect + 1 /\ \A x \in 0 .. IDirect + 1 : x = 0 \/ x \in 1 .. IDirect + 1
  BY WideLayout
<1>4. /\ \A x \in 1 .. IDirect + 1 : Pointer(<<"inode", Root, x, 0>>) = 0
      /\ Pointer(<<"inode", Root, 0, 0>>) = NBlockBeginFiles
  <2>1. \A x \in 0 .. IDirect + 1 : Pointer(<<"inode", Root, x, 0>>) = inode[Root][x]
    BY <1>1, SlotHolds
  <2>2. \A x \in 1 .. IDirect + 1 : x \in 0 .. IDirect + 1
    BY <1>3
  <2> QED
    BY <1>2, <1>3, <2>1, <2>2
<1>5. /\ \A w \in Words : Pointer(<<"single", Root, w, 0>>) = 0
      /\ \A w \in Words : Pointer(<<"double", Root, w, 0>>) = 0
      /\ \A v, w \in Words : Pointer(<<"leaf", Root, v, w>>) = 0
  BY <1>1, <1>2, <1>3, SlotHolds DEF Word
<1>6. ASSUME NEW s \in Slots, Pointer(s) # 0
      PROVE  s = <<"inode", Root, 0, 0>>
  <2>1. PICK i \in InodeNumbers :
             \/ \E x \in 0 .. IDirect + 1 : s = <<"inode", i, x, 0>>
             \/ \E w \in Words : s = <<"single", i, w, 0>>
             \/ \E w \in Words : s = <<"double", i, w, 0>>
             \/ \E v, w \in Words : s = <<"leaf", i, v, w>>
    BY SlotKinds
  <2>2. i = Root
    <3>1. s[2] = i
      BY <2>1
    <3> QED
      BY <1>1, <1>6, <3>1, SlotsOfTheFree
  <2> QED
    BY <1>3, <1>4, <1>5, <1>6, <2>1, <2>2
<1>7. Disjoint /\ FreeInArea
  <2>1. NBlockBeginFiles \in Area /\ NBlockBeginFiles \notin fbvBlocks /\ NBlockBeginFiles # 0
    BY <1>1, SizesAssumption DEF Area
  <2>2. FreeInArea
    BY <1>1, SizesAssumption DEF FreeInArea
  <2> QED
    BY <1>4, <1>6, <2>1, <2>2 DEF Disjoint
<1>8. RootedAt(Root)
  <2>1. NBlocks(Root) \in Nat /\ NBlocks(Root) <= 1
    <3>1. InBlocks(0 + 1) <= InBlocks(0) + 1 /\ InBlocks(1) \in Nat
      BY SizesAssumption, OneBlockMore, BlocksBound
    <3> QED
      BY <1>2, <3>1, EmptyFile DEF NBlocks, Size, InBlocks
  <2>2. 1 <= IDirect /\ IDirect \in Nat /\ IDirect <= IIndirectOne
    BY WideLayout, SizesAssumption DEF IIndirectOne
  <2>3. \A k \in Words : ~(NBlocks(Root) > IIndirectOne + BNPB * k)
    BY <2>1, <2>2, Thresholds
  <2> QED
    BY <2>1, <2>2, <2>3 DEF RootedAt
<1> QED
  BY <1>1, <1>7, <1>8 DEF Sound, Rooted

(* Every operation keeps the inductive invariant. *)
LEMMA NextSound ==
    ASSUME IHeight >= 6, TypeOK, TypeOK', Sound, Next, ~starved'
    PROVE  Sound' /\ Settles
<1>1. CASE GetFree
  BY <1>1, GetFreeSound
<1>2. ASSUME NEW i \in InodeNumbers \ {Root}, NEW tp, SetType(i, tp)
      PROVE  Sound' /\ Settles
  BY <1>2, SetFieldSound DEF SetType
<1>3. ASSUME NEW i \in InodeNumbers \ {Root}, NEW c \in LinkCounts, SetCount(i, c)
      PROVE  Sound' /\ Settles
  BY <1>3, SetFieldSound DEF SetCount
<1>4. ASSUME NEW i \in InodeNumbers \ {Root}, SetPathBlock(i)
      PROVE  Sound' /\ Settles
  BY <1>4, SetPathBlockSound
<1>5. ASSUME NEW i \in InodeNumbers \ {Root}, SetFree(i)
      PROVE  Sound' /\ Settles
  BY <1>5, SetFreeSound
<1>6. ASSUME NEW i \in InodeNumbers, NEW n \in 1 .. BSZ, AppendBytes(i, n)
      PROVE  Sound' /\ Settles
  BY <1>6, AppendSound
<1>7. ASSUME NEW i \in InodeNumbers, NEW n \in 1 .. BSZ, DeletePrecedingBytes(i, n)
      PROVE  Sound' /\ Settles
  BY <1>7, DeletePrecedingSound
<1> QED
  BY <1>1, <1>2, <1>3, <1>4, <1>5, <1>6, <1>7 DEF Next

LEMMA IInvKept ==
    ASSUME IHeight >= 6, IInv, [Next]_vars
    PROVE  IInv'
<1>1. CASE Next
  <2>1. TypeOK'
    BY <1>1, NextTyped DEF IInv
  <2>2. ~starved
    BY <1>1 DEF Next
  <2> QED
    BY <1>1, <2>1, <2>2, NextSound DEF IInv
<1>2. CASE UNCHANGED vars
  <2>1. /\ \A s \in Slots : Pointer(s)' = Pointer(s)
        /\ \A i \in InodeNumbers : InUse(i)' = InUse(i) /\ NBlocks(i)' = NBlocks(i)
        /\ fbvBlocks' = fbvBlocks /\ starved' = starved
    BY <1>2 DEF vars, Pointer, Word, InUse, NBlocks, Size
  <2>2. TypeOK'
    BY NextTyped DEF IInv
  <2>3. ASSUME Sound PROVE Sound'
    <3>1. Disjoint'
      BY <2>1, <2>3, PreservedTakingOne DEF Sound
    <3>2. ASSUME NEW i \in InodeNumbers, InUse(i)'
          PROVE  RootedAt(i)'
      <4>1. InUse(i) /\ RootedAt(i)
        BY <2>1, <2>3, <3>2 DEF Sound, Rooted
      <4>2. <<"inode", i, IDirect, 0>> \in Slots /\ \A k \in Words : <<"double", i, k, 0>> \in Slots
        BY <4>1, Layout, SlotHolds
      <4>3. NBlocks(i)' <= NBlocks(i)
        BY <2>1, <2>2, BlockCounts DEF IInv
      <4> QED
        BY <2>1, <2>2, <4>1, <4>2, <4>3, RootedKept DEF IInv
    <3> QED
      BY <2>1, <2>3, <3>1, <3>2 DEF Sound, FreeInArea, Rooted
  <2> QED
    BY <2>1, <2>2, <2>3 DEF IInv
<1> QED
  BY <1>1, <1>2

(***************************************************************************)
(* Every block has one holder, for every size of volume, of block and of   *)
(* i-node from 6 words up (getFreeBlock, the setXxx methods of Inodes,     *)
(* File's append and trim, and setFree).  With 5 words or fewer an index    *)
(* block shares its word with the link count or the type, and the property *)
(* fails.                                                                  *)
(***************************************************************************)
THEOREM ExclusiveHolds ==
    ASSUME IHeight >= 6
    PROVE  Spec => []Exclusive
<1>1. Init => IInv
  BY InitTypeOK, InitSound DEF IInv
<1>2. IInv /\ [Next]_vars => IInv'
  BY IInvKept
<1>3. IInv => Exclusive
  BY DEF IInv, Sound, Disjoint, Exclusive, Area
<1> QED
  BY <1>1, <1>2, <1>3, PTL DEF Spec
-----------------------------------------------------------------------------
(* Nothing is stored in block 0: the block a last block number is stored in
   is one of the file area. *)
LEMMA SetLastSparesSuperBlock ==
    ASSUME IHeight >= 6, TypeOK, Sound, NEW i \in InodeNumbers, InUse(i),
           NEW bn, NEW free, TakenFrom(bn, free), NEW sz \in Nat,
           SetLastBlockNumber(i, bn, free, sz), ~starved'
    PROVE  block'[0] = block[0]
<1> DEFINE nu == NBlocks(i)
           single == IF nu - IDirect = 0 THEN FreeBit(free, NTotalBlocks) ELSE inode[i][IDirect]
<1>1. /\ nu \in Nat /\ IDirect \in Nat /\ 0 \in Blocks /\ block \in BlockTables
      /\ IIndirectOne = IDirect + BNPB /\ IIndirectTwo = IIndirectOne + BNPB * BNPB
      /\ BNPB \in Nat \ {0} /\ BNPB * BNPB \in Nat
  <2>1. Size(i) \in Nat
    BY Layout DEF TypeOK, Size
  <2> QED
    <3>1. nu \in Nat
      BY <2>1, BlocksBound DEF NBlocks, InBlocks
    <3>2. block \in BlockTables
      BY DEF TypeOK, BlockTables
    <3>3. 0 \in Blocks /\ BNPB \in Nat \ {0} /\ IDirect \in Nat
      BY Thresholds, SizesAssumption DEF Blocks
    <3>4. IIndirectOne = IDirect + BNPB /\ IIndirectTwo = IIndirectOne + BNPB * BNPB
      BY DEF IIndirectOne, IIndirectTwo
    <3>5. BNPB * BNPB \in Nat
      BY <3>3
    <3> QED
      BY <3>1, <3>2, <3>3, <3>4, <3>5
<1>2. CASE SetDirect(i, nu, bn, free, sz) \/ BeyondCapacity(i, free, sz)
  BY <1>2 DEF SetDirect, BeyondCapacity
<1>3. CASE IDirect <= nu /\ SetSingleIndirect(i, nu - IDirect, bn, free, sz)
  <2>1. single # 0
    <3>1. CASE nu = IDirect
      <4>1. nu - IDirect = 0
        BY <1>1, <3>1
      <4> QED
        BY <1>3, <4>1 DEF SetSingleIndirect, WantsSingle
    <3>2. CASE nu # IDirect
      <4>1. NBlocks(i) > IDirect /\ RootedAt(i) /\ IDirect \in 0 .. IDirect + 1
        BY <1>1, <1>3, <3>2 DEF Sound, Rooted
      <4>2. inode[i][IDirect] # 0
        BY <4>1, SlotHolds DEF RootedAt
      <4> QED
        BY <1>1, <1>3, <3>2, <4>2
    <3> QED
      BY <3>1, <3>2
  <2>2. \E blk \in {block, ZeroedBlock(block, single)} :
          block' = WriteWord(blk, single, nu - IDirect, bn)
    BY <1>3 DEF SetSingleIndirect, WantsSingle
  <2> HIDE DEF single
  <2> QED
    BY <1>1, <2>1, <2>2 DEF WriteWord, ZeroedBlock, BlockTables
<1>4. CASE IIndirectOne <= nu /\ nu < IIndirectTwo
             /\ SetDoubleIndirect(i, nu - IIndirectOne, bn, free, sz)
  <2> DEFINE k == nu - IIndirectOne
  <2>1. k \in Nat /\ k < BNPB * BNPB
    BY <1>1, <1>4
  <2>2. k \div BNPB \in Words /\ k % BNPB \in Words
    BY <2>1, TwoIndices
  <2>3. SetDoubleIndirect(i, k, bn, free, sz)
    BY <1>4
  <2> HIDE DEF k
  <2>4. \E root, leaf \in Blocks \ {0} : \A x \in Blocks \ {root, leaf} : block'[x] = block[x]
    BY <2>1, <2>2, <2>3, DoubleStored
  <2> QED
    BY <1>1, <2>4
<1> QED
  BY <1>2, <1>3, <1>4 DEF SetLastBlockNumber

(***************************************************************************)
(* The superblock is written by mkfs only, for every size of volume, block *)
(* and i-node from 6 words up: no append, trim, soft link or deletion      *)
(* stores anything in block 0 unless an index block was wanted in vain, so *)
(* the volume still passes FileVolume::isOK.                               *)
(***************************************************************************)
THEOREM SuperBlockKept ==
    ASSUME IHeight >= 6
    PROVE  Spec => []SuperBlockIntact
<1>1. Init => IInv /\ SuperBlockIntact
  <2>1. Init => block[0] = SuperBlock
    BY SizesAssumption DEF Init, Blocks
  <2> QED
    BY <2>1, InitTypeOK, InitSound DEF IInv, SuperBlockIntact
<1>2. IInv /\ SuperBlockIntact /\ [Next]_vars => IInv' /\ SuperBlockIntact'
  <2> SUFFICES ASSUME IInv, SuperBlockIntact, [Next]_vars, ~starved'
               PROVE  block'[0] = SuperBlock
    BY IInvKept DEF SuperBlockIntact, SuperBlock
  <2>1. CASE UNCHANGED vars
    BY <2>1 DEF vars, SuperBlockIntact
  <2>2. CASE Next
    <3>1. TypeOK /\ Sound /\ block[0] = SuperBlock
      BY <2>2 DEF IInv, Next, SuperBlockIntact
    <3>2. \A i \in InodeNumbers : SetPathBlock(i) => block' = block
      BY DEF SetPathBlock
    <3>3. ASSUME NEW i \in InodeNumbers, NEW n \in 1 .. BSZ, AppendBytes(i, n)
          PROVE  block'[0] = block[0]
      <4> DEFINE bn == FreeBit(fbvBlocks, NTotalBlocks)
      <4>1. CASE UNCHANGED block
        BY <4>1
      <4>2. CASE bn # 0 /\ SetLastBlockNumber(i, bn, Taken(fbvBlocks, bn), Size(i) + n)
        <5>1. Size(i) + n \in Nat /\ InUse(i)
          BY <3>1, <3>3, Layout, SizesAssumption DEF AppendBytes, TypeOK, Size
        <5>2. bn \in fbvBlocks \cap Area
          BY <3>1, <4>2, FreeBlockInArea DEF Sound
        <5> HIDE DEF bn
        <5>3. TakenFrom(bn, Taken(fbvBlocks, bn))
          BY <4>2, <5>2 DEF TakenFrom, Taken
        <5> QED
          BY <3>1, <4>2, <5>1, <5>3, SetLastSparesSuperBlock
      <4> QED
        BY <3>3, <4>1, <4>2 DEF AppendBytes
    <3>4. ASSUME NEW i \in InodeNumbers, NEW n \in 1 .. BSZ, DeletePrecedingBytes(i, n)
          PROVE  block'[0] = block[0]
      <4>1. CASE UNCHANGED block
        BY <4>1
      <4>2. CASE SetLastBlockNumber(i, 0, fbvBlocks, Size(i) - n)
        <5>1. Size(i) - n \in Nat /\ InUse(i)
          BY <3>1, <3>4, Layout, SizesAssumption
          DEF DeletePrecedingBytes, Deletable, DotsSize, TypeOK, Size
        <5>2. TakenFrom(0, fbvBlocks)
          BY DEF TakenFrom
        <5> QED
          BY <3>1, <4>2, <5>1, <5>2, SetLastSparesSuperBlock
      <4> QED
        BY <3>4, <4>1, <4>2 DEF DeletePrecedingBytes
    <3>5. CASE UNCHANGED block
      BY <3>1, <3>5
    <3> QED
      BY <2>2, <3>1, <3>2, <3>3, <3>4, <3>5 DEF Next, GetFree, SetType, SetCount, SetFree
  <2> QED
    BY <2>1, <2>2
<1> QED
  BY <1>1, <1>2, PTL DEF Spec
-----------------------------------------------------------------------------
(* Every block of a file can be read back, and stays where it is.          *)
(* getBlockNumber reads the place where the block number is stored. *)
ReadsPlaces ==
    \A i \in InodeNumbers : InUse(i) =>
      \A k \in Nat : k < NBlocks(i) /\ k < IIndirectTwo =>
        BlockNumber(i, k) = Pointer(Place(i, k))

(* Every position below the end of a file, and below the capacity of the   *)
(* double indirect tree, has a block: what setLastBlockNumber stored.      *)
Mapped ==
    \A i \in InodeNumbers : InUse(i) =>
      \A k \in Nat : k < NBlocks(i) /\ k < IIndirectTwo => Pointer(Place(i, k)) # 0

RInv == IInv /\ (~starved => Mapped)
-----------------------------------------------------------------------------
LEMMA PlacesRead == TypeOK /\ Sound => ReadsPlaces
<1> SUFFICES ASSUME TypeOK, Sound, NEW i \in InodeNumbers, InUse(i),
                    NEW m \in Nat, m < NBlocks(i), m < IIndirectTwo
             PROVE  BlockNumber(i, m) = Pointer(Place(i, m))
  BY DEF ReadsPlaces
<1>1. /\ IDirect \in Nat /\ IIndirectOne \in Nat /\ BNPB \in Nat \ {0} /\ BNPB * BNPB \in Nat
      /\ IIndirectOne = IDirect + BNPB /\ IIndirectTwo = IIndirectOne + BNPB * BNPB
      /\ NBlocks(i) \in Nat /\ RootedAt(i) /\ IDirect \in 0 .. IDirect + 1
  <2>1. NBlocks(i) \in Nat
    <3>1. Size(i) \in Nat
      BY Layout DEF TypeOK, Size
    <3> QED
      BY <3>1, BlocksBound DEF NBlocks, InBlocks
  <2> QED
    BY <2>1, Layout, Thresholds, SizesAssumption DEF IIndirectOne, IIndirectTwo, Sound, Rooted
<1>2. CASE m < IDirect
  <2>1. m \in 0 .. IDirect + 1 /\ BlockNumber(i, m) = inode[i][m]
    BY <1>1, <1>2 DEF BlockNumber
  <2> QED
    BY <1>2, <2>1, SlotHolds DEF Place
<1>3. CASE IDirect <= m /\ m < IIndirectOne
  <2>1. m - IDirect \in Words /\ BlockNumber(i, m) = block[inode[i][IDirect]][m - IDirect]
    BY <1>1, <1>3 DEF BlockNumber, Words
  <2>2. inode[i][IDirect] # 0
    BY <1>1, <1>3, SlotHolds DEF RootedAt
  <2>3. Place(i, m) = <<"single", i, m - IDirect, 0>>
    BY <1>1, <1>3 DEF Place
  <2> QED
    BY <2>1, <2>2, <2>3, SlotHolds DEF Word
<1>4. CASE IIndirectOne <= m
  <2> DEFINE k == m - IIndirectOne
             a == k \div BNPB
             b == k % BNPB
  <2>1. k \in Nat /\ k < BNPB * BNPB /\ BlockNumber(i, m) = DoubleEntry(i, k)
    BY <1>1, <1>4 DEF BlockNumber
  <2>2. a \in Words /\ b \in Words /\ k = BNPB * a + b
    BY <2>1, TwoIndices
  <2>3. DoubleEntry(i, k) = block[block[inode[i][IDirect + 1]][a]][b]
    BY DEF DoubleEntry
  <2>4. NBlocks(i) > IIndirectOne + BNPB * a
    <3>1. m = IIndirectOne + k
      BY <1>1, <1>4
    <3> HIDE DEF k, a, b
    <3>2. BNPB * a \in Nat /\ b \in Nat
      BY <1>1, <2>2 DEF Words
    <3> QED
      BY <1>1, <1>4, <2>2, <3>1, <3>2
  <2>5. Place(i, m) = <<"leaf", i, a, b>>
    BY <1>1, <1>4 DEF Place
  <2> HIDE DEF k, a, b
  <2>6. Word(inode[i][IDirect + 1], a) # 0
    BY <1>1, <2>2, <2>4, SlotHolds DEF RootedAt
  <2>7. Word(Word(inode[i][IDirect + 1], a), b) = BlockNumber(i, m)
    BY <2>1, <2>3, <2>6 DEF Word
  <2> QED
    BY <2>2, <2>5, <2>7, SlotHolds
<1> QED
  BY <1>1, <1>2, <1>3, <1>4

\* The same after a step.
LEMMA PlacesReadNext == TypeOK' /\ Sound' => ReadsPlaces'
BY PlacesRead, PTL
-----------------------------------------------------------------------------
LEMMA InitMapped ==
    ASSUME IHeight >= 6, Init
    PROVE  Mapped
<1>1. /\ \A j \in InodeNumbers : InUse(j) => j = Root
      /\ InUse(Root) /\ Root \in InodeNumbers /\ Root = 1
  BY SizesAssumption DEF Init, InUse, Root, InodeNumbers
<1>2. /\ inode[Root] = RootInode /\ 0 \in 0 .. IDirect + 1 /\ IDirect > 0
      /\ 0 # xType /\ 0 # xFileSize /\ 0 \in Entries /\ xFileSize \in Entries
  BY <1>1, WideLayout DEF Init, Entries, xType, xFileSize
<1>3. inode[Root][0] = NBlockBeginFiles /\ inode[Root][xFileSize] = 1
  BY <1>2, WideLayout DEF RootInode, ZeroInode, DotsSize
<1>4. NBlocks(Root) = InBlocks(1)
  BY <1>3 DEF NBlocks, Size, InBlocks
<1>5. InBlocks(1) \in Nat /\ InBlocks(1) <= 1
  BY BlocksBound, OneBlockMore, EmptyFile, SizesAssumption
<1>6. ASSUME NEW k \in Nat, k < NBlocks(Root)
      PROVE  Pointer(Place(Root, k)) # 0
  <2>1. k = 0 /\ Place(Root, 0) = <<"inode", Root, 0, 0>>
    BY <1>2, <1>4, <1>5, <1>6, WideLayout DEF Place
  <2> QED
    BY <1>1, <1>2, <1>3, <2>1, SlotHolds, SizesAssumption
<1> QED
  BY <1>1, <1>6 DEF Mapped

\* What a step settles, it maps.
LEMMA SettledMapped ==
    ASSUME TypeOK, TypeOK', Mapped, Settles
    PROVE  Mapped'
<1> SUFFICES ASSUME NEW i \in InodeNumbers, InUse(i)', NEW k \in Nat, k < NBlocks(i)',
                    k < IIndirectTwo
             PROVE  Pointer(Place(i, k))' # 0
  BY DEF Mapped
<1>1. CASE InUse(i)
  BY <1>1 DEF Settles, Settled, Mapped
<1>2. CASE ~InUse(i)
  BY <1>2 DEF Settles
<1> QED
  BY <1>1, <1>2

LEMMA RInvKept ==
    ASSUME IHeight >= 6, RInv, [Next]_vars
    PROVE  RInv'
<1>1. IInv'
  BY IInvKept DEF RInv
<1>2. CASE UNCHANGED vars
  <2>1. starved' = starved /\ Mapped' = Mapped
    BY <1>2 DEF vars, Mapped, Pointer, Word, InUse, NBlocks, Size, Place
  <2> QED
    BY <1>1, <2>1 DEF RInv
<1>3. CASE Next /\ ~starved'
  <2>1. TypeOK /\ TypeOK' /\ Sound /\ Mapped
    BY <1>1, <1>3 DEF RInv, IInv, Next
  <2>2. Settles
    BY <1>3, <2>1, NextSound
  <2> QED
    BY <1>1, <2>1, <2>2, SettledMapped DEF RInv
<1>4. CASE starved'
  BY <1>1, <1>4 DEF RInv
<1> QED
  BY <1>2, <1>3, <1>4

(***************************************************************************)
(* Every block of an ordinary file or directory can be read back, for      *)
(* every size of volume, block and i-node from 6 words up: getBlockNumber  *)
(* finds for each position the block setLastBlockNumber stored there, a    *)
(* block of the file area that is not free.                                *)
(***************************************************************************)
THEOREM FilesReadable ==
    ASSUME IHeight >= 6
    PROVE  Spec => []Readable
<1>1. Init => RInv
  BY InitTypeOK, InitSound, InitMapped DEF RInv, IInv
<1>2. RInv /\ [Next]_vars => RInv'
  BY RInvKept
<1>3. RInv => Readable
  <2> SUFFICES ASSUME RInv, ~starved, NEW i \in InodeNumbers, InUse(i),
                      NEW k \in 0 .. NBlocks(i) - 1, k < IIndirectTwo
               PROVE  BlockNumber(i, k) \in (NBlockBeginFiles .. NTotalBlocks - 1) \ fbvBlocks
    BY DEF Readable
  <2>1. TypeOK /\ Sound /\ Mapped /\ ReadsPlaces
    BY PlacesRead DEF RInv, IInv
  <2>2. k \in Nat /\ k < NBlocks(i)
    <3>1. NBlocks(i) \in Nat
      <4>1. Size(i) \in Nat
        BY <2>1, Layout DEF TypeOK, Size
      <4> QED
        BY <4>1, BlocksBound DEF NBlocks, InBlocks
    <3> QED
      BY <3>1
  <2>3. BlockNumber(i, k) = Pointer(Place(i, k)) /\ Pointer(Place(i, k)) # 0
    BY <2>1, <2>2 DEF ReadsPlaces, Mapped
  <2>4. Place(i, k) \in Slots
    BY <2>2, PlaceKinds
  <2> QED
    BY <2>1, <2>3, <2>4 DEF Sound, Disjoint, Area
<1> QED
  BY <1>1, <1>2, <1>3, PTL DEF Spec

(***************************************************************************)
(* A file's blocks stay where they are, for every size of volume, block    *)
(* and i-node from 6 words up: no append, trim, link or deletion on any    *)
(* i-node changes what getBlockNumber finds at a position that the file    *)
(* covers before and after it.                                             *)
(***************************************************************************)
THEOREM ContentsStay ==
    ASSUME IHeight >= 6
    PROVE  Spec => ContentStable
<1>1. Init => IInv
  BY InitTypeOK, InitSound DEF IInv
<1>2. IInv /\ [Next]_vars => IInv'
  BY IInvKept
<1>3. IInv /\ IInv' /\ [Next]_vars => [BlocksStay]_vars
  <2> SUFFICES ASSUME IInv, IInv', Next, ~starved', NEW i \in InodeNumbers,
                      InUse(i), InUse(i)', Type(i)' \in {iTypeOrdinary, iTypeDirectory},
                      NEW k \in 0 .. NBlocks(i) - 1, k < NBlocks(i)', k < IIndirectTwo
               PROVE  BlockNumber(i, k)' = BlockNumber(i, k)
    BY DEF BlocksStay
  <2>1. TypeOK /\ Sound /\ TypeOK' /\ Sound'
    BY DEF IInv, Next
  <2>2. ReadsPlaces /\ ReadsPlaces' /\ Settles
    BY <2>1, PlacesRead, PlacesReadNext, NextSound
  <2>3. k \in Nat /\ k < NBlocks(i)
    BY <2>1, BlockCounts
  <2>4. BlockNumber(i, k) = Pointer(Place(i, k)) /\ BlockNumber(i, k)' = Pointer(Place(i, k))'
    BY <2>2, <2>3 DEF ReadsPlaces
  <2>5. Type(i)' # iTypeSoftLink
    BY DEF iTypeOrdinary, iTypeDirectory, iTypeSoftLink
  <2>6. Pointer(Place(i, k))' = Pointer(Place(i, k))
    BY <2>2, <2>3, <2>5, BlockCounts, <2>1 DEF Settles, Settled
  <2> QED
    BY <2>4, <2>6
<1> QED
  BY <1>1, <1>2, <1>3, PTL DEF Spec, ContentStable
=============================================================================
