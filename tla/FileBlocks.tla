----------------------------- MODULE FileBlocks -----------------------------
(***************************************************************************)
(* The blocks of a file, numbered by their place in it, and the parts of   *)
(* class File (file.cpp) that read and fill one.  That getBlockNumber()    *)
(* finds the block stored for a place is Readable and ContentStable of     *)
(* module Inodes.                                                          *)
(***************************************************************************)
EXTENDS Naturals, Sequences, FiniteSetsExt

CONSTANT BSZ     \* superBlock.nBytesPerBlock

ASSUME BlockSizeAssumption == BSZ \in Nat \ {0}

Places == 0 .. BSZ - 1

\* Inodes::getInode: the number of blocks of a file of sz bytes.
NBlocks(sz) == (sz + BSZ - 1) \div BSZ

\* File::readBlock: how many bytes of block k belong to a file of sz bytes.  A
\* mistake to guard against: all of the last block.
BytesOfWhole(sz, k) == IF k >= NBlocks(sz) THEN 0 ELSE BSZ
BytesOf(sz, k) == IF k >= NBlocks(sz) THEN 0 ELSE Min({BSZ, sz - k * BSZ})

\* memcpy(buf + j, rest, n)
Filled(buf, j, n, rest) == [x \in Places |-> IF x \in j .. j + n - 1 THEN rest[x - j + 1] ELSE buf[x]]

\* File::fillLastBlock: how much of n bytes the last block of sz bytes takes.
FillOf(sz, n) == IF sz % BSZ = 0 THEN 0 ELSE Min({BSZ - (sz % BSZ), n})

Rest(s, n) == SubSeq(s, n + 1, Len(s))

\* The bytes of a file whose blocks are blk.
ContentOf(sz, blk) == [p \in 1 .. sz |-> blk[(p - 1) \div BSZ][(p - 1) % BSZ]]
=============================================================================
