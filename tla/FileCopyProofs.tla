--------------------------- MODULE FileCopyProofs ---------------------------
(***************************************************************************)
(* CopiesFaithful, RoundTrip and FilesOK of module FileCopy, for blocks    *)
(* and disks of any size, any number of files, and host files of any       *)
(* content.                                                                *)
(*                                                                         *)
(* The argument: an undamaged file holds, at every step of a copy into it, *)
(* the part of its source that has been read so far.  What has been read   *)
(* ends at a multiple of the block size unless it is all, so the next      *)
(* block fits behind it.  That is arithmetic of places and blocks, and     *)
(* what a sum over the files is, both of which FileBlocksProofs has.       *)
(***************************************************************************)
EXTENDS FileCopy, FileBlocksProofs

(* Files, and what they hold. *)
Byte == 0 .. 255
Block == [Places -> Byte]
Blocks == UNION {[D -> Block] : D \in SUBSET Nat}
FileRecords == {r \in [size : Nat, block : Blocks] : 0 .. NBlocks(r.size) - 1 \subseteq DOMAIN r.block}

Content(r) == ContentOf(r.size, r.block)

LEMMA BlockTyped ==
    ASSUME NEW r \in FileRecords, NEW k \in DOMAIN r.block
    PROVE  r.block[k] \in Block /\ k \in Nat
<1>1. PICK D \in SUBSET Nat : r.block \in [D -> Block]
  BY DEF FileRecords, Blocks
<1> QED
  BY <1>1

LEMMA ContentTyped ==
    ASSUME NEW r \in FileRecords
    PROVE  /\ Content(r) \in Seq(Byte) /\ Len(Content(r)) = r.size
           /\ \A p \in 1 .. r.size : Content(r)[p] = r.block[(p - 1) \div BSZ][(p - 1) % BSZ]
<1>1. r.size \in Nat
  BY DEF FileRecords
<1>2. \A p \in 1 .. r.size : r.block[(p - 1) \div BSZ][(p - 1) % BSZ] \in Byte
  BY <1>1, PlaceOf, BlockTyped DEF FileRecords, Block
<1> DEFINE e(p) == r.block[(p - 1) \div BSZ][(p - 1) % BSZ]
<1>3. Content(r) = [p \in 1 .. r.size |-> e(p)]
  BY DEF Content, ContentOf
<1>4. \A p \in 1 .. r.size : e(p) \in Byte
  BY <1>2
<1> HIDE DEF e
<1>5. Content(r) \in Seq(Byte) /\ Len(Content(r)) = r.size
        /\ \A p \in 1 .. r.size : Content(r)[p] = e(p)
  BY <1>1, <1>3, <1>4
<1> QED
  BY <1>5 DEF e

(* File::appendOneBlock.  It keeps the file a file whatever its size was;  *)
(* when the last block was full it appends to what the file holds.         *)
Appended(r, s) ==
    [size |-> r.size + Len(s),
     block |-> Stored(r.block, NBlocks(r.size), Filled(NoBytes, 0, Len(s), s))]

LEMMA AppendBlockKeeps ==
    ASSUME NEW r \in FileRecords, NEW s \in Seq(Byte), Len(s) \in 1 .. BSZ
    PROVE  /\ Appended(r, s) \in FileRecords
           /\ r.size % BSZ = 0 => Content(Appended(r, s)) = Content(r) \o s
<1> DEFINE n == NBlocks(r.size)
           buf == Filled(NoBytes, 0, Len(s), s)
           t == Appended(r, s)
<1>1. /\ r.size \in Nat /\ n \in Nat /\ r.size <= n * BSZ
      /\ t.size = r.size + Len(s) /\ t.block = Stored(r.block, n, buf)
      /\ Len(s) \in Nat /\ t.size \in Nat /\ BSZ \in Nat
  <2>1. r.size \in Nat /\ Len(s) \in Nat
    BY DEF FileRecords
  <2> QED
    BY <2>1, BlocksOf, BlockSizeAssumption DEF Appended
<1>2. buf \in Block /\ \A j \in 0 .. Len(s) - 1 : buf[j] = s[j + 1]
  <2>1. \A x \in 0 .. 0 + Len(s) - 1 : s[x - 0 + 1] \in Byte /\ s[x - 0 + 1] = s[x + 1]
    OBVIOUS
  <2>2. \A x \in Places : NoBytes[x] \in Byte
    BY DEF NoBytes, Byte
  <2>3. 0 .. Len(s) - 1 \subseteq Places
    BY BlockSizeAssumption DEF Places
  <2> QED
    BY <2>1, <2>2, <2>3 DEF Filled, Block
<1> HIDE DEF n, buf, t
<1>3. /\ DOMAIN t.block = DOMAIN r.block \cup {n} /\ t.block[n] = buf
      /\ \A k \in DOMAIN r.block \ {n} : t.block[k] = r.block[k]
  BY <1>1 DEF Stored
<1>4. t.block \in Blocks
  <2>1. DOMAIN t.block \subseteq Nat
    BY <1>1, <1>3, BlockTyped
  <2>2. t.block \in [DOMAIN t.block -> Block]
    BY <1>1, <1>2, <1>3, BlockTyped DEF Stored
  <2> QED
    BY <2>1, <2>2 DEF Blocks
<1>5. t \in FileRecords
  <2>1. t \in [size : Nat, block : Blocks]
    BY <1>1, <1>4 DEF t, Appended
  <2>2. (n + 1) * BSZ >= t.size
    BY <1>1, BlockSizeAssumption
  <2>3. NBlocks(t.size) \in Nat /\ NBlocks(t.size) <= n + 1
    <3>1. t.size \in Nat /\ n + 1 \in Nat
      BY <1>1
    <3>2. NBlocks(t.size) \in Nat /\ ~(n + 1 < NBlocks(t.size))
      BY <2>2, <3>1, BlocksOf, BlockSizeAssumption
    <3> QED
      BY <3>1, <3>2
  <2>4. 0 .. n - 1 \subseteq DOMAIN r.block
    BY DEF FileRecords, n
  <2>5. 0 .. NBlocks(t.size) - 1 \subseteq DOMAIN t.block
    BY <1>1, <1>3, <2>3, <2>4
  <2> QED
    BY <2>1, <2>5 DEF FileRecords
<1>6. ASSUME r.size % BSZ = 0 PROVE Content(t) = Content(r) \o s
  <2>1. Content(t) \in Seq(Byte) /\ Len(Content(t)) = t.size
    BY <1>5, ContentTyped
  <2>2. /\ Content(r) \in Seq(Byte) /\ Len(Content(r)) = r.size
    BY ContentTyped
  <2>3. Content(r) \o s \in Seq(Byte) /\ Len(Content(r) \o s) = t.size
    <3>1. Content(r) \o s \in Seq(Byte) /\ Len(Content(r) \o s) = Len(Content(r)) + Len(s)
      BY <2>2, ConcatProperties
    <3> QED
      BY <1>1, <2>2, <3>1
  <2>4. ASSUME NEW p \in 1 .. t.size PROVE Content(t)[p] = (Content(r) \o s)[p]
    <3> DEFINE k == (p - 1) \div BSZ
               j == (p - 1) % BSZ
    <3>1. Content(t)[p] = t.block[k][j]
      BY <1>5, ContentTyped
    <3>2. CASE p <= r.size
      <4>1. p \in 1 .. r.size
        BY <1>1, <3>2
      <4>2. k \in 0 .. n - 1
        BY <1>1, <4>1, PlaceOf DEF n
      <4>3. k \in DOMAIN r.block \ {n}
        BY <1>1, <4>2 DEF FileRecords, n
      <4>4. t.block[k] = r.block[k]
        BY <1>3, <4>3
      <4>5. Content(r)[p] = r.block[k][j]
        BY <4>1, ContentTyped
      <4>6. (Content(r) \o s)[p] = Content(r)[p]
        BY <1>1, <2>2, <4>1, ConcatProperties
      <4> QED
        BY <3>1, <4>4, <4>5, <4>6
    <3>3. CASE p > r.size
      <4> DEFINE x == p - r.size - 1
      <4> HIDE DEF k, j
      <4>1. x \in 0 .. Len(s) - 1 /\ x \in 0 .. BSZ - 1
        BY <1>1, <3>3
      <4>2. p - 1 = n * BSZ + x
        BY <1>1, <1>6, WholeBlocks DEF n
      <4> HIDE DEF x
      <4>3. k = n /\ j = x
        BY <1>1, <4>1, <4>2, DivisionUnique DEF k, j
      <4>4. Content(t)[p] = s[x + 1]
        BY <1>2, <1>3, <3>1, <4>1, <4>3
      <4>5. (Content(r) \o s)[p] = s[p - r.size]
        <5>1. /\ Content(r) \in Seq(Byte) /\ s \in Seq(Byte)
              /\ p \in 1 .. Len(Content(r)) + Len(s) /\ ~(p <= Len(Content(r)))
              /\ Len(Content(r)) = r.size
          BY <1>1, <2>2, <3>3
        <5> QED
          BY <5>1, ConcatProperties
      <4> QED
        BY <4>4, <4>5, <1>1 DEF x
    <3>4. p <= r.size \/ p > r.size
      BY <1>1
    <3> QED
      BY <3>2, <3>3, <3>4
  <2> QED
    BY <2>1, <2>3, <2>4, SeqEqual
<1> QED
  BY <1>5, <1>6 DEF t

(* File::fillLastBlock takes a part of the bytes, all of them or up to the *)
(* end of the last block.                                                  *)
FilledUp(r, s) ==
    LET last == NBlocks(r.size) - 1
        n == FillOf(r.size, Len(s))
    IN  [size |-> r.size + n,
         block |-> Stored(r.block, last, Filled(r.block[last], r.size % BSZ, n, s))]

LEMMA FillKeeps ==
    ASSUME NEW r \in FileRecords, NEW s \in Seq(Byte), FillOf(r.size, Len(s)) # 0
    PROVE  FilledUp(r, s) \in FileRecords
<1> DEFINE t == FilledUp(r, s)
           n == FillOf(r.size, Len(s))
           m == r.size % BSZ
           last == NBlocks(r.size) - 1
<1>1. r.size \in Nat /\ Len(s) \in Nat /\ r.block \in Blocks
  BY DEF FileRecords
<1>2. /\ n \in 1 .. Len(s) /\ n <= BSZ - m /\ m \in 1 .. BSZ - 1
  <2>1. n \in 0 .. Len(s) /\ m # 0 /\ n <= BSZ - m
    BY <1>1, FillOfBounds
  <2>2. m \in 0 .. BSZ - 1
    BY <1>1, Division
  <2> HIDE DEF m, n
  <2>3. n # 0
    BY DEF n
  <2> QED
    BY <1>1, <2>1, <2>2, <2>3, BlockSizeAssumption
<1> DEFINE q == r.size \div BSZ
           b == NBlocks(r.size)
<1>3. r.size = q * BSZ + m /\ q \in Nat
  BY <1>1, Division
<1> HIDE DEF n, m, q, t
<1>4. b \in Nat /\ q < b
  <2>1. q * BSZ < r.size
    BY <1>1, <1>2, <1>3, BlockSizeAssumption
  <2> QED
    BY <1>1, <1>3, <2>1, BlocksOf
<1>5. r.size + n <= b * BSZ
  <2>1. q * BSZ + BSZ <= b * BSZ
    BY <1>3, <1>4, NextMultiple
  <2> HIDE DEF b
  <2> QED
    BY <1>1, <1>2, <1>3, <1>4, <2>1, BlockSizeAssumption
<1>6. NBlocks(r.size + n) \in Nat /\ NBlocks(r.size + n) <= NBlocks(r.size)
  <2>1. r.size + n \in Nat
    BY <1>1, <1>2
  <2>2. NBlocks(r.size + n) \in Nat /\ (b < NBlocks(r.size + n) <=> b * BSZ < r.size + n)
    BY <1>4, <2>1, BlocksOf
  <2> HIDE DEF b
  <2>3. ~(b * BSZ < r.size + n)
    BY <1>4, <1>5, <2>1, BlockSizeAssumption
  <2> QED
    BY <1>4, <2>2, <2>3 DEF b
<1>7. last \in DOMAIN r.block
  BY <1>3, <1>4 DEF FileRecords
<1>8. Filled(r.block[last], m, n, s) \in Block
  <2>1. r.block[last] \in Block
    BY <1>7, BlockTyped
  <2>2. \A x \in Places : x \in m .. m + n - 1 => s[x - m + 1] \in Byte
    BY <1>2 DEF Places
  <2> QED
    BY <2>1, <2>2 DEF Filled, Block
<1>9. PICK D \in SUBSET Nat : r.block \in [D -> Block]
  BY <1>1 DEF Blocks
<1>10. t.block \in [D -> Block] /\ DOMAIN t.block = DOMAIN r.block
  BY <1>7, <1>8, <1>9 DEF n, m, t, FilledUp, Stored
<1>11. t \in [size : Nat, block : Blocks]
  BY <1>1, <1>2, <1>10 DEF Blocks, n, t, FilledUp
<1>12. 0 .. NBlocks(t.size) - 1 \subseteq DOMAIN t.block
  <2>1. t.size = r.size + n
    BY DEF n, t, FilledUp
  <2> QED
    BY <1>4, <1>6, <1>10, <2>1 DEF FileRecords
<1> QED
  BY <1>11, <1>12 DEF FileRecords, t

(* How far reading i blocks gets in a file of sz bytes. *)
UpTo(i, sz) == IF i * BSZ <= sz THEN i * BSZ ELSE sz

LEMMA OneBlockFurther ==
    ASSUME NEW i \in Nat, NEW sz \in Nat
    PROVE  /\ UpTo(i, sz) \in 0 .. sz /\ BytesOf(sz, i) \in 0 .. BSZ
           /\ UpTo(i, sz) + BytesOf(sz, i) = UpTo(i + 1, sz)
           /\ BytesOf(sz, i) = 0 => UpTo(i, sz) = sz
           /\ BytesOf(sz, i) # 0 => UpTo(i, sz) = i * BSZ /\ i * BSZ + BytesOf(sz, i) <= sz
           /\ UpTo(0, sz) = 0
<1>1. i * BSZ \in Nat /\ (i + 1) * BSZ = i * BSZ + BSZ /\ 0 * BSZ = 0
  BY BlockSizeAssumption
<1>2. BytesOf(sz, i) = (IF i * BSZ >= sz THEN 0
                        ELSE IF BSZ <= sz - i * BSZ THEN BSZ ELSE sz - i * BSZ)
  BY BytesOfIs
<1> DEFINE x == i * BSZ
<1> HIDE DEF x
<1>3. /\ x \in Nat /\ BSZ \in Nat \ {0}
      /\ BytesOf(sz, i) = (IF x >= sz THEN 0 ELSE IF BSZ <= sz - x THEN BSZ ELSE sz - x)
      /\ UpTo(i, sz) = (IF x <= sz THEN x ELSE sz)
      /\ UpTo(i + 1, sz) = (IF x + BSZ <= sz THEN x + BSZ ELSE sz)
      /\ UpTo(0, sz) = 0
  BY <1>1, <1>2, BlockSizeAssumption DEF x, UpTo
<1> QED
  BY <1>3 DEF x

(* File::readBlock: what it deposits is the next part of what the file holds. *)
BlockAt(r, i) == [j \in 1 .. BytesOf(r.size, i) |-> r.block[i][j - 1]]

LEMMA BlockAtIs ==
    ASSUME NEW r \in FileRecords, NEW i \in Nat
    PROVE  /\ BlockAt(r, i) \in Seq(Byte) /\ Len(BlockAt(r, i)) = BytesOf(r.size, i)
           /\ BlockAt(r, i) = <<>> <=> BytesOf(r.size, i) = 0
           /\ SubSeq(Content(r), 1, UpTo(i, r.size)) \o BlockAt(r, i)
                = SubSeq(Content(r), 1, UpTo(i + 1, r.size))
<1> DEFINE n == BytesOf(r.size, i)
           s == BlockAt(r, i)
           u == UpTo(i, r.size)
           e(j) == r.block[i][j - 1]
<1>1. /\ r.size \in Nat /\ n \in 0 .. BSZ /\ u \in 0 .. r.size
      /\ u + n = UpTo(i + 1, r.size) /\ (n # 0 => u = i * BSZ /\ u + n <= r.size)
  BY OneBlockFurther DEF FileRecords
<1>2. n # 0 => i \in DOMAIN r.block
  <2>1. n # 0 => i < NBlocks(r.size)
    BY <1>1, BlocksOf, BlockSizeAssumption DEF BytesOf
  <2> QED
    BY <1>1, <2>1, BlocksOf DEF FileRecords
<1>3. \A j \in 1 .. n : e(j) \in Byte
  <2> SUFFICES ASSUME NEW j \in 1 .. n PROVE e(j) \in Byte
    OBVIOUS
  <2>1. r.block[i] \in Block
    BY <1>1, <1>2, BlockTyped
  <2>2. j - 1 \in Places
    BY <1>1, BlockSizeAssumption DEF Places
  <2> QED
    BY <2>1, <2>2 DEF Block
<1>4. s = [j \in 1 .. n |-> e(j)]
  BY DEF BlockAt
<1> HIDE DEF n, s, u, e
<1>5. n \in Nat
  BY <1>1, BlockSizeAssumption
<1>6. s \in Seq(Byte) /\ Len(s) = n /\ \A j \in 1 .. n : s[j] = e(j)
  BY <1>3, <1>4, <1>5
<1>7. s = <<>> <=> n = 0
  BY <1>5, <1>6
<1>8. SubSeq(Content(r), 1, u) \o s = SubSeq(Content(r), 1, u + n)
  <2> DEFINE c == Content(r)
  <2>1. c \in Seq(Byte) /\ Len(c) = r.size
    BY ContentTyped
  <2>2. CASE n = 0
    <3>1. s = <<>> /\ u + n = u
      BY <1>1, <1>7, <2>2
    <3>2. SubSeq(c, 1, u) \in Seq(Byte)
      BY <1>1, <2>1
    <3> QED
      BY <3>1, <3>2, ConcatEmptySeq
  <2>3. CASE n # 0
    <3>1. \A j \in 1 .. n : c[u + j] = s[j]
      <4> SUFFICES ASSUME NEW j \in 1 .. n PROVE c[u + j] = s[j]
        OBVIOUS
      <4> DEFINE p == u + j
      <4>1. p \in 1 .. r.size /\ p - 1 = i * BSZ + (j - 1) /\ j - 1 \in 0 .. BSZ - 1
        BY <1>1, <1>5, <2>3, BlockSizeAssumption
      <4> HIDE DEF p
      <4>2. (p - 1) \div BSZ = i /\ (p - 1) % BSZ = j - 1
        BY <4>1, DivisionUnique
      <4>3. c[p] = r.block[(p - 1) \div BSZ][(p - 1) % BSZ]
        BY <4>1, ContentTyped
      <4>4. c[p] = r.block[i][j - 1]
        BY <4>2, <4>3
      <4> QED
        BY <1>6, <4>4 DEF e, p
    <3> HIDE DEF c
    <3>2. u \in Nat /\ u + n \in u .. Len(c) /\ u \in 0 .. Len(c)
      BY <1>1, <1>5, <2>1, <2>3
    <3>3. SubSeq(c, u + 1, u + n) = s
      <4>1. /\ SubSeq(c, u + 1, u + n) \in Seq(Byte) /\ Len(SubSeq(c, u + 1, u + n)) = n
            /\ \A j \in 1 .. n : SubSeq(c, u + 1, u + n)[j] = c[u + j]
        BY <1>5, <2>1, <3>2
      <4> QED
        BY <1>6, <3>1, <4>1, SeqEqual
    <3>4. SubSeq(c, 1, u) \o SubSeq(c, u + 1, u + n) = SubSeq(c, 1, u + n)
      BY <1>5, <3>2, ConcatAdjacentSubSeq, SMTT(20)
    <3> QED
      BY <3>3, <3>4 DEF c
  <2> QED
    BY <2>2, <2>3
<1> QED
  BY <1>1, <1>6, <1>7, <1>8 DEF n, s, u
-----------------------------------------------------------------------------
(* The inductive invariant. *)
Copies == {"write33file", "copy33file"}
Returns == [phase : {"idle"}, last : {"write33file", "copy33file", "read33file"}, f : OrdinaryFiles]
Writes == [phase : {"write33file"}, f : OrdinaryFiles, source : Seq(Byte), inParts : BOOLEAN,
           nBytesWritten : Nat]
Moves == [phase : {"copy33file"}, fi : OrdinaryFiles, f : OrdinaryFiles, i : Nat,
          nBytesWritten : Nat]
Reads == [phase : {"read33file"}, f : OrdinaryFiles, i : Nat, nBytesWritten : Nat]

DataTyped ==
    /\ files \in [OrdinaryFiles -> FileRecords]
    /\ wanted \in [OrdinaryFiles -> Seq(Byte)]

CopyTyped ==
    \/ copy = NoCopy
    \/ copy \in Returns
    \/ copy \in Writes
    \/ copy \in Moves /\ copy.fi # copy.f
    \/ copy \in Reads

\* The files that no command is writing are as they ought to be.
Others ==
    \A f \in OrdinaryFiles \ damaged :
        (copy.phase \in Copies => copy.f # f) => Held(f) = wanted[f]

\* What is not written yet is still to be read.
Writing ==
    copy.phase = "write33file" /\ copy.f \notin damaged =>
        /\ wanted[copy.f] = Held(copy.f) \o copy.source
        /\ copy.nBytesWritten = files[copy.f].size

Got == UpTo(copy.i, files[copy.fi].size)
Copying ==
    copy.phase = "copy33file" /\ copy.f \notin damaged =>
        /\ wanted[copy.f] = Held(copy.fi)
        /\ Held(copy.f) = SubSeq(Held(copy.fi), 1, Got)
        /\ copy.nBytesWritten = Got

Given == UpTo(copy.i, files[copy.f].size)
Reading ==
    copy.phase = "read33file" =>
        back = SubSeq(Held(copy.f), 1, Given) /\ copy.nBytesWritten = Given

Returned ==
    copy.phase = "idle" /\ copy # NoCopy =>
        /\ copy.f \notin damaged => copied = files[copy.f].size
        /\ copy.last = "read33file" => back = Held(copy.f) /\ copied = files[copy.f].size

IInv == DataTyped /\ CopyTyped /\ Others /\ Writing /\ Copying /\ Reading /\ Returned

LEMMA HeldTyped ==
    ASSUME DataTyped, NEW f \in OrdinaryFiles
    PROVE  /\ files[f] \in FileRecords /\ files[f].size \in Nat /\ Held(f) = Content(files[f])
           /\ Held(f) \in Seq(Byte) /\ Len(Held(f)) = files[f].size
<1>1. files[f] \in FileRecords /\ Held(f) = Content(files[f])
  BY DEF DataTyped, Held, Content
<1> QED
  BY <1>1, ContentTyped DEF FileRecords

LEMMA EmptyTyped == EmptyFile \in FileRecords /\ Content(EmptyFile) = <<>> /\ EmptyFile.size = 0
<1>1. NBlocks(0) = 0
  <2>1. NBlocks(0) \in Nat /\ ~(0 < NBlocks(0))
    BY BlocksOf, BlockSizeAssumption
  <2> QED
    BY <2>1
<1>2. [k \in {} |-> NoBytes] \in Blocks
  <2>1. [k \in {} |-> NoBytes] \in [{} -> Block]
    OBVIOUS
  <2> QED
    BY <2>1 DEF Blocks
<1>3. EmptyFile \in FileRecords /\ EmptyFile.size = 0
  BY <1>1, <1>2 DEF EmptyFile, FileRecords
<1>4. Content(EmptyFile) \in Seq(Byte) /\ Len(Content(EmptyFile)) = 0
  BY <1>3, ContentTyped
<1> QED
  BY <1>3, <1>4

(* A block appended to f, if one is free, changes no other file. *)
LEMMA AppendOneBlockIs ==
    ASSUME NEW fs \in [OrdinaryFiles -> FileRecords], NEW f \in OrdinaryFiles,
           NEW s \in Seq(Byte), Len(s) \in 1 .. BSZ
    PROVE  LET t == AppendOneBlockTo(fs, f, s)
           IN  /\ t \in [OrdinaryFiles -> FileRecords]
               /\ \A g \in OrdinaryFiles \ {f} : t[g] = fs[g]
               /\ HasFreeBlock(fs) /\ fs[f].size % BSZ = 0 =>
                    Content(t[f]) = Content(fs[f]) \o s /\ t[f].size = fs[f].size + Len(s)
<1> DEFINE t == AppendOneBlockTo(fs, f, s)
           r == Appended(fs[f], s)
<1>1. r \in FileRecords /\ (fs[f].size % BSZ = 0 => Content(r) = Content(fs[f]) \o s)
  BY AppendBlockKeeps
<1>2. r.size = fs[f].size + Len(s)
  BY DEF Appended
<1>3. t = IF ~HasFreeBlock(fs) THEN fs ELSE [fs EXCEPT ![f] = r]
  BY DEF AppendOneBlockTo, Appended
<1> HIDE DEF t, r
<1>4. CASE ~HasFreeBlock(fs)
  BY <1>3, <1>4 DEF t
<1>5. CASE HasFreeBlock(fs)
  <2>1. t = [fs EXCEPT ![f] = r]
    BY <1>3, <1>5
  <2>2. t[f] = r /\ t \in [OrdinaryFiles -> FileRecords]
          /\ \A g \in OrdinaryFiles \ {f} : t[g] = fs[g]
    BY <1>1, <2>1
  <2> QED
    BY <1>1, <1>2, <2>2 DEF t
<1> QED
  BY <1>4, <1>5

(* File::appendBytes. *)
LEMMA AppendBytesIs ==
    ASSUME NEW fs \in [OrdinaryFiles -> FileRecords], NEW f \in OrdinaryFiles,
           NEW s \in Seq(Byte), Len(s) \in 1 .. BSZ
    PROVE  LET t == AppendBytesTo(fs, f, s)
           IN  /\ t \in [OrdinaryFiles -> FileRecords]
               /\ \A g \in OrdinaryFiles \ {f} : t[g] = fs[g]
               /\ HasFreeBlock(fs) /\ fs[f].size % BSZ = 0 =>
                    Content(t[f]) = Content(fs[f]) \o s /\ t[f].size = fs[f].size + Len(s)
<1> DEFINE t == AppendBytesTo(fs, f, s)
           n == FillOf(fs[f].size, Len(s))
           u == FillLastBlockOf(fs, f, s)
<1>1. fs[f] \in FileRecords /\ fs[f].size \in Nat /\ Len(s) \in Nat \ {0}
  BY DEF FileRecords
<1>2. n \in 0 .. Len(s) /\ (fs[f].size % BSZ = 0 => n = 0)
  BY <1>1, FillOfBounds
<1>3. u = IF n = 0 THEN fs ELSE [fs EXCEPT ![f] = FilledUp(fs[f], s)]
  BY DEF FillLastBlockOf, FilledUp
<1>4. n # 0 => FilledUp(fs[f], s) \in FileRecords
  BY <1>1, FillKeeps
<1>5. t = IF n = Len(s) THEN u ELSE AppendOneBlockTo(u, f, Rest(s, n))
  BY DEF AppendBytesTo
<1> HIDE DEF n, u, t
<1>6. u \in [OrdinaryFiles -> FileRecords] /\ \A g \in OrdinaryFiles \ {f} : u[g] = fs[g]
  BY <1>3, <1>4
<1>7. CASE n = Len(s)
  BY <1>1, <1>2, <1>5, <1>6, <1>7 DEF t
<1>8. CASE n # Len(s)
  <2> DEFINE x == Rest(s, n)
  <2>1. x \in Seq(Byte) /\ Len(x) = Len(s) - n /\ (n = 0 => x = s)
    <3>1. SubSeq(s, n + 1, Len(s)) \in Seq(Byte) /\ Len(SubSeq(s, n + 1, Len(s))) = Len(s) - n
      BY <1>1, <1>2, <1>8
    <3>2. SubSeq(s, 1, Len(s)) = s
      OBVIOUS
    <3> QED
      BY <3>1, <3>2 DEF Rest
  <2>2. t = AppendOneBlockTo(u, f, x)
    BY <1>5, <1>8
  <2> HIDE DEF x
  <2>3. Len(x) \in 1 .. BSZ
    BY <1>1, <1>2, <1>8, <2>1, BlockSizeAssumption
  <2>4. /\ t \in [OrdinaryFiles -> FileRecords]
        /\ \A g \in OrdinaryFiles \ {f} : t[g] = u[g]
        /\ HasFreeBlock(u) /\ u[f].size % BSZ = 0 =>
             Content(t[f]) = Content(u[f]) \o x /\ t[f].size = u[f].size + Len(x)
    <3> HIDE DEF u
    <3>1. u \in [OrdinaryFiles -> FileRecords] /\ x \in Seq(Byte) /\ Len(x) \in 1 .. BSZ
      BY <1>6, <2>1, <2>3
    <3>2. LET w == AppendOneBlockTo(u, f, x)
          IN  /\ w \in [OrdinaryFiles -> FileRecords]
              /\ \A g \in OrdinaryFiles \ {f} : w[g] = u[g]
              /\ HasFreeBlock(u) /\ u[f].size % BSZ = 0 =>
                   Content(w[f]) = Content(u[f]) \o x /\ w[f].size = u[f].size + Len(x)
      BY ONLY <3>1, f \in OrdinaryFiles, AppendOneBlockIs
    <3> QED
      BY <2>2, <3>2
  <2>5. fs[f].size % BSZ = 0 => u = fs /\ x = s
    BY <1>2, <1>3, <2>1
  <2> QED
    BY <1>6, <2>4, <2>5 DEF t
<1> QED
  BY <1>7, <1>8
-----------------------------------------------------------------------------
(* It holds at first, and every action keeps it. *)
LEMMA Phases ==
    ASSUME CopyTyped
    PROVE  /\ copy.phase = "idle" => copy = NoCopy \/ copy \in Returns
           /\ copy.phase = "write33file" => copy \in Writes
           /\ copy.phase = "copy33file" => copy \in Moves /\ copy.fi # copy.f
           /\ copy.phase = "read33file" => copy \in Reads
  BY DEF CopyTyped, NoCopy, Returns, Writes, Moves, Reads

LEMMA InvInitially == CopyInit => IInv
<1> SUFFICES ASSUME CopyInit PROVE IInv
  OBVIOUS
<1>1. DataTyped
  BY EmptyTyped DEF CopyInit, DataTyped
<1>2. copy = NoCopy /\ copy.phase = "idle"
  BY DEF CopyInit, NoCopy
<1>3. \A f \in OrdinaryFiles : Held(f) = wanted[f]
  <2> SUFFICES ASSUME NEW f \in OrdinaryFiles PROVE Held(f) = wanted[f]
    OBVIOUS
  <2>1. Held(f) = Content(EmptyFile)
    BY <1>1, HeldTyped DEF CopyInit
  <2> QED
    BY <2>1, EmptyTyped DEF CopyInit
<1> QED
  BY <1>1, <1>2, <1>3 DEF IInv, CopyTyped, Others, Writing, Copying, Reading, Returned

(* File f is emptied: nothing else changes. *)
LEMMA Emptied ==
    ASSUME IInv, NEW f \in OrdinaryFiles, NEW content \in Seq(Byte), NEW r, Starts(r, f, content)
    PROVE  /\ DataTyped' /\ Held(f)' = <<>> /\ files'[f].size = 0 /\ wanted'[f] = content
           /\ \A g \in OrdinaryFiles \ {f} : /\ Held(g)' = Held(g) /\ files'[g] = files[g]
                                             /\ g \notin damaged' => Held(g)' = wanted'[g]
<1>1. DataTyped'
  BY EmptyTyped DEF IInv, DataTyped, Starts
<1>2. files'[f] = EmptyFile /\ wanted'[f] = content
  BY DEF Starts, IInv, DataTyped
<1>3. Held(f)' = Content(EmptyFile)
  BY <1>2 DEF Held, Content
<1>4. \A g \in OrdinaryFiles \ {f} : files'[g] = files[g] /\ wanted'[g] = wanted[g]
  BY DEF Starts, IInv, DataTyped
<1>5. \A g \in OrdinaryFiles \ {f} : Held(g)' = Held(g)
  BY <1>4 DEF Held
<1>6. copy.phase = "idle" /\ damaged' = damaged \ {f}
  BY DEF Starts
<1>7. ASSUME NEW g \in OrdinaryFiles \ {f}, g \notin damaged'
      PROVE  Held(g)' = wanted'[g]
  <2>1. Held(g) = wanted[g]
    BY <1>6, <1>7 DEF IInv, Others, Copies
  <2> QED
    BY <1>4, <1>5, <2>1
<1> QED
  BY <1>1, <1>2, <1>3, <1>4, <1>5, <1>7, EmptyTyped

LEMMA Write33FileKeeps ==
    ASSUME IInv, NEW f \in OrdinaryFiles, NEW h \in HostFiles \cup HostStreams, Write33File(f, h)
    PROVE  IInv'
<1>1. h \in Seq(Byte)
  BY FileCopyAssumption DEF Byte
<1>2. PICK p \in BOOLEAN :
        Starts([phase |-> "write33file", f |-> f, source |-> h, inParts |-> p,
                nBytesWritten |-> 0], f, h)
  BY DEF Write33File
<1>3. /\ DataTyped' /\ Held(f)' = <<>> /\ files'[f].size = 0 /\ wanted'[f] = h
      /\ \A g \in OrdinaryFiles \ {f} : g \notin damaged' => Held(g)' = wanted'[g]
  BY <1>1, <1>2, Emptied
<1>4. copy' = [phase |-> "write33file", f |-> f, source |-> h, inParts |-> p, nBytesWritten |-> 0]
  BY <1>2 DEF Starts
<1>5. /\ copy' \in Writes /\ copy'.phase = "write33file" /\ copy'.f = f
      /\ copy'.source = h /\ copy'.nBytesWritten = 0
  BY <1>1, <1>4 DEF Writes
<1>6. CopyTyped'
  BY <1>5 DEF CopyTyped
<1>7. Others'
  BY <1>3, <1>5 DEF Others, Copies
<1>8. Writing'
  <2>1. wanted'[f] = Held(f)' \o h
    BY <1>1, <1>3, ConcatEmptySeq
  <2> QED
    BY <1>3, <1>5, <2>1 DEF Writing
<1>9. Copying' /\ Reading' /\ Returned'
  BY <1>5 DEF Copying, Reading, Returned
<1> QED
  BY <1>3, <1>6, <1>7, <1>8, <1>9 DEF IInv

LEMMA Copy33FileKeeps ==
    ASSUME IInv, NEW f \in OrdinaryFiles, NEW s \in OrdinaryFiles, Copy33File(s, f)
    PROVE  IInv'
<1>1. /\ s # f /\ Held(s) \in Seq(Byte)
      /\ Starts([phase |-> "copy33file", fi |-> s, f |-> f, i |-> CopyStart, nBytesWritten |-> 0],
                f, Held(s))
  BY HeldTyped DEF Copy33File, IInv
<1>2. /\ DataTyped' /\ Held(f)' = <<>> /\ files'[f].size = 0 /\ wanted'[f] = Held(s)
      /\ Held(s)' = Held(s)
      /\ \A g \in OrdinaryFiles \ {f} : g \notin damaged' => Held(g)' = wanted'[g]
  BY <1>1, Emptied
<1>3. copy' = [phase |-> "copy33file", fi |-> s, f |-> f, i |-> 0, nBytesWritten |-> 0]
  BY <1>1 DEF Starts, CopyStart
<1>4. /\ copy' \in Moves /\ copy'.phase = "copy33file" /\ copy'.f = f /\ copy'.fi = s
      /\ copy'.i = 0 /\ copy'.nBytesWritten = 0
  BY <1>3 DEF Moves
<1>5. CopyTyped'
  BY <1>1, <1>4 DEF CopyTyped
<1>6. Others'
  BY <1>2, <1>4 DEF Others, Copies
<1>7. Copying'
  <2>1. Got' = 0
    <3>1. files'[s].size \in Nat
      BY <1>2 DEF DataTyped, FileRecords
    <3> QED
      BY <1>4, <3>1, OneBlockFurther DEF Got
  <2>2. SubSeq(Held(s)', 1, 0) = <<>>
    BY <1>1, <1>2
  <2> QED
    BY <1>2, <1>4, <2>1, <2>2 DEF Copying
<1>8. Writing' /\ Reading' /\ Returned'
  BY <1>4 DEF Writing, Reading, Returned
<1> QED
  BY <1>2, <1>5, <1>6, <1>7, <1>8 DEF IInv

LEMMA Read33FileKeeps ==
    ASSUME IInv, NEW f \in OrdinaryFiles, Read33File(f)
    PROVE  IInv'
<1>1. /\ copy.phase = "idle" /\ back' = <<>> /\ files' = files /\ wanted' = wanted
      /\ damaged' = damaged
      /\ copy' = [phase |-> "read33file", f |-> f, i |-> 0, nBytesWritten |-> 0]
  BY DEF Read33File
<1>2. /\ copy' \in Reads /\ copy'.phase = "read33file" /\ copy'.f = f /\ copy'.i = 0
      /\ copy'.nBytesWritten = 0
  BY <1>1 DEF Reads
<1>3. \A g : Held(g)' = Held(g)
  BY <1>1 DEF Held
<1>4. DataTyped' /\ CopyTyped'
  BY <1>1, <1>2 DEF IInv, DataTyped, CopyTyped
<1>5. Others'
  BY <1>1, <1>3 DEF IInv, Others, Copies
<1>6. Reading'
  <2>1. Held(f) \in Seq(Byte) /\ files[f].size \in Nat
    BY HeldTyped DEF IInv
  <2>2. Given' = 0
    BY <1>1, <1>2, <2>1, OneBlockFurther DEF Given
  <2>3. SubSeq(Held(f), 1, 0) = <<>>
    BY <2>1
  <2> QED
    BY <1>1, <1>2, <1>3, <2>2, <2>3 DEF Reading
<1>7. Writing' /\ Copying' /\ Returned'
  BY <1>2 DEF Writing, Copying, Returned
<1> QED
  BY <1>4, <1>5, <1>6, <1>7 DEF IInv

(* A copy that changes f only, and damages f or none. *)
LEMMA OthersKept ==
    ASSUME IInv, NEW f \in OrdinaryFiles, copy.phase \in Copies, copy.f = f,
           copy'.phase \in Copies, copy'.f = f, wanted' = wanted, damaged \subseteq damaged',
           \A g \in OrdinaryFiles \ {f} : files'[g] = files[g]
    PROVE  Others'
<1> SUFFICES ASSUME NEW g \in OrdinaryFiles \ damaged', g # f PROVE Held(g)' = wanted'[g]
  BY DEF Others
<1>1. Held(g)' = Held(g)
  BY DEF Held
<1> QED
  BY <1>1 DEF IInv, Others

LEMMA WriteBlockKeeps ==
    ASSUME IInv, NEW n \in 1 .. BSZ, WriteBlockOf(n)
    PROVE  IInv'
<1>0. /\ copy \in Writes /\ copy.phase = "write33file" /\ copy.f \in OrdinaryFiles
      /\ copy.source \in Seq(Byte) /\ copy.nBytesWritten \in Nat
  BY Phases DEF IInv, WriteBlockOf, Writes
<1>a. PICK f \in OrdinaryFiles, src \in Seq(Byte) : f = copy.f /\ src = copy.source
  BY <1>0
<1> DEFINE s == SubSeq(src, 1, n)
<1>1. /\ copy \in Writes /\ copy.phase = "write33file" /\ f \in OrdinaryFiles
      /\ src \in Seq(Byte) /\ copy.nBytesWritten \in Nat
  BY <1>0
<1>2. n \in 1 .. BSZ /\ n <= Len(src) /\ n \in Nat
  <2>1. Min({BSZ, Len(src)}) = (IF BSZ <= Len(src) THEN BSZ ELSE Len(src))
    BY <1>1, MinOfTwo, BlockSizeAssumption
  <2> QED
    BY <1>1, <1>a, <2>1, BlockSizeAssumption DEF WriteBlockOf
<1>3. s \in Seq(Byte) /\ Len(s) = n /\ Rest(src, n) \in Seq(Byte) /\ s \o Rest(src, n) = src
  <2>1. s \in Seq(Byte) /\ Len(s) = n
    BY <1>1, <1>2
  <2>2. Rest(src, n) \in Seq(Byte)
    BY <1>1, <1>2 DEF Rest
  <2>3. SubSeq(src, 1, n) \o SubSeq(src, n + 1, Len(src)) = SubSeq(src, 1, Len(src))
    <3>1. n \in 0 .. Len(src) /\ Len(src) \in n .. Len(src)
      BY <1>1, <1>2
    <3> QED
      BY <1>1, <3>1, ConcatAdjacentSubSeq
  <2>4. SubSeq(src, 1, Len(src)) = src
    BY <1>1
  <2> QED
    BY <2>1, <2>2, <2>3, <2>4 DEF Rest
<1>4. /\ files' = AppendOneBlockTo(files, f, s) /\ wanted' = wanted
      /\ damaged' = IF HasFreeBlock(files) /\ files[f].size % BSZ = 0 THEN damaged
                    ELSE damaged \cup {f}
      /\ copy' = [copy EXCEPT !.source = Rest(src, n), !.nBytesWritten = copy.nBytesWritten + n]
  BY <1>a DEF WriteBlockOf
<1>5. /\ copy' \in Writes /\ copy'.phase = "write33file" /\ copy'.f = f
      /\ copy'.source = Rest(src, n) /\ copy'.nBytesWritten = copy.nBytesWritten + n
  <2> DEFINE m == copy.nBytesWritten + n
             x == Rest(src, n)
  <2>1. m \in Nat /\ x \in Seq(Byte) /\ copy' = [copy EXCEPT !.source = x, !.nBytesWritten = m]
    BY <1>1, <1>2, <1>3, <1>4
  <2> HIDE DEF m, x
  <2>2. /\ copy' \in Writes /\ copy'.phase = "write33file" /\ copy'.f = copy.f
        /\ copy'.source = x /\ copy'.nBytesWritten = m
    BY ONLY <1>0, <2>1 DEF Writes
  <2> QED
    BY <1>a, <2>2 DEF m, x
<1> HIDE DEF s
<1>6. /\ files' \in [OrdinaryFiles -> FileRecords]
      /\ \A g \in OrdinaryFiles \ {f} : files'[g] = files[g]
      /\ HasFreeBlock(files) /\ files[f].size % BSZ = 0 =>
           Content(files'[f]) = Content(files[f]) \o s /\ files'[f].size = files[f].size + n
  <2>1. files \in [OrdinaryFiles -> FileRecords]
    BY DEF IInv, DataTyped
  <2>2. Len(s) \in 1 .. BSZ
    BY <1>2, <1>3
  <2>3. LET t == AppendOneBlockTo(files, f, s)
        IN  /\ t \in [OrdinaryFiles -> FileRecords]
            /\ \A g \in OrdinaryFiles \ {f} : t[g] = files[g]
            /\ HasFreeBlock(files) /\ files[f].size % BSZ = 0 =>
                 Content(t[f]) = Content(files[f]) \o s /\ t[f].size = files[f].size + Len(s)
    BY ONLY <1>1, <1>3, <2>1, <2>2, AppendOneBlockIs
  <2> QED
    BY <1>3, <1>4, <2>3
<1>7. DataTyped' /\ CopyTyped'
  BY <1>4, <1>5, <1>6 DEF IInv, DataTyped, CopyTyped
<1>8. Others'
  <2>1. damaged \subseteq damaged' /\ copy.f = f
    BY <1>a, <1>4
  <2> QED
    BY <1>1, <1>4, <1>5, <1>6, <2>1, OthersKept DEF Copies
<1>9. Writing'
  <2> SUFFICES ASSUME f \notin damaged'
               PROVE  wanted[f] = Held(f)' \o Rest(src, n)
                        /\ copy.nBytesWritten + n = files'[f].size
    BY <1>4, <1>5 DEF Writing
  <2>1. HasFreeBlock(files) /\ files[f].size % BSZ = 0 /\ f \notin damaged
    BY <1>4
  <2>2. wanted[f] = Held(f) \o src /\ copy.nBytesWritten = files[f].size
    BY <1>a, <1>1, <2>1 DEF IInv, Writing
  <2>3. /\ Held(f) = Content(files[f]) /\ Held(f) \in Seq(Byte)
    BY <1>1, HeldTyped DEF IInv
  <2>4. Held(f)' = Content(files'[f])
    BY DEF Held, Content
  <2>5. Held(f)' = Held(f) \o s /\ files'[f].size = files[f].size + n
    BY <1>6, <2>1, <2>3, <2>4
  <2>6. (Held(f) \o s) \o Rest(src, n) = Held(f) \o (s \o Rest(src, n))
    <3> DEFINE a == Held(f)
               z == Rest(src, n)
    <3>1. a \in Seq(Byte) /\ s \in Seq(Byte) /\ z \in Seq(Byte)
      BY <1>3, <2>3
    <3> HIDE DEF a, z
    <3>2. (a \o s) \o z = a \o (s \o z)
      BY ONLY <3>1, ConcatAssociative, SMTT(20)
    <3> QED
      BY <3>2 DEF a, z
  <2> QED
    BY <1>3, <2>2, <2>5, <2>6
<1>10. Copying' /\ Reading' /\ Returned'
  BY <1>5 DEF Copying, Reading, Returned
<1> QED
  BY <1>7, <1>8, <1>9, <1>10 DEF IInv

LEMMA BlockReadIs ==
    ASSUME IInv, NEW f \in OrdinaryFiles, copy.i \in Nat
    PROVE  LET u == UpTo(copy.i, files[f].size)
               s == BlockRead(f)
           IN  /\ s \in Seq(Byte) /\ Len(s) \in 0 .. BSZ
               /\ SubSeq(Held(f), 1, u) \o s = SubSeq(Held(f), 1, UpTo(copy.i + 1, files[f].size))
               /\ u \in 0 .. files[f].size
               /\ u + Len(s) = UpTo(copy.i + 1, files[f].size)
               /\ s = <<>> => u = files[f].size
               /\ s # <<>> => Len(s) # 0 /\ u % BSZ = 0
<1> DEFINE u == UpTo(copy.i, files[f].size)
           s == BlockRead(f)
           i == copy.i
<1>1. files[f] \in FileRecords /\ files[f].size \in Nat /\ Held(f) = Content(files[f])
  BY HeldTyped DEF IInv
<1>2. s = BlockAt(files[f], i)
  BY DEF BlockRead, BlockAt
<1> HIDE DEF i, s
<1>3. i \in Nat
  BY DEF i
<1>4. /\ s \in Seq(Byte) /\ Len(s) = BytesOf(files[f].size, i)
      /\ s = <<>> <=> BytesOf(files[f].size, i) = 0
      /\ SubSeq(Held(f), 1, UpTo(i, files[f].size)) \o s
           = SubSeq(Held(f), 1, UpTo(i + 1, files[f].size))
  BY <1>1, <1>2, <1>3, BlockAtIs
<1>5. /\ UpTo(i, files[f].size) \in 0 .. files[f].size /\ BytesOf(files[f].size, i) \in 0 .. BSZ
      /\ UpTo(i, files[f].size) + BytesOf(files[f].size, i) = UpTo(i + 1, files[f].size)
      /\ BytesOf(files[f].size, i) = 0 => UpTo(i, files[f].size) = files[f].size
      /\ BytesOf(files[f].size, i) # 0 => UpTo(i, files[f].size) = i * BSZ
  BY <1>1, <1>3, OneBlockFurther
<1>6. (i * BSZ) % BSZ = 0
  <2>1. (i * BSZ + 0) % BSZ = 0
    BY <1>3, DivisionUnique, BlockSizeAssumption
  <2>2. i * BSZ \in Nat /\ i * BSZ + 0 = i * BSZ
    BY <1>3, BlockSizeAssumption
  <2> QED
    BY <2>1, <2>2
<1> QED
  BY <1>4, <1>5, <1>6 DEF i, s

LEMMA CopyBlockKeeps ==
    ASSUME IInv, CopyBlock
    PROVE  IInv'
<1>0. /\ copy \in Moves /\ copy.phase = "copy33file" /\ copy.f \in OrdinaryFiles
      /\ copy.fi \in OrdinaryFiles /\ copy.fi # copy.f /\ copy.i \in Nat
      /\ copy.nBytesWritten \in Nat
  BY Phases DEF IInv, CopyBlock, Moves
<1>a. PICK f \in OrdinaryFiles, fi \in OrdinaryFiles : f = copy.f /\ fi = copy.fi
  BY <1>0
<1> DEFINE s == BlockRead(fi)
<1>1. /\ copy \in Moves /\ copy.phase = "copy33file" /\ f \in OrdinaryFiles /\ fi \in OrdinaryFiles
      /\ fi # f /\ copy.i \in Nat /\ copy.nBytesWritten \in Nat
  BY <1>0, <1>a
<1>2. /\ s # <<>> /\ files' = AppendBytesTo(files, f, s) /\ wanted' = wanted
      /\ damaged' = IF HasFreeBlock(files) THEN damaged ELSE damaged \cup {f}
      /\ copy' = [copy EXCEPT !.i = copy.i + 1, !.nBytesWritten = copy.nBytesWritten + Len(s)]
  BY <1>a DEF CopyBlock
<1> DEFINE u == UpTo(copy.i, files[fi].size)
<1> HIDE DEF s, u
<1>3. /\ s \in Seq(Byte) /\ Len(s) \in 1 .. BSZ /\ Len(s) \in Nat
      /\ SubSeq(Held(fi), 1, u) \o s = SubSeq(Held(fi), 1, UpTo(copy.i + 1, files[fi].size))
      /\ u + Len(s) = UpTo(copy.i + 1, files[fi].size) /\ u % BSZ = 0
      /\ u \in 0 .. files[fi].size
  BY <1>1, <1>2, BlockReadIs, BlockSizeAssumption DEF s, u
<1>4. /\ copy' \in Moves /\ copy'.phase = "copy33file" /\ copy'.f = f /\ copy'.fi = fi
      /\ copy'.i = copy.i + 1 /\ copy'.nBytesWritten = copy.nBytesWritten + Len(s)
  <2> DEFINE m == copy.nBytesWritten + Len(s)
             k == copy.i + 1
  <2>1. m \in Nat /\ k \in Nat /\ copy' = [copy EXCEPT !.i = k, !.nBytesWritten = m]
    BY <1>1, <1>2, <1>3
  <2> HIDE DEF m, k
  <2>2. /\ copy' \in Moves /\ copy'.phase = "copy33file" /\ copy'.f = copy.f
        /\ copy'.fi = copy.fi /\ copy'.i = k /\ copy'.nBytesWritten = m
    BY ONLY <1>0, <2>1 DEF Moves
  <2> QED
    BY <1>a, <2>2 DEF m, k
<1>5. /\ files' \in [OrdinaryFiles -> FileRecords]
      /\ \A g \in OrdinaryFiles \ {f} : files'[g] = files[g]
      /\ HasFreeBlock(files) /\ files[f].size % BSZ = 0 =>
           Content(files'[f]) = Content(files[f]) \o s
  <2>1. files \in [OrdinaryFiles -> FileRecords]
    BY DEF IInv, DataTyped
  <2>2. LET t == AppendBytesTo(files, f, s)
        IN  /\ t \in [OrdinaryFiles -> FileRecords]
            /\ \A g \in OrdinaryFiles \ {f} : t[g] = files[g]
            /\ HasFreeBlock(files) /\ files[f].size % BSZ = 0 =>
                 Content(t[f]) = Content(files[f]) \o s /\ t[f].size = files[f].size + Len(s)
    BY ONLY <1>1, <1>3, <2>1, AppendBytesIs
  <2> QED
    BY <1>2, <2>2
<1>6. DataTyped' /\ CopyTyped'
  BY <1>1, <1>2, <1>4, <1>5 DEF IInv, DataTyped, CopyTyped
<1>7. Others'
  <2>1. damaged \subseteq damaged' /\ copy.f = f
    BY <1>a, <1>2
  <2> QED
    BY <1>1, <1>2, <1>4, <1>5, <2>1, OthersKept DEF Copies
<1>8. Copying'
  <2>1. Held(fi)' = Held(fi) /\ files'[fi] = files[fi]
    BY <1>1, <1>5 DEF Held
  <2>2. Got' = UpTo(copy.i + 1, files[fi].size)
    BY <1>4, <2>1 DEF Got
  <2> SUFFICES ASSUME f \notin damaged'
               PROVE  /\ wanted[f] = Held(fi)
                      /\ Held(f)' = SubSeq(Held(fi), 1, u) \o s
                      /\ copy.nBytesWritten + Len(s) = u + Len(s)
    BY <1>2, <1>3, <1>4, <2>1, <2>2 DEF Copying
  <2>3. HasFreeBlock(files) /\ f \notin damaged
    BY <1>2
  <2>4. Got = u
    BY <1>a DEF Got, u
  <2>5. wanted[f] = Held(fi) /\ Held(f) = SubSeq(Held(fi), 1, u) /\ copy.nBytesWritten = u
    BY <1>a, <1>1, <2>3, <2>4 DEF IInv, Copying
  <2>6. /\ Held(f) = Content(files[f]) /\ Len(Held(f)) = files[f].size
    BY <1>1, HeldTyped DEF IInv
  <2>7. /\ Held(fi) \in Seq(Byte) /\ Len(Held(fi)) = files[fi].size
    BY <1>1, HeldTyped DEF IInv
  <2>8. Len(SubSeq(Held(fi), 1, u)) = u
    BY <1>3, <2>7
  <2>9. files[f].size = u
    BY <2>5, <2>6, <2>8
  <2>10. Held(f)' = Content(files'[f])
    BY DEF Held, Content
  <2> QED
    BY <1>3, <1>5, <2>3, <2>5, <2>6, <2>9, <2>10
<1>9. Writing' /\ Reading' /\ Returned'
  BY <1>4 DEF Writing, Reading, Returned
<1> QED
  BY <1>6, <1>7, <1>8, <1>9 DEF IInv

LEMMA ReadBackKeeps ==
    ASSUME IInv, ReadBackBlock
    PROVE  IInv'
<1>0. /\ copy \in Reads /\ copy.phase = "read33file" /\ copy.f \in OrdinaryFiles
      /\ copy.i \in Nat /\ copy.nBytesWritten \in Nat
  BY Phases DEF IInv, ReadBackBlock, Reads
<1>1. PICK f \in OrdinaryFiles : f = copy.f
  BY <1>0
<1> DEFINE s == BlockRead(f)
<1>2. /\ back' = back \o s /\ files' = files /\ wanted' = wanted /\ damaged' = damaged
      /\ copy' = [copy EXCEPT !.i = copy.i + 1, !.nBytesWritten = copy.nBytesWritten + Len(s)]
  BY <1>1 DEF ReadBackBlock
<1> DEFINE u == UpTo(copy.i, files[f].size)
<1> HIDE DEF s, u
<1>3. /\ s \in Seq(Byte) /\ Len(s) \in Nat
      /\ SubSeq(Held(f), 1, u) \o s = SubSeq(Held(f), 1, UpTo(copy.i + 1, files[f].size))
      /\ u + Len(s) = UpTo(copy.i + 1, files[f].size)
  <2>1. copy.f = f /\ copy.i \in Nat
    BY <1>0, <1>1
  <2> QED
    BY <1>0, <2>1, BlockReadIs DEF s, u
<1>4. /\ copy' \in Reads /\ copy'.phase = "read33file" /\ copy'.f = f
      /\ copy'.i = copy.i + 1 /\ copy'.nBytesWritten = copy.nBytesWritten + Len(s)
  <2> DEFINE m == copy.nBytesWritten + Len(s)
             k == copy.i + 1
  <2>1. m \in Nat /\ k \in Nat /\ copy' = [copy EXCEPT !.i = k, !.nBytesWritten = m]
    BY <1>0, <1>2, <1>3
  <2> HIDE DEF m, k
  <2>2. /\ copy' \in Reads /\ copy'.phase = "read33file" /\ copy'.f = copy.f
        /\ copy'.i = k /\ copy'.nBytesWritten = m
    BY ONLY <1>0, <2>1 DEF Reads
  <2> QED
    BY <1>1, <2>2 DEF m, k
<1>5. \A g : Held(g)' = Held(g)
  BY <1>2 DEF Held
<1>6. DataTyped' /\ CopyTyped'
  BY <1>2, <1>4 DEF IInv, DataTyped, CopyTyped
<1>7. Others'
  BY <1>0, <1>2, <1>5 DEF IInv, Others, Copies
<1>8. Reading'
  <2>1. Given = u /\ Given' = u + Len(s)
    BY <1>1, <1>2, <1>3, <1>4 DEF Given, u
  <2>2. back = SubSeq(Held(f), 1, u) /\ copy.nBytesWritten = u
    BY <1>0, <1>1, <2>1 DEF IInv, Reading
  <2> QED
    BY <1>2, <1>3, <1>4, <1>5, <2>1, <2>2 DEF Reading
<1>9. Writing' /\ Copying' /\ Returned'
  BY <1>4 DEF Writing, Copying, Returned
<1> QED
  BY <1>6, <1>7, <1>8, <1>9 DEF IInv

LEMMA ReturnsKeeps ==
    ASSUME IInv, CopyReturns
    PROVE  IInv'
<1>1. /\ copied' = copy.nBytesWritten /\ files' = files /\ back' = back /\ wanted' = wanted
      /\ damaged' = damaged /\ copy' = [phase |-> "idle", last |-> copy.phase, f |-> copy.f]
  BY DEF CopyReturns
<1>2. /\ copy.f \in OrdinaryFiles
      /\ copy.phase \in {"write33file", "copy33file", "read33file"}
  BY Phases DEF IInv, CopyReturns, Writes, Moves, Reads
<1>3. /\ copy' \in Returns /\ copy'.phase = "idle" /\ copy'.last = copy.phase /\ copy'.f = copy.f
  BY <1>1, <1>2 DEF Returns
<1>4. \A g : Held(g)' = Held(g)
  BY <1>1 DEF Held
<1>5. DataTyped' /\ CopyTyped'
  BY <1>1, <1>3 DEF IInv, DataTyped, CopyTyped
<1>6. PICK f \in OrdinaryFiles : f = copy.f
  BY <1>2
<1>7. files[f].size \in Nat /\ Held(f) \in Seq(Byte) /\ Len(Held(f)) = files[f].size
  BY HeldTyped DEF IInv
<1>8. CASE copy.phase = "write33file"
  <2>1. copy.source = <<>>
    BY <1>8 DEF CopyReturns
  <2>2. f \notin damaged => Held(f) = wanted[f] /\ copied' = files[f].size
    <3> SUFFICES ASSUME f \notin damaged
                 PROVE  Held(f) = wanted[f] /\ copied' = files[f].size
      OBVIOUS
    <3>1. wanted[f] = Held(f) \o <<>> /\ copy.nBytesWritten = files[f].size
      BY <1>6, <1>8, <2>1 DEF IInv, Writing
    <3> QED
      BY <1>1, <1>7, <3>1, ConcatEmptySeq
  <2>3. Others'
    BY <1>1, <1>3, <1>4, <1>6, <1>8, <2>2 DEF IInv, Others, Copies
  <2> QED
    BY <1>1, <1>3, <1>5, <1>6, <1>8, <2>2, <2>3
       DEF IInv, Writing, Copying, Reading, Returned
<1>9. CASE copy.phase = "copy33file"
  <2>1. copy \in Moves
    BY <1>9, Phases DEF IInv
  <2>2. PICK fi \in OrdinaryFiles : fi = copy.fi
    BY <2>1 DEF Moves
  <2>3. Got = files[fi].size
    <3>1. BlockRead(fi) = <<>> /\ copy.i \in Nat
      BY <1>9, <2>1, <2>2 DEF CopyReturns, Moves
    <3>2. UpTo(copy.i, files[fi].size) = files[fi].size
      BY <3>1, BlockReadIs
    <3> QED
      BY <2>2, <3>2 DEF Got
  <2>4. Held(fi) \in Seq(Byte) /\ Len(Held(fi)) = files[fi].size
    BY HeldTyped DEF IInv
  <2>5. f \notin damaged => Held(f) = wanted[f] /\ copied' = files[f].size
    <3> SUFFICES ASSUME f \notin damaged
                 PROVE  Held(f) = wanted[f] /\ copied' = files[f].size
      OBVIOUS
    <3>1. wanted[f] = Held(fi) /\ Held(f) = SubSeq(Held(fi), 1, files[fi].size)
            /\ copied' = files[fi].size
      BY <1>1, <1>6, <1>9, <2>2, <2>3 DEF IInv, Copying
    <3>2. SubSeq(Held(fi), 1, Len(Held(fi))) = Held(fi)
      BY <2>4
    <3> QED
      BY <1>7, <2>4, <3>1, <3>2
  <2>6. Others'
    BY <1>1, <1>3, <1>4, <1>6, <1>9, <2>5 DEF IInv, Others, Copies
  <2> QED
    BY <1>1, <1>3, <1>5, <1>6, <1>9, <2>5, <2>6
       DEF IInv, Writing, Copying, Reading, Returned
<1>10. CASE copy.phase = "read33file"
  <2>1. Given = files[f].size
    <3>1. BlockRead(f) = <<>> /\ copy.i \in Nat
      BY <1>6, <1>10, Phases DEF IInv, CopyReturns, Reads
    <3>2. UpTo(copy.i, files[f].size) = files[f].size
      BY <3>1, BlockReadIs
    <3> QED
      BY <1>6, <3>2 DEF Given
  <2>2. back = Held(f) /\ copied' = files[f].size
    <3>1. back = SubSeq(Held(f), 1, files[f].size) /\ copied' = files[f].size
      BY <1>1, <1>6, <1>10, <2>1 DEF IInv, Reading
    <3>2. SubSeq(Held(f), 1, Len(Held(f))) = Held(f)
      BY <1>7
    <3> QED
      BY <1>7, <3>1, <3>2
  <2>3. Others'
    BY <1>1, <1>3, <1>4, <1>10 DEF IInv, Others, Copies
  <2>4. Returned'
    <3>1. Held(f)' = Held(f)
      BY <1>4
    <3> QED
      BY <1>1, <1>3, <1>4, <1>6, <2>2, <3>1 DEF Returned
  <2> QED
    BY <1>3, <1>5, <2>3, <2>4 DEF IInv, Writing, Copying, Reading
<1> QED
  BY <1>2, <1>8, <1>9, <1>10

LEMMA StutterKeeps ==
    ASSUME IInv, UNCHANGED copyVars
    PROVE  IInv'
<1>1. /\ files' = files /\ copy' = copy /\ copied' = copied /\ back' = back /\ wanted' = wanted
      /\ damaged' = damaged
  BY DEF copyVars
<1>2. \A g : Held(g)' = Held(g)
  BY <1>1 DEF Held
<1>3. Got' = Got /\ Given' = Given
  BY <1>1 DEF Got, Given
<1> QED
  BY <1>1, <1>2, <1>3
     DEF IInv, DataTyped, CopyTyped, Others, Writing, Copying, Reading, Returned

LEMMA CopyInvariant == CopySpec => []IInv
<1>1. ASSUME IInv, [CopyNext]_copyVars PROVE IInv'
  <2>1. ASSUME NEW f \in OrdinaryFiles, Read33File(f) PROVE IInv'
    BY <1>1, <2>1, Read33FileKeeps
  <2>2. ASSUME NEW f \in OrdinaryFiles, NEW h \in HostFiles \cup HostStreams, Write33File(f, h)
        PROVE  IInv'
    BY <1>1, <2>2, Write33FileKeeps
  <2>3. ASSUME NEW f \in OrdinaryFiles, NEW s \in OrdinaryFiles, Copy33File(s, f) PROVE IInv'
    BY <1>1, <2>3, Copy33FileKeeps
  <2>4. ASSUME NEW n \in 1 .. BSZ, WriteBlockOf(n) PROVE IInv'
    BY <1>1, <2>4, WriteBlockKeeps
  <2>5. CASE CopyBlock
    BY <1>1, <2>5, CopyBlockKeeps
  <2>6. CASE ReadBackBlock
    BY <1>1, <2>6, ReadBackKeeps
  <2>7. CASE CopyReturns
    BY <1>1, <2>7, ReturnsKeeps
  <2>8. CASE UNCHANGED copyVars
    BY <1>1, <2>8, StutterKeeps
  <2> QED
    BY <1>1, <2>1, <2>2, <2>3, <2>4, <2>5, <2>6, <2>7, <2>8 DEF CopyNext
<1> QED
  BY <1>1, InvInitially, PTL DEF CopySpec

(* CopiesFaithful, for every block size, disk and host file: a file that   *)
(* no block was dropped from holds what cp was to put into it, through any *)
(* number of copies, and cp returns its size.                              *)
THEOREM CopiesAreFaithful == CopySpec => []CopiesFaithful
<1>1. IInv => CopiesFaithful
  BY DEF IInv, Others, Returned, CopiesFaithful, Copies
<1> QED
  BY <1>1, CopyInvariant, PTL

(* RoundTrip, for every block size, disk and host file: what read33file    *)
(* gives the host is what the file holds, and what the host had given if   *)
(* no block was dropped.                                                   *)
THEOREM RoundTrips == CopySpec => []RoundTrip
<1>1. IInv => RoundTrip
  <2> SUFFICES ASSUME IInv, copy # NoCopy, copy.phase = "idle", copy.last = "read33file"
               PROVE  /\ back = Held(copy.f) /\ copied = Len(back)
                      /\ copy.f \notin damaged => back = wanted[copy.f]
    BY DEF RoundTrip
  <2>1. copy.f \in OrdinaryFiles
    BY Phases DEF IInv, Returns
  <2>2. Len(Held(copy.f)) = files[copy.f].size
    BY <2>1, HeldTyped DEF IInv
  <2>3. back = Held(copy.f) /\ copied = files[copy.f].size
    BY DEF IInv, Returned
  <2>4. copy.f \notin damaged => Held(copy.f) = wanted[copy.f]
    BY <2>1 DEF IInv, Others, Copies
  <2> QED
    BY <2>2, <2>3, <2>4
<1> QED
  BY <1>1, CopyInvariant, PTL
-----------------------------------------------------------------------------
(* The disk is never overfull.  Every copy makes one file longer, by one   *)
(* block at most, which getFreeBlock has found free.                       *)
BlocksUsed(fs) == [f \in OrdinaryFiles |-> NBlocks(fs[f].size)]

Fitting(fs) ==
    /\ Used(fs) <= DiskBlocks
    /\ \A f \in OrdinaryFiles : DOMAIN fs[f].block \subseteq 0 .. DiskBlocks - 1

LEMMA UsedIsSum ==
    ASSUME NEW fs \in [OrdinaryFiles -> FileRecords]
    PROVE  /\ BlocksUsed(fs) \in [OrdinaryFiles -> Nat]
           /\ \E g : IsSum(g, BlocksUsed(fs), OrdinaryFiles) /\ Used(fs) = g[OrdinaryFiles]
<1> DEFINE w == BlocksUsed(fs)
           S == OrdinaryFiles
           R(g) == g = [s \in SUBSET S |-> IF s = {} THEN 0
                                            ELSE NBlocks(fs[AnyOf(s)].size) + g[s \ {AnyOf(s)}]]
<1>1. w \in [S -> Nat]
  BY BlocksOf DEF BlocksUsed, FileRecords
<1>2. IsFiniteSet(S)
  BY FileCopyAssumption
<1>3. \A s \in (SUBSET S) \ {{}} : AnyOf(s) \in S /\ w[AnyOf(s)] = NBlocks(fs[AnyOf(s)].size)
  BY DEF AnyOf, BlocksUsed
<1> HIDE DEF w
<1>4. \E g : R(g)
  <2>1. PICK g : IsSum(g, w, S)
    BY <1>1, <1>2, SumExists
  <2>2. R(g)
    BY <1>3, <2>1 DEF IsSum
  <2> QED
    BY <2>2
<1> DEFINE u == CHOOSE g : R(g)
<1>5. Used(fs) = u[S]
  BY DEF Used, MapThenSumSet, MapThenFoldSet, AnyOf
<1>6. R(u)
  <2> HIDE DEF R
  <2> QED
    BY <1>4
<1> HIDE DEF u
<1>7. u = [s \in SUBSET S |-> IF s = {} THEN 0 ELSE w[AnyOf(s)] + u[s \ {AnyOf(s)}]]
  BY <1>3, <1>6
<1>8. IsSum(u, w, S)
  BY <1>1, <1>2, <1>7, SumTyped
<1> QED
  BY <1>1, <1>5, <1>8 DEF w

(* One file changed. *)
LEMMA UsedChanged ==
    ASSUME NEW fs \in [OrdinaryFiles -> FileRecords], NEW t \in [OrdinaryFiles -> FileRecords],
           NEW f \in OrdinaryFiles, \A g \in OrdinaryFiles \ {f} : t[g] = fs[g]
    PROVE  /\ Used(t) = Used(fs) + NBlocks(t[f].size) - NBlocks(fs[f].size)
           /\ Used(fs) \in Nat /\ Used(t) \in Nat
           /\ NBlocks(t[f].size) \in Nat /\ NBlocks(fs[f].size) \in 0 .. Used(fs)
<1> DEFINE w == BlocksUsed(fs)
           v == BlocksUsed(t)
           S == OrdinaryFiles
<1>1. w \in [S -> Nat] /\ v \in [S -> Nat] /\ IsFiniteSet(S)
  BY UsedIsSum, FileCopyAssumption
<1>2. PICK g : IsSum(g, w, S) /\ Used(fs) = g[S]
  BY UsedIsSum
<1>3. PICK h : IsSum(h, v, S) /\ Used(t) = h[S]
  BY UsedIsSum
<1>4. w[f] = NBlocks(fs[f].size) /\ v[f] = NBlocks(t[f].size) /\ \A x \in S \ {f} : v[x] = w[x]
  BY DEF BlocksUsed
<1> HIDE DEF w, v
<1>5. h[S] = g[S] + v[f] - w[f] /\ w[f] <= g[S]
  BY <1>1, <1>2, <1>3, <1>4, SumChanged, SumBounds
<1>6. g[S] \in Nat /\ h[S] \in Nat
  BY <1>2, <1>3 DEF IsSum
<1> QED
  BY <1>1, <1>2, <1>3, <1>4, <1>5, <1>6

LEMMA EmptiedFits ==
    ASSUME NEW fs \in [OrdinaryFiles -> FileRecords], Fitting(fs), NEW f \in OrdinaryFiles
    PROVE  Fitting([fs EXCEPT ![f] = EmptyFile])
<1> DEFINE t == [fs EXCEPT ![f] = EmptyFile]
<1>1. t \in [OrdinaryFiles -> FileRecords] /\ t[f] = EmptyFile
      /\ \A g \in OrdinaryFiles \ {f} : t[g] = fs[g]
  BY EmptyTyped
<1> HIDE DEF t
<1>2. NBlocks(t[f].size) = 0
  <2>1. NBlocks(0) \in Nat /\ ~(0 < NBlocks(0))
    BY BlocksOf, BlockSizeAssumption
  <2> QED
    BY <1>1, <2>1, EmptyTyped
<1>3. Used(t) <= Used(fs) /\ Used(t) \in Nat /\ Used(fs) \in Nat
  BY <1>1, <1>2, UsedChanged
<1>4. DOMAIN t[f].block = {}
  BY <1>1 DEF EmptyFile
<1>5. Used(t) <= DiskBlocks
  BY <1>3, FileCopyAssumption DEF Fitting
<1> QED
  BY <1>1, <1>4, <1>5 DEF Fitting, t

LEMMA AppendOneBlockFits ==
    ASSUME NEW fs \in [OrdinaryFiles -> FileRecords], Fitting(fs), NEW f \in OrdinaryFiles,
           NEW s \in Seq(Byte), Len(s) \in 1 .. BSZ
    PROVE  Fitting(AppendOneBlockTo(fs, f, s))
<1> DEFINE r == Appended(fs[f], s)
           t == [fs EXCEPT ![f] = r]
<1> SUFFICES ASSUME HasFreeBlock(fs) PROVE Fitting(t)
  BY DEF AppendOneBlockTo, Appended
<1>1. r \in FileRecords /\ r.size = fs[f].size + Len(s)
  BY AppendBlockKeeps DEF Appended
<1>2. DOMAIN r.block = DOMAIN fs[f].block \cup {NBlocks(fs[f].size)}
  BY DEF Appended, Stored
<1> HIDE DEF r
<1>3. t \in [OrdinaryFiles -> FileRecords] /\ t[f] = r
      /\ \A g \in OrdinaryFiles \ {f} : t[g] = fs[g]
  BY <1>1
<1> HIDE DEF t
<1>4. /\ Used(t) = Used(fs) + NBlocks(r.size) - NBlocks(fs[f].size)
      /\ Used(fs) \in Nat /\ NBlocks(r.size) \in Nat /\ NBlocks(fs[f].size) \in 0 .. Used(fs)
  <2>1. /\ Used(t) = Used(fs) + NBlocks(t[f].size) - NBlocks(fs[f].size)
        /\ Used(fs) \in Nat /\ NBlocks(t[f].size) \in Nat /\ NBlocks(fs[f].size) \in 0 .. Used(fs)
    BY <1>3, UsedChanged
  <2> QED
    BY <1>3, <2>1
<1>5. NBlocks(r.size) <= NBlocks(fs[f].size) + 1
  <2>1. fs[f].size \in Nat /\ Len(s) \in 0 .. BSZ
    BY DEF FileRecords
  <2> QED
    BY <1>1, <2>1, OneBlockMore
<1>6. Used(fs) < DiskBlocks
  BY DEF HasFreeBlock
<1>7. Used(t) <= DiskBlocks /\ NBlocks(fs[f].size) \in 0 .. DiskBlocks - 1
  BY <1>4, <1>5, <1>6, FileCopyAssumption
<1>8. ASSUME NEW g \in OrdinaryFiles PROVE DOMAIN t[g].block \subseteq 0 .. DiskBlocks - 1
  BY <1>2, <1>3, <1>7 DEF Fitting
<1> QED
  BY <1>7, <1>8 DEF Fitting

LEMMA AppendBytesFits ==
    ASSUME NEW fs \in [OrdinaryFiles -> FileRecords], Fitting(fs), NEW f \in OrdinaryFiles,
           NEW s \in Seq(Byte), Len(s) \in 1 .. BSZ
    PROVE  Fitting(AppendBytesTo(fs, f, s))
<1> DEFINE n == FillOf(fs[f].size, Len(s))
           r == FilledUp(fs[f], s)
           u == FillLastBlockOf(fs, f, s)
           x == Rest(s, n)
<1>1. fs[f].size \in Nat /\ Len(s) \in Nat \ {0} /\ n \in 0 .. Len(s)
  <2>1. fs[f].size \in Nat /\ Len(s) \in Nat \ {0}
    BY DEF FileRecords
  <2> QED
    BY <2>1, FillOfBounds
<1>2. u = IF n = 0 THEN fs ELSE [fs EXCEPT ![f] = r]
  BY DEF FillLastBlockOf, FilledUp
<1>3. n # 0 => /\ r \in FileRecords /\ NBlocks(r.size) = NBlocks(fs[f].size)
               /\ DOMAIN r.block = DOMAIN fs[f].block
  <2> SUFFICES ASSUME n # 0
               PROVE  /\ r \in FileRecords /\ NBlocks(r.size) = NBlocks(fs[f].size)
                      /\ DOMAIN r.block = DOMAIN fs[f].block
    OBVIOUS
  <2>1. r \in FileRecords
    BY FillKeeps
  <2>2. r.size = fs[f].size + n
    BY DEF FilledUp
  <2>3. NBlocks(fs[f].size) - 1 \in DOMAIN fs[f].block
    <3>1. fs[f].size # 0
      <4>1. fs[f].size % BSZ # 0
        BY <1>1, FillOfBounds
      <4> QED
        BY <4>1, BlockSizeAssumption
    <3>2. 0 < NBlocks(fs[f].size) /\ NBlocks(fs[f].size) \in Nat
      <4>1. 0 * BSZ < fs[f].size
        BY <1>1, <3>1, BlockSizeAssumption
      <4> QED
        BY <1>1, <4>1, BlocksOf
    <3> QED
      BY <3>2 DEF FileRecords
  <2>4. DOMAIN r.block = DOMAIN fs[f].block
    BY <2>3 DEF FilledUp, Stored
  <2> QED
    BY <1>1, <2>1, <2>2, <2>4, FillAddsNoBlock
<1> HIDE DEF r, u
<1>4. u \in [OrdinaryFiles -> FileRecords] /\ Fitting(u)
  <2>1. CASE n = 0
    BY <1>2, <2>1
  <2>2. CASE n # 0
    <3>1. /\ u \in [OrdinaryFiles -> FileRecords] /\ u[f] = r
          /\ \A g \in OrdinaryFiles \ {f} : u[g] = fs[g]
      BY <1>2, <1>3, <2>2
    <3>2. Used(u) = Used(fs) + NBlocks(u[f].size) - NBlocks(fs[f].size) /\ Used(fs) \in Nat
          /\ NBlocks(u[f].size) \in Nat
      BY <3>1, UsedChanged
    <3>3. Used(u) = Used(fs)
      BY <1>3, <2>2, <3>1, <3>2
    <3> QED
      BY <1>3, <2>2, <3>1, <3>3 DEF Fitting
  <2> QED
    BY <2>1, <2>2
<1>5. AppendBytesTo(fs, f, s) = IF n = Len(s) THEN u ELSE AppendOneBlockTo(u, f, x)
  BY DEF AppendBytesTo, u
<1>6. n # Len(s) => x \in Seq(Byte) /\ Len(x) \in 1 .. BSZ
  <2> SUFFICES ASSUME n # Len(s) PROVE x \in Seq(Byte) /\ Len(x) \in 1 .. BSZ
    OBVIOUS
  <2> HIDE DEF n
  <2>1. x \in Seq(Byte) /\ Len(x) = Len(s) - n
    BY <1>1 DEF Rest
  <2> QED
    BY <1>1, <2>1, BlockSizeAssumption
<1> HIDE DEF n, x
<1> QED
  BY <1>4, <1>5, <1>6, AppendOneBlockFits

FInv == IInv /\ Fitting(files) /\ damaged \subseteq OrdinaryFiles

LEMMA FittingKept ==
    ASSUME FInv, [CopyNext]_copyVars
    PROVE  Fitting(files)' /\ damaged' \subseteq OrdinaryFiles
<1>1. files \in [OrdinaryFiles -> FileRecords] /\ Fitting(files) /\ damaged \subseteq OrdinaryFiles
  BY DEF FInv, IInv, DataTyped
<1>2. ASSUME NEW f \in OrdinaryFiles, NEW r, NEW c, Starts(r, f, c)
      PROVE  Fitting(files)' /\ damaged' \subseteq OrdinaryFiles
  BY <1>1, <1>2, EmptiedFits DEF Starts
<1>3. ASSUME files' = files, damaged' = damaged
      PROVE  Fitting(files)' /\ damaged' \subseteq OrdinaryFiles
  BY <1>1, <1>3
<1>4. ASSUME NEW n \in 1 .. BSZ, WriteBlockOf(n)
      PROVE  Fitting(files)' /\ damaged' \subseteq OrdinaryFiles
  <2>1. copy \in Writes /\ n \in 1 .. Min({BSZ, Len(copy.source)})
    BY <1>4, Phases DEF WriteBlockOf, FInv, IInv
  <2>2. copy.f \in OrdinaryFiles /\ copy.source \in Seq(Byte) /\ Len(copy.source) \in Nat
    BY <2>1 DEF Writes
  <2>3. n <= Len(copy.source) /\ n <= BSZ
    <3>1. Min({BSZ, Len(copy.source)}) = IF BSZ <= Len(copy.source) THEN BSZ ELSE Len(copy.source)
      BY <2>2, MinOfTwo, BlockSizeAssumption
    <3> QED
      BY <2>1, <2>2, <3>1, BlockSizeAssumption
  <2> DEFINE s == SubSeq(copy.source, 1, n)
  <2>4. s \in Seq(Byte) /\ Len(s) = n
    BY <2>2, <2>3
  <2>5. files' = AppendOneBlockTo(files, copy.f, s) /\ damaged' \subseteq damaged \cup {copy.f}
    BY <1>4 DEF WriteBlockOf
  <2> HIDE DEF s
  <2> QED
    BY <1>1, <2>2, <2>4, <2>5, AppendOneBlockFits, BlockSizeAssumption
<1>5. ASSUME CopyBlock
      PROVE  Fitting(files)' /\ damaged' \subseteq OrdinaryFiles
  <2>1. copy \in Moves /\ copy.fi \in OrdinaryFiles /\ copy.f \in OrdinaryFiles /\ copy.i \in Nat
    BY <1>5, Phases DEF CopyBlock, FInv, IInv, Moves
  <2> DEFINE s == BlockRead(copy.fi)
  <2>2. s \in Seq(Byte) /\ s # <<>> /\ Len(s) \in 1 .. BSZ
    <3>1. s = BlockAt(files[copy.fi], copy.i) /\ s # <<>>
      BY <1>5 DEF CopyBlock, BlockRead, BlockAt
    <3>2. files[copy.fi] \in FileRecords /\ files[copy.fi].size \in Nat
      BY <1>1, <2>1 DEF FileRecords
    <3>3. BytesOf(files[copy.fi].size, copy.i) \in 0 .. BSZ
      BY <2>1, <3>2, OneBlockFurther
    <3>4. s \in Seq(Byte) /\ Len(s) = BytesOf(files[copy.fi].size, copy.i)
      BY <2>1, <3>1, <3>2, BlockAtIs
    <3>5. Len(s) # 0
      BY <3>1, <3>4
    <3> HIDE DEF s
    <3> QED
      BY <3>1, <3>3, <3>4, <3>5, BlockSizeAssumption
  <2>3. files' = AppendBytesTo(files, copy.f, s) /\ damaged' \subseteq damaged \cup {copy.f}
    BY <1>5 DEF CopyBlock
  <2> HIDE DEF s
  <2> QED
    BY <1>1, <2>1, <2>2, <2>3, AppendBytesFits
<1> QED
  BY <1>2, <1>3, <1>4, <1>5
     DEF CopyNext, copyVars, Read33File, Write33File, Copy33File, ReadBackBlock, CopyReturns

LEMMA FittingInitially ==
    ASSUME CopyInit
    PROVE  Fitting(files) /\ damaged \subseteq OrdinaryFiles
<1>1. files = [f \in OrdinaryFiles |-> EmptyFile] /\ files \in [OrdinaryFiles -> FileRecords]
  BY EmptyTyped DEF CopyInit
<1>2. NBlocks(0) = 0
  <2>1. NBlocks(0) \in Nat /\ ~(0 < NBlocks(0))
    BY BlocksOf, BlockSizeAssumption
  <2> QED
    BY <2>1
<1> DEFINE w == BlocksUsed(files)
           S == OrdinaryFiles
<1>3. w \in [S -> Nat] /\ \A f \in S : w[f] = 0
  BY <1>1, <1>2, EmptyTyped DEF BlocksUsed
<1>4. PICK g : IsSum(g, w, S) /\ Used(files) = g[S]
  BY <1>1, UsedIsSum
<1> HIDE DEF w
<1> DEFINE Q == {s \in SUBSET S : g[s] = 0}
<1>5. {} \in Q
  BY <1>4 DEF IsSum
<1>6. ASSUME NEW s \in SUBSET S, s # {}, \A x \in s : s \ {x} \in Q PROVE s \in Q
  <2>1. AnyOf(s) \in s
    BY <1>6 DEF AnyOf
  <2>2. g[s] = w[AnyOf(s)] + g[s \ {AnyOf(s)}]
    BY <1>4, <1>6 DEF IsSum
  <2> QED
    BY <1>3, <1>6, <2>1, <2>2
<1>7. SUBSET S \subseteq Q
  <2> HIDE DEF Q
  <2> QED
    BY <1>5, <1>6, SubsetInduction, FileCopyAssumption
<1>8. Used(files) = 0
  BY <1>4, <1>7
<1> QED
  BY <1>1, <1>8, FileCopyAssumption DEF Fitting, EmptyFile, CopyInit

(* FilesOK, for every block size, disk, number of files and host file: the *)
(* files never have more blocks together than the disk, whatever is        *)
(* copied, in whatever parts a stream gives it.                            *)
THEOREM DiskNeverOverfull == CopySpec => []FilesOK
<1>1. CopyInit => FInv
  BY InvInitially, FittingInitially DEF FInv
<1>2. FInv /\ IInv' /\ [CopyNext]_copyVars => FInv'
  BY FittingKept DEF FInv
<1>3. FInv => FilesOK
  BY HeldTyped DEF FInv, IInv, Fitting, FilesOK
<1> QED
  BY <1>1, <1>2, <1>3, CopyInvariant, PTL DEF CopySpec
=============================================================================
