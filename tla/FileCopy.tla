------------------------------ MODULE FileCopy ------------------------------
(***************************************************************************)
(* What is in ordinary files: cp between the host and the volume, and cp   *)
(* within it (FileVolume::write33file, read33file and copy33file), block   *)
(* by block, until the disk is full.  Files share no blocks (Exclusive of  *)
(* module Inodes), so what they hold is independent of the directories;    *)
(* the blocks still free are what they compete for.                        *)
(***************************************************************************)
EXTENDS FileBlocks

CONSTANTS
    OrdinaryFiles,   \* the names of ordinary files in the root
    DiskBlocks,      \* the blocks they can have together
    HostFiles,       \* the contents of host files that read() gives block by block
    HostStreams      \* those of pipes and terminals, which it may give in smaller parts

ASSUME FileCopyAssumption ==
    /\ IsFiniteSet(OrdinaryFiles) /\ DiskBlocks \in Nat
    /\ HostFiles \cup HostStreams \subseteq Seq(0 .. 255)

VARIABLES
    files,     \* the size and the blocks of each file, by their place in it
    copy,      \* the command being executed and its local variables
    copied,    \* what the last command returned: nBytesWritten
    back,      \* the host file that read33file wrote last
    wanted,    \* history: what each file ought to hold
    damaged    \* history: the files that a block was dropped from or appended too early to

copyVars == <<files, copy, copied, back, wanted, damaged>>

\* What a buffer holds at first: bytes no host file has.
NoBytes == [j \in Places |-> 0]
EmptyFile == [size |-> 0, block |-> [k \in {} |-> NoBytes]]
NoCopy == [phase |-> "idle"]
Held(f) == ContentOf(files[f].size, files[f].block)

\* FileVolume::getFreeBlock.  A mistake to guard against: a block past the last.
Used(fs) == MapThenSumSet(LAMBDA f : NBlocks(fs[f].size), OrdinaryFiles)
HasFreeBlockBeyond(fs) == Used(fs) <= DiskBlocks
HasFreeBlock(fs) == Used(fs) < DiskBlocks

CopyInit ==
    /\ files = [f \in OrdinaryFiles |-> EmptyFile]
    /\ copy = NoCopy /\ copied = 0 /\ back = <<>>
    /\ wanted = [f \in OrdinaryFiles |-> <<>>]
    /\ damaged = {}

\* A block number is stored for place k.
Stored(block, k, buf) == [j \in DOMAIN block \cup {k} |-> IF j = k THEN buf ELSE block[j]]

(* File::appendOneBlock of the bytes s, whatever the size is: it drops     *)
(* them when no block is free, and puts them into a block of their own     *)
(* when the last one is not full yet.                                      *)
AppendOneBlockTo(fs, f, s) ==
    IF ~HasFreeBlock(fs) THEN fs
    ELSE [fs EXCEPT ![f] = [size |-> @.size + Len(s),
                            block |-> Stored(@.block, NBlocks(@.size), Filled(NoBytes, 0, Len(s), s))]]

(* File::appendBytes of at most a block's worth. *)
FillLastBlockOf(fs, f, s) ==
    LET n == FillOf(fs[f].size, Len(s))
        last == NBlocks(fs[f].size) - 1
    IN  IF n = 0 THEN fs
        ELSE [fs EXCEPT ![f] = [size |-> @.size + n,
                                block |-> Stored(@.block, last,
                                            Filled(@.block[last], @.size % BSZ, n, s))]]
AppendBytesTo(fs, f, s) ==
    LET n == FillOf(fs[f].size, Len(s))
        filled == FillLastBlockOf(fs, f, s)
    IN  IF n = Len(s) THEN filled ELSE AppendOneBlockTo(filled, f, Rest(s, n))

Starts(record, f, content) ==
    /\ copy.phase = "idle"
    /\ copy' = record
    /\ files' = [files EXCEPT ![f] = EmptyFile]
    /\ wanted' = [wanted EXCEPT ![f] = content]
    /\ damaged' = damaged \ {f}
    /\ UNCHANGED <<copied, back>>

(* cp @h f: FileVolume::write33file deletes f and makes it again. *)
Write33File(f, h) ==
    \E parts \in {p \in BOOLEAN : h \in (IF p THEN HostStreams ELSE HostFiles)} :
      Starts([phase |-> "write33file", f |-> f, source |-> h, inParts |-> parts,
              nBytesWritten |-> 0], f, h)

\* One read() and one appendOneBlock(), which counts whatever it did.
WriteBlockOf(n) ==
    LET f == copy.f
        s == SubSeq(copy.source, 1, n)
    IN  /\ copy.phase = "write33file" /\ n \in 1 .. Min({BSZ, Len(copy.source)})
        /\ n = Min({BSZ, Len(copy.source)}) \/ copy.inParts
        /\ files' = AppendOneBlockTo(files, f, s)
        /\ damaged' = IF HasFreeBlock(files) /\ files[f].size % BSZ = 0 THEN damaged
                      ELSE damaged \cup {f}
        /\ copy' = [copy EXCEPT !.source = Rest(@, n), !.nBytesWritten = @ + n]
        /\ UNCHANGED <<copied, back, wanted>>

(* cp s d: FileVolume::copy33file, from block 0 of s on.  A mistake to     *)
(* guard against: from block 1.                                            *)
CopyStartLate == 1
CopyStart == 0
Copy33File(s, d) ==
    /\ s # d
    /\ Starts([phase |-> "copy33file", fi |-> s, f |-> d, i |-> CopyStart, nBytesWritten |-> 0],
              d, Held(s))

BlockRead(f) == [j \in 1 .. BytesOf(files[f].size, copy.i) |-> files[f].block[copy.i][j - 1]]

CopyBlock ==
    LET s == BlockRead(copy.fi)
    IN  /\ copy.phase = "copy33file" /\ s # <<>>
        /\ files' = AppendBytesTo(files, copy.f, s)
        /\ damaged' = IF HasFreeBlock(files) THEN damaged ELSE damaged \cup {copy.f}
        /\ copy' = [copy EXCEPT !.i = @ + 1, !.nBytesWritten = @ + Len(s)]
        /\ UNCHANGED <<copied, back, wanted>>

(* cp f @h: FileVolume::read33file. *)
Read33File(f) ==
    /\ copy.phase = "idle"
    /\ copy' = [phase |-> "read33file", f |-> f, i |-> 0, nBytesWritten |-> 0]
    /\ back' = <<>>
    /\ UNCHANGED <<files, copied, wanted, damaged>>

ReadBackBlock ==
    LET s == BlockRead(copy.f)
    IN  /\ copy.phase = "read33file" /\ s # <<>>
        /\ back' = back \o s
        /\ copy' = [copy EXCEPT !.i = @ + 1, !.nBytesWritten = @ + Len(s)]
        /\ UNCHANGED <<files, copied, wanted, damaged>>

(* The command returns when there is nothing more to read. *)
CopyReturns ==
    /\ \/ copy.phase = "write33file" /\ copy.source = <<>>
       \/ copy.phase = "copy33file" /\ BlockRead(copy.fi) = <<>>
       \/ copy.phase = "read33file" /\ BlockRead(copy.f) = <<>>
    /\ copied' = copy.nBytesWritten
    /\ copy' = [phase |-> "idle", last |-> copy.phase, f |-> copy.f]
    /\ UNCHANGED <<files, back, wanted, damaged>>

CopyNext ==
    \/ \E f \in OrdinaryFiles :
         Read33File(f)
           \/ (\E h \in HostFiles \cup HostStreams : Write33File(f, h))
           \/ \E s \in OrdinaryFiles : Copy33File(s, f)
    \/ \E n \in 1 .. BSZ : WriteBlockOf(n)
    \/ CopyBlock \/ ReadBackBlock \/ CopyReturns

CopySpec == CopyInit /\ [][CopyNext]_copyVars
-----------------------------------------------------------------------------
(* The files are well typed and have no more blocks than the disk. *)
FilesOK ==
    /\ \A f \in OrdinaryFiles :
         files[f].size \in Nat /\ DOMAIN files[f].block \subseteq 0 .. DiskBlocks - 1
    /\ Used(files) <= DiskBlocks
    /\ damaged \subseteq OrdinaryFiles

(* A file holds what was copied into it, through any number of copies of   *)
(* copies, and cp returns its size, unless the disk was full or a stream   *)
(* gave a part smaller than a block before its end.                        *)
CopiesFaithful ==
    copy.phase = "idle" =>
      /\ \A f \in OrdinaryFiles \ damaged : Held(f) = wanted[f]
      /\ copy # NoCopy /\ copy.f \notin damaged => copied = files[copy.f].size

(* What read33file gives the host is, byte for byte, what the file holds;  *)
(* if the file is not damaged, it is what the host had given.              *)
RoundTrip ==
    (copy # NoCopy /\ copy.phase = "idle" /\ copy.last = "read33file") =>
        /\ back = Held(copy.f) /\ copied = Len(back)
        /\ copy.f \notin damaged => back = wanted[copy.f]
=============================================================================
