--------------------------- MODULE DirectoryFile ---------------------------
(***************************************************************************)
(* A directory as its file has it, byte by byte: the methods of Directory  *)
(* that look up, add and delete an entry (directory.cpp), over the read    *)
(* cursor and the buffers of class File (file.cpp).  Several Directory     *)
(* objects may stand for one directory, as the volume's root and the       *)
(* shell's wd do; each keeps a File of its own.                            *)
(*                                                                         *)
(* A step is one turn of a loop.                                           *)
(***************************************************************************)
EXTENDS FileBlocks, SequencesExt

CONSTANTS
    Objects,     \* the Directory objects on this directory
    IWidth,      \* superBlock.iWidth, bytes of an i-number in an entry
    MaxBlocks,   \* blocks the file can have; then the disk is full
    Names,       \* file names, as sequences of bytes that are not 0
    Dot, DotDot, \* the names of the first two entries
    Numbers      \* i-numbers

ASSUME DirectoryFileAssumption ==
    /\ IWidth \in Nat \ {0} /\ MaxBlocks \in Nat
    /\ Names \cup {Dot, DotDot} \subseteq Seq(1 .. 255) \ {<<>>}
    /\ {Dot, DotDot} \cap Names = {} /\ Dot # DotDot
    /\ Numbers \subseteq 1 .. 255
    /\ Len(Dot) + Len(DotDot) + 2 + 2 * IWidth <= MaxBlocks * BSZ  \* mkfs had room for both

VARIABLES
    size,      \* getFileSize(nInode)
    block,     \* the bytes of its blocks, past the end of the file too
    dirf,      \* the File of each object: its buffer and its cursor, or NoFile
    call,      \* the method being executed, and its local variables
    answer,    \* what the last method returned
    before     \* history: the directory and the cursors when that method was called

vars == <<size, block, dirf, call, answer, before>>
-----------------------------------------------------------------------------
ZeroBlock == [j \in Places |-> 0]

\* addLeafName: the name, a NUL, the i-number with its low byte first.
Bytes(n, i) == n \o <<0, i>> \o [j \in 1 .. IWidth - 1 |-> 0]
Value(number) == FoldRight(LAMBDA b, v : b + 256 * v, number, 0)

\* The bytes of the file, and the entries nextName() would read in them.
Content == ContentOf(size, block)
Entries ==
    LET nul(p) == Min({q \in p .. size : Content[q] = 0} \cup {size + 1})
        from[p \in 1 .. size + 1 + IWidth] ==
          IF p > size THEN <<>>
          ELSE <<[name |-> SubSeq(Content, p, nul(p) - 1),
                  in |-> Value(SubSeq(Content, nul(p) + 1, Min({nul(p) + IWidth, size})))]>>
                 \o from[Min({nul(p) + IWidth, size}) + 1]
    IN  from[1]

\* The File constructor, and namesEnd(), which deletes the File.
NewFile == [open |-> TRUE, nBlocksSoFar |-> 0, nBytesInFileBuf |-> 0, xNextByte |-> 0,
            fileBuf |-> ZeroBlock]
NoFile == [NewFile EXCEPT !.open = FALSE]

\* File::getNextByte: the File after it, and the byte.  nBlocksSoFar goes on
\* counting at the end of the file; from MaxBlocks on that changes nothing.
Exhausted(f) == f.xNextByte = f.nBytesInFileBuf
Refilled(f) ==
    IF ~Exhausted(f) THEN f
    ELSE [f EXCEPT !.xNextByte = 0,
                   !.nBlocksSoFar = Min({@ + 1, MaxBlocks}),
                   !.nBytesInFileBuf = BytesOf(size, f.nBlocksSoFar),
                   !.fileBuf = IF BytesOf(size, f.nBlocksSoFar) = 0 THEN @ ELSE block[f.nBlocksSoFar]]
AtEOF(f) == Refilled(f).nBytesInFileBuf = 0
NextByte(f) == IF AtEOF(f) THEN 0 ELSE Refilled(f).fileBuf[Refilled(f).xNextByte]
Advanced(f) == IF AtEOF(f) THEN Refilled(f) ELSE [Refilled(f) EXCEPT !.xNextByte = @ + 1]

NewDirectory == Bytes(Dot, 1) \o Bytes(DotDot, 1)
Idle == [phase |-> "idle"]
NoCall == [entries |-> <<>>, atEnd |-> {}]

Init ==
    /\ size = Len(NewDirectory)
    /\ block = [k \in 0 .. MaxBlocks - 1 |->
                  [j \in Places |->
                     IF k * BSZ + j < size THEN NewDirectory[k * BSZ + j + 1] ELSE 0]]
    /\ dirf = [o \in Objects |-> NoFile]
    /\ call = Idle /\ answer = 0 /\ before = NoCall

(* The objects whose cursor a call has left open. *)
OpenFiles == {o \in Objects : dirf[o].open}

(* A method is called.  Names are looked up from where the object's cursor *)
(* is, from the head when it is closed.                                    *)
Called(method, o, n, i) ==
    /\ call.phase = "idle"
    /\ call' = [phase |-> "name", method |-> method, o |-> o, name |-> n, in |-> i,
                word |-> <<>>, number |-> <<>>]
    /\ dirf' = [dirf EXCEPT ![o] = IF @.open THEN @ ELSE NewFile]
    /\ before' = [entries |-> Entries, atEnd |-> OpenFiles]
    /\ UNCHANGED <<size, block, answer>>

\* The method returns r and leaves the object with the File f.
Returns(r, f) ==
    /\ answer' = r
    /\ dirf' = [dirf EXCEPT ![call.o] = f]
    /\ call' = Idle
    /\ before' = NoCall

NamesEnd(o) ==
    /\ call.phase = "idle" /\ o \in OpenFiles
    /\ dirf' = [dirf EXCEPT ![o] = NoFile]
    /\ UNCHANGED <<size, block, call, answer, before>>
-----------------------------------------------------------------------------
(* Directory::setDirEntry, through nextName(): the bytes of a name up to   *)
(* its NUL, none at the end of the file; ...                               *)
ReadName ==
    LET b == NextByte(dirf[call.o])
    IN  /\ call.phase = "name"
        /\ dirf' = [dirf EXCEPT ![call.o] = Advanced(@)]
        /\ call' = CASE b # 0 -> [call EXCEPT !.word = Append(@, b)]
                     [] b = 0 /\ call.word = <<>> -> [call EXCEPT !.phase = "missing"]
                     [] b = 0 /\ call.word # <<>> -> [call EXCEPT !.phase = "number"]
        /\ UNCHANGED <<size, block, answer, before>>

(* ... then the bytes of its i-number; the name is compared. *)
ReadNumber ==
    LET number == Append(call.number, NextByte(dirf[call.o]))
    IN  /\ call.phase = "number"
        /\ dirf' = [dirf EXCEPT ![call.o] = Advanced(@)]
        /\ call' = IF Len(number) < IWidth THEN [call EXCEPT !.number = number]
                   ELSE IF call.word = call.name
                   THEN [call EXCEPT !.number = number, !.phase = "found"]
                   ELSE [call EXCEPT !.word = <<>>, !.number = <<>>, !.phase = "name"]
        /\ UNCHANGED <<size, block, answer, before>>

Looked(method) == call.phase \in {"found", "missing"} /\ call.method = method
Result == IF call.phase = "found" THEN Value(call.number) ELSE 0

(* Directory::iNumberOf *)
INumberOfReturns ==
    /\ Looked("iNumberOf")
    /\ Returns(Result, NoFile)
    /\ UNCHANGED <<size, block>>
-----------------------------------------------------------------------------
(* Directory::addLeafName appends the entry when the name is missing.      *)
AddLeafNameAppends ==
    /\ Looked("addLeafName") /\ Result = 0
    /\ call' = [phase |-> "fill", o |-> call.o, rest |-> Bytes(call.name, call.in)]
    /\ UNCHANGED <<size, block, dirf, answer, before>>

AddLeafNameReturns ==
    /\ \/ Looked("addLeafName") /\ Result # 0
       \/ call.phase = "append" /\ call.rest = <<>>
    /\ Returns(answer, NoFile)
    /\ UNCHANGED <<size, block>>

(* File::appendBytes: fillLastBlock, which reads the last block into the   *)
(* File's own buffer, ...                                                  *)
FillLastBlock ==
    LET j == size % BSZ
        n == FillOf(size, Len(call.rest))
        last == NBlocks(size) - 1
        buf == Filled(block[last], j, n, call.rest)
    IN  /\ call.phase = "fill"
        /\ call' = [call EXCEPT !.phase = "append", !.rest = Rest(@, n)]
        /\ block' = IF j = 0 THEN block ELSE [block EXCEPT ![last] = buf]
        /\ dirf' = IF j = 0 THEN dirf ELSE [dirf EXCEPT ![call.o].fileBuf = buf]
        /\ size' = size + n
        /\ UNCHANGED <<answer, before>>

(* ... and one appendOneBlock() after the other, each of which drops its   *)
(* bytes when the disk is full.                                            *)
AppendOneBlock ==
    LET n == Min({BSZ, Len(call.rest)})
        buf == Filled(dirf[call.o].fileBuf, 0, n, call.rest)
        full == NBlocks(size) = MaxBlocks
    IN  /\ call.phase = "append" /\ call.rest # <<>>
        /\ call' = [call EXCEPT !.rest = Rest(@, n)]
        /\ dirf' = IF full THEN dirf ELSE [dirf EXCEPT ![call.o].fileBuf = buf]
        /\ block' = IF full THEN block ELSE [block EXCEPT ![NBlocks(size)] = buf]
        /\ size' = IF full THEN size ELSE size + n
        /\ UNCHANGED <<answer, before>>
-----------------------------------------------------------------------------
(* Directory::deleteFile: what lies behind the entry is shifted over it by *)
(* deletePrecedingBytes, byte by byte, from the cursor's buffer through a  *)
(* buffer of its own, written when it is full and once more at the end.  A *)
(* mistake to guard against: written one byte after it is full.            *)
FullPast(x) == x = BSZ
Full(x) == x + 1 = BSZ

DeleteFileShifts ==
    LET f == dirf[call.o]
        fromx == (f.nBlocksSoFar - 1) * BSZ + f.xNextByte
        n == Len(call.name) + 1 + IWidth
        tox == fromx - n
    IN  /\ Looked("deleteFile") /\ Result # 0
        /\ call' = [phase |-> "shift", o |-> call.o, in |-> Result, n |-> n,
                    left |-> size - fromx, toBlockNum |-> tox \div BSZ, toBlockx |-> tox % BSZ,
                    localBuf |-> block[tox \div BSZ]]
        /\ UNCHANGED <<size, block, dirf, answer, before>>

Shift ==
    LET buf == [call.localBuf EXCEPT ![call.toBlockx] = NextByte(dirf[call.o])]
        full == Full(call.toBlockx)
    IN  /\ call.phase = "shift" /\ call.left > 0
        /\ dirf' = [dirf EXCEPT ![call.o] = Advanced(@)]
        /\ block' = IF full THEN [block EXCEPT ![call.toBlockNum] = buf] ELSE block
        /\ call' = [call EXCEPT !.left = @ - 1, !.localBuf = buf,
                                !.toBlockNum = IF full THEN @ + 1 ELSE @,
                                !.toBlockx = IF full THEN 0 ELSE @ + 1]
        /\ UNCHANGED <<size, answer, before>>

\* A mistake to guard against: the last block, written in part, forgotten.
Unflushed(blk) == blk
Flushed(blk) == IF call.toBlockx > 0 THEN [blk EXCEPT ![call.toBlockNum] = call.localBuf] ELSE blk

DeleteFileReturns ==
    \/ /\ call.phase = "shift" /\ call.left = 0
       /\ block' = Flushed(block)
       /\ size' = size - call.n
       /\ Returns(call.in, dirf[call.o])
    \/ /\ Looked("deleteFile") /\ Result = 0
       /\ Returns(0, dirf[call.o])
       /\ UNCHANGED <<size, block>>
-----------------------------------------------------------------------------
(* A lookup by an object whose cursor was left at the end reads on if the  *)
(* directory has got another block since, from the middle of an entry.     *)
NoneLeftBehind(o, n, i) ==
    \A q \in OpenFiles \ {o} : size + Len(Bytes(n, i)) <= dirf[q].nBlocksSoFar * BSZ

(* With the disk full a part of the entry would be left.                   *)
DiskHasRoom(n, i) == size + Len(Bytes(n, i)) <= MaxBlocks * BSZ

Next ==
    \/ \E o \in Objects :
         \/ NamesEnd(o)
         \/ \E n \in Names :
              \/ Called("iNumberOf", o, n, 0)
              \/ Called("deleteFile", o, n, 0)
              \/ \E i \in Numbers :
                   NoneLeftBehind(o, n, i) /\ DiskHasRoom(n, i) /\ Called("addLeafName", o, n, i)
    \/ ReadName \/ ReadNumber \/ INumberOfReturns
    \/ AddLeafNameAppends \/ FillLastBlock \/ AppendOneBlock \/ AddLeafNameReturns
    \/ DeleteFileShifts \/ Shift \/ DeleteFileReturns

Spec == Init /\ [][Next]_vars
-----------------------------------------------------------------------------
(* The file and the cursors are well typed: no size or number of bytes to  *)
(* shift is negative, no buffer is read past its end.                      *)
TypeOK ==
    /\ size \in 0 .. MaxBlocks * BSZ
    /\ block \in [0 .. MaxBlocks - 1 -> [Places -> 0 .. 255]]
    /\ \A o \in Objects :
         dirf[o].nBytesInFileBuf \in 0 .. BSZ /\ dirf[o].xNextByte \in 0 .. dirf[o].nBytesInFileBuf
    /\ call.phase = "shift" => call.left \in Nat /\ call.toBlockx \in Places
    /\ answer \in Nat

(* The methods do what DirectoryEntries promises, and do it at once when   *)
(* they return: no byte of another entry is lost, doubled or moved, across *)
(* any block boundary, whichever object is used and wherever its cursor    *)
(* was left.                                                               *)
Promised == INSTANCE DirectoryEntries WITH
    Dots <- <<[name |-> Dot, in |-> 1], [name |-> DotDot, in |-> 1]>>,
    entries <- IF call.phase = "idle" THEN Entries ELSE before.entries,
    atEnd <- IF call.phase = "idle" THEN OpenFiles ELSE before.atEnd

Implements == Promised!Spec
=============================================================================
