------------------------ MODULE DirectoryFileProofs ------------------------
(***************************************************************************)
(* DirectoryFile implements DirectoryEntries, for blocks, i-numbers and    *)
(* disks of every size, any names, and any number of objects on one        *)
(* directory, each with its cursor anywhere it can be left.                *)
(*                                                                         *)
(* The argument: the bytes of the file are the entries, one laid after the *)
(* other, with a known offset each (Laid).  Bytes so laid are read back as *)
(* these entries (ReadBack), which is what Entries of a state is.  Then a  *)
(* lookup is at a byte of a known entry, an append has laid a part of the  *)
(* new one, and a deletion has moved so many of the bytes behind the entry *)
(* it takes out.                                                           *)
(***************************************************************************)
EXTENDS DirectoryFile, FileBlocksProofs

Byte == 0 .. 255
Block == [Places -> Byte]

AllNames == Names \cup {Dot, DotDot}
Entry == [name : AllNames, in : 1 .. 255]

EntryLen(e) == Len(e.name) + 1 + IWidth
NumberBytes(i) == [j \in 1 .. IWidth |-> IF j = 1 THEN i ELSE 0]

(* The bytes c are the entries es, entry k behind the first off[k] bytes. *)
LaidAt(c, e, p) ==
    /\ \A j \in 1 .. Len(e.name) : c[p + j] = e.name[j]
    /\ c[p + Len(e.name) + 1] = 0
    /\ \A j \in 1 .. IWidth : c[p + Len(e.name) + 1 + j] = NumberBytes(e.in)[j]

Laid(c, es, off) ==
    /\ c \in Seq(Byte) /\ es \in Seq(Entry)
    /\ off \in [1 .. Len(es) + 1 -> Nat] /\ off[1] = 0 /\ off[Len(es) + 1] = Len(c)
    /\ \A k \in 1 .. Len(es) : off[k + 1] = off[k] + EntryLen(es[k]) /\ LaidAt(c, es[k], off[k])

(* Block k of blk has its part of the bytes c; all blocks have. *)
HoldsBlock(blk, k, c) == \A j \in Places : k * BSZ + j < Len(c) => blk[k][j] = c[k * BSZ + j + 1]
Holds(blk, c) == \A k \in Nat : HoldsBlock(blk, k, c)

LEMMA Widths == /\ IWidth \in Nat \ {0} /\ MaxBlocks \in Nat /\ BSZ \in Nat \ {0}
                /\ MaxBlocks * BSZ \in Nat
  BY DirectoryFileAssumption, BlockSizeAssumption

LEMMA NameBytes ==
    ASSUME NEW n \in AllNames
    PROVE  /\ n \in Seq(Byte) /\ Len(n) \in Nat \ {0} /\ n \in Seq(1 .. 255)
           /\ \A j \in 1 .. Len(n) : n[j] \in Byte \ {0}
<1>1. n \in Seq(1 .. 255) /\ n # <<>>
  BY DirectoryFileAssumption DEF AllNames
<1>2. \A j \in 1 .. Len(n) : n[j] \in 1 .. 255
  BY <1>1, ElementOfSeq
<1>3. n \in Seq(Byte) /\ Len(n) # 0
  BY <1>1 DEF Byte
<1>4. Len(n) \in Nat /\ \A x \in 1 .. 255 : x \in Byte \ {0}
  BY <1>1 DEF Byte
<1> QED
  BY <1>1, <1>2, <1>3, <1>4

LEMMA EntryLengths ==
    ASSUME NEW e \in Entry
    PROVE  /\ e.name \in AllNames /\ e.in \in 1 .. 255
           /\ EntryLen(e) \in Nat /\ EntryLen(e) > Len(e.name) + 1 /\ Len(e.name) \in Nat \ {0}
<1>1. e.name \in AllNames /\ e.in \in 1 .. 255
  BY DEF Entry
<1> QED
  BY <1>1, NameBytes, Widths DEF EntryLen
-----------------------------------------------------------------------------
(* Reading the bytes.  First the i-number.                                 *)
LEMMA MinIs ==
    ASSUME NEW S \in SUBSET Int, NEW x \in S, \A y \in S : x <= y
    PROVE  Min(S) = x
<1>1. Min(S) \in S /\ \A y \in S : Min(S) <= y
  BY DEF Min
<1>2. Min(S) <= x /\ x <= Min(S) /\ Min(S) \in Int /\ x \in Int
  BY <1>1
<1> QED
  BY <1>2

LEMMA MinFound ==
    ASSUME NEW S \in SUBSET Nat, S # {}
    PROVE  Min(S) \in S /\ \A y \in S : Min(S) <= y
<1>1. PICK x \in S : \A y \in S : x <= y
  BY LeastElement
<1>2. Min(S) = x
  BY <1>1, MinIs
<1> QED
  BY <1>1, <1>2

LEMMA ValueOfNumber ==
    ASSUME NEW i \in 1 .. 255
    PROVE  Value(NumberBytes(i)) = i
<1> DEFINE S == 1 .. IWidth
           b == NumberBytes(i)
           R(g) == g = [s \in SUBSET S |-> IF s = {} THEN 0 ELSE b[Min(s)] + 256 * g[s \ {Min(s)}]]
<1>1. DOMAIN b = S /\ \A j \in S : b[j] = IF j = 1 THEN i ELSE 0
  BY DEF NumberBytes
<1>2. IsFiniteSet(S) /\ S \in SUBSET Nat /\ 1 \in S
  BY FS_Interval, Widths
<1>3. \A s \in (SUBSET S) \ {{}} : Min(s) \in s /\ \A y \in s : Min(s) <= y
  BY <1>2, MinFound
<1>4. \E g : R(g)
  <2> DEFINE D == SUBSET S
             next == [s \in D |-> IF s = {} THEN s ELSE s \ {Min(s)}]
             rank == [s \in D |-> Cardinality(s)]
             step == [z \in D \X Nat |-> IF z[1] = {} THEN 0 ELSE b[Min(z[1])] + 256 * z[2]]
  <2>1. \A s \in D : IsFiniteSet(s) /\ Cardinality(s) \in Nat
    BY <1>2, FS_Subset, FS_CardinalityType
  <2>2. next \in [D -> D] /\ rank \in [D -> Nat]
    BY <2>1
  <2>3. step \in [D \X Nat -> Nat]
    <3> SUFFICES ASSUME NEW s \in D, NEW v \in Nat, s # {} PROVE b[Min(s)] + 256 * v \in Nat
      OBVIOUS
    <3>1. Min(s) \in S
      BY <1>3
    <3>2. b[Min(s)] \in Nat
      BY <1>1, <3>1
    <3> QED
      BY <3>2
  <2>4. ASSUME NEW s \in D \ {{}} PROVE rank[next[s]] < rank[s]
    <3>1. Cardinality(s \ {Min(s)}) = Cardinality(s) - 1 /\ s \ {Min(s)} \in D
      BY <1>3, <2>1, FS_RemoveElement
    <3> QED
      BY <2>1, <3>1
  <2>5. PICK g \in [D -> Nat] : Defines(g, D, {{}}, 0, step, next)
    <3> HIDE DEF D, next, rank, step
    <3> QED
      BY <2>2, <2>3, <2>4, RecursionExists
  <2>6. ASSUME NEW s \in D PROVE g[s] = IF s = {} THEN 0 ELSE b[Min(s)] + 256 * g[s \ {Min(s)}]
    <3>1. g[s] = IF s = {} THEN 0 ELSE step[<<s, g[next[s]]>>]
      <4>1. g[s] = IF s \in {{}} THEN 0 ELSE step[<<s, g[next[s]]>>]
        <5> HIDE DEF D, next, rank, step
        <5> QED
          BY <2>5 DEF Defines
      <4> QED
        BY <4>1
    <3>2. s # {} => next[s] = s \ {Min(s)} /\ next[s] \in D /\ g[next[s]] \in Nat
      BY <2>2, <2>5
    <3> QED
      BY <3>1, <3>2
  <2> HIDE DEF b
  <2>7. R(g)
    BY <2>5, <2>6
  <2> HIDE DEF R
  <2> QED
    BY <2>7
<1> DEFINE h == CHOOSE g : R(g)
<1>5. Value(b) = h[S]
  <2>1. Value(b) = (CHOOSE g : g = [s \in SUBSET (DOMAIN b) |-> IF s = {} THEN 0
                                     ELSE b[Min(s)] + 256 * g[s \ {Min(s)}]])[DOMAIN b]
    BY DEF Value, FoldRight, MapThenFoldSet
  <2> HIDE DEF b
  <2> QED
    BY <1>1, <2>1
<1>6. R(h)
  <2> HIDE DEF R
  <2> QED
    BY <1>4
<1> HIDE DEF h, b
<1> DEFINE Q == {s \in SUBSET S : h[s] = IF 1 \in s THEN i ELSE 0}
<1>7. {} \in Q
  BY <1>6
<1>8. ASSUME NEW s \in SUBSET S, s # {}, \A x \in s : s \ {x} \in Q PROVE s \in Q
  <2>1. Min(s) \in s /\ (1 \in s => Min(s) = 1)
    <3>1. s \in (SUBSET S) \ {{}}
      BY <1>8
    <3>2. Min(s) \in s /\ \A y \in s : Min(s) <= y
      BY <1>3, <3>1
    <3>3. \A x \in s : x \in Nat /\ x >= 1
      BY <3>1
    <3>4. Min(s) \in Nat /\ Min(s) >= 1
      BY <3>2, <3>3
    <3>5. 1 \in s => Min(s) <= 1
      BY <3>2
    <3> QED
      BY <3>2, <3>4, <3>5
  <2>2. h[s] = b[Min(s)] + 256 * h[s \ {Min(s)}]
    BY <1>6, <1>8
  <2>3. b[Min(s)] = (IF 1 \in s THEN i ELSE 0) /\ h[s \ {Min(s)}] = 0
    BY <1>1, <1>8, <2>1
  <2> QED
    BY <2>2, <2>3
<1>9. SUBSET S \subseteq Q
  <2> HIDE DEF Q, S
  <2> QED
    BY <1>2, <1>7, <1>8, SubsetInduction
<1> QED
  BY <1>2, <1>5, <1>9 DEF b
-----------------------------------------------------------------------------
(* Then the entries, one after the other.                                  *)
LEMMA OffsetsGrow ==
    ASSUME NEW c, NEW es, NEW off, Laid(c, es, off)
    PROVE  /\ Len(c) \in Nat /\ Len(es) \in Nat
           /\ \A k \in 1 .. Len(es) + 1 : off[k] \in 0 .. Len(c)
           /\ \A k \in 1 .. Len(es) + 1 : \A j \in 1 .. k : off[j] <= off[k]
           /\ \A k \in 1 .. Len(es) : es[k] \in Entry /\ off[k + 1] = off[k] + EntryLen(es[k])
<1>1. Len(c) \in Nat /\ Len(es) \in Nat /\ \A k \in 1 .. Len(es) + 1 : off[k] \in Nat
  BY DEF Laid
<1>2. \A k \in 1 .. Len(es) : es[k] \in Entry /\ off[k + 1] = off[k] + EntryLen(es[k])
  BY ElementOfSeq DEF Laid
<1>3. \A k \in 1 .. Len(es) : off[k] <= off[k + 1]
  <2> SUFFICES ASSUME NEW k \in 1 .. Len(es) PROVE off[k] <= off[k + 1]
    OBVIOUS
  <2>1. EntryLen(es[k]) \in Nat /\ off[k] \in Nat
    BY <1>1, <1>2, EntryLengths
  <2> QED
    BY <1>2, <2>1
<1> DEFINE S == {n \in Nat : n <= Len(es) => \A j \in 1 .. n + 1 : off[j] <= off[n + 1]}
<1>4. 0 \in S
  BY <1>1
<1>5. ASSUME NEW n \in Nat, n \in S PROVE n + 1 \in S
  <2> SUFFICES ASSUME n + 1 <= Len(es), NEW j \in 1 .. n + 2 PROVE off[j] <= off[n + 2]
    OBVIOUS
  <2>1. off[n + 1] <= off[n + 2] /\ off[n + 1] \in Nat /\ off[n + 2] \in Nat /\ off[j] \in Nat
    BY <1>1, <1>3
  <2>2. j \in 1 .. n + 1 => off[j] <= off[n + 1]
    BY <1>1, <1>5
  <2> QED
    BY <2>1, <2>2
<1>6. Nat \subseteq S
  <2> HIDE DEF S
  <2> QED
    BY <1>4, <1>5, SetInduction
<1>7. ASSUME NEW k \in 1 .. Len(es) + 1, NEW j \in 1 .. k PROVE off[j] <= off[k]
  <2>1. k - 1 \in Nat /\ k - 1 <= Len(es) /\ (k - 1) + 1 = k
    BY <1>1
  <2>2. k - 1 \in S
    <3> HIDE DEF S
    <3> QED
      BY <1>6, <2>1
  <2>3. \A i \in 1 .. (k - 1) + 1 : off[i] <= off[(k - 1) + 1]
    BY <2>1, <2>2
  <2> QED
    BY <2>1, <2>3
<1>8. ASSUME NEW k \in 1 .. Len(es) + 1 PROVE off[k] \in 0 .. Len(c)
  <2>1. off[k] <= off[Len(es) + 1] /\ off[Len(es) + 1] = Len(c)
    <3>1. Len(es) + 1 \in 1 .. Len(es) + 1 /\ k \in 1 .. Len(es) + 1
      BY <1>1
    <3> QED
      BY <1>7, <3>1 DEF Laid
  <2> QED
    BY <1>1, <2>1
<1> QED
  BY <1>1, <1>2, <1>7, <1>8

NulIn(c, p) == Min({q \in p .. Len(c) : c[q] = 0} \cup {Len(c) + 1})
EndIn(c, p) == Min({NulIn(c, p) + IWidth, Len(c)})
EntryAt(c, p) == [name |-> SubSeq(c, p, NulIn(c, p) - 1),
                  in |-> Value(SubSeq(c, NulIn(c, p) + 1, EndIn(c, p)))]
Reads(g, c) ==
    g = [p \in 1 .. Len(c) + 1 + IWidth |->
           IF p > Len(c) THEN <<>> ELSE <<EntryAt(c, p)>> \o g[EndIn(c, p) + 1]]

LEMMA ReadingProceeds ==
    ASSUME NEW c \in Seq(Byte), NEW p \in 1 .. Len(c)
    PROVE  EndIn(c, p) \in p .. Len(c)
<1> DEFINE S == {q \in p .. Len(c) : c[q] = 0} \cup {Len(c) + 1}
<1>1. NulIn(c, p) \in Nat /\ NulIn(c, p) >= p
  <2>1. S \in SUBSET Nat /\ S # {} /\ \A q \in S : q >= p
    OBVIOUS
  <2>2. Min(S) \in S
    BY <2>1, MinFound
  <2> QED
    BY <2>1, <2>2 DEF NulIn
<1>2. EndIn(c, p) = IF NulIn(c, p) + IWidth <= Len(c) THEN NulIn(c, p) + IWidth ELSE Len(c)
  BY <1>1, MinOfTwo, Widths DEF EndIn
<1> QED
  BY <1>1, <1>2, Widths

LEMMA ReaderExists ==
    ASSUME NEW c \in Seq(Byte)
    PROVE  \E g : Reads(g, c)
<1> DEFINE D == 1 .. Len(c) + 1 + IWidth
           B == {p \in D : p > Len(c)}
           V == Seq({EntryAt(c, p) : p \in D})
           next == [p \in D |-> IF p \in B THEN p ELSE EndIn(c, p) + 1]
           rank == [p \in D |-> Len(c) + 1 + IWidth - p]
           step == [z \in D \X V |-> <<EntryAt(c, z[1])>> \o z[2]]
<1>1. Len(c) \in Nat /\ IWidth \in Nat
  BY Widths
<1>2. next \in [D -> D]
  <2> SUFFICES ASSUME NEW p \in D, p \notin B PROVE EndIn(c, p) + 1 \in D
    OBVIOUS
  <2>1. EndIn(c, p) \in p .. Len(c)
    BY <1>1, ReadingProceeds
  <2> QED
    BY <1>1, <2>1
<1>3. rank \in [D -> Nat]
  BY <1>1
<1>4. ASSUME NEW p \in D \ B PROVE rank[next[p]] < rank[p]
  <2>1. EndIn(c, p) \in p .. Len(c) /\ next[p] = EndIn(c, p) + 1 /\ next[p] \in D
    BY <1>1, <1>2, ReadingProceeds
  <2> HIDE DEF next
  <2>2. rank[next[p]] = Len(c) + 1 + IWidth - next[p] /\ rank[p] = Len(c) + 1 + IWidth - p
    BY <2>1
  <2> QED
    BY <1>1, <2>1, <2>2
<1>5. step \in [D \X V -> V]
  <2> SUFFICES ASSUME NEW p \in D, NEW v \in V PROVE <<EntryAt(c, p)>> \o v \in V
    OBVIOUS
  <2> DEFINE T == {EntryAt(c, q) : q \in D}
  <2>1. EntryAt(c, p) \in T
    OBVIOUS
  <2> HIDE DEF T
  <2>2. <<EntryAt(c, p)>> \in Seq(T) /\ v \in Seq(T)
    BY <2>1 DEF T
  <2>3. <<EntryAt(c, p)>> \o v \in Seq(T)
    BY <2>2, ConcatProperties
  <2> QED
    BY <2>3 DEF T
<1>6. <<>> \in V
  OBVIOUS
<1>7. PICK g \in [D -> V] : Defines(g, D, B, <<>>, step, next)
  <2> HIDE DEF D, B, V, next, rank, step
  <2> QED
    BY <1>2, <1>3, <1>4, <1>5, <1>6, RecursionExists
<1>8. ASSUME NEW p \in D
      PROVE  g[p] = IF p > Len(c) THEN <<>> ELSE <<EntryAt(c, p)>> \o g[EndIn(c, p) + 1]
  <2>1. g[p] = IF p \in B THEN <<>> ELSE step[<<p, g[next[p]]>>]
    BY <1>7 DEF Defines
  <2>2. p \notin B => next[p] = EndIn(c, p) + 1 /\ g[next[p]] \in V
    BY <1>2, <1>7
  <2>3. p \notin B => step[<<p, g[next[p]]>>] = <<EntryAt(c, p)>> \o g[next[p]]
    <3> HIDE DEF V, next
    <3> QED
      BY <2>2
  <2> HIDE DEF step, next
  <2> QED
    BY <2>1, <2>2, <2>3
<1> QED
  BY <1>7, <1>8 DEF Reads

(* Reading at the beginning of an entry gives it, and ends at the next.    *)
LEMMA EntryRead ==
    ASSUME NEW c \in Seq(Byte), NEW e \in Entry, NEW p \in Nat, LaidAt(c, e, p),
           p + EntryLen(e) <= Len(c)
    PROVE  EntryAt(c, p + 1) = e /\ EndIn(c, p + 1) = p + EntryLen(e)
<1> DEFINE n == Len(e.name)
           S == {q \in p + 1 .. Len(c) : c[q] = 0} \cup {Len(c) + 1}
<1>1. /\ n \in Nat \ {0} /\ e.name \in Seq(Byte) /\ \A j \in 1 .. n : e.name[j] # 0
      /\ EntryLen(e) = n + 1 + IWidth /\ IWidth \in Nat \ {0} /\ Len(c) \in Nat
      /\ e.in \in 1 .. 255
  <2>1. e.name \in AllNames /\ e.in \in 1 .. 255
    BY EntryLengths
  <2>2. n \in Nat \ {0} /\ e.name \in Seq(Byte) /\ \A j \in 1 .. n : e.name[j] \in Byte \ {0}
    BY <2>1, NameBytes
  <2>3. \A j \in 1 .. n : e.name[j] # 0
    BY <2>2
  <2>4. EntryLen(e) = n + 1 + IWidth /\ Len(c) \in Nat
    BY DEF EntryLen
  <2> HIDE DEF n
  <2> QED
    BY <2>1, <2>2, <2>3, <2>4, Widths
<1>2. NulIn(c, p + 1) = p + n + 1
  <2>1. S \in SUBSET Int
    OBVIOUS
  <2>2. p + n + 1 \in S
    BY <1>1 DEF LaidAt
  <2>3. ASSUME NEW q \in S PROVE p + n + 1 <= q
    <3> SUFFICES ASSUME q < p + n + 1 PROVE FALSE
      BY <1>1
    <3>1. q \in p + 1 .. Len(c) /\ c[q] = 0
      BY <1>1
    <3>2. q - p \in 1 .. n /\ p + (q - p) = q
      BY <1>1, <3>1
    <3>3. c[p + (q - p)] = e.name[q - p]
      BY <3>2 DEF LaidAt
    <3> QED
      BY <1>1, <3>1, <3>2, <3>3
  <2> HIDE DEF S
  <2>4. Min(S) = p + n + 1
    BY <2>1, <2>2, <2>3, MinIs
  <2> QED
    BY <2>4 DEF S, NulIn
<1>3. EndIn(c, p + 1) = p + EntryLen(e)
  <2>1. EndIn(c, p + 1) = Min({p + n + 1 + IWidth, Len(c)})
    BY <1>2 DEF EndIn
  <2> HIDE DEF n
  <2> QED
    BY <1>1, <2>1, MinOfTwo
<1> HIDE DEF n
<1>4. SubSeq(c, p + 1, p + n) = e.name
  <2>1. SubSeq(c, p + 1, p + n) \in Seq(Byte) /\ Len(SubSeq(c, p + 1, p + n)) = n
        /\ \A j \in 1 .. n : SubSeq(c, p + 1, p + n)[j] = c[p + j]
    BY <1>1
  <2> QED
    BY <1>1, <2>1, SeqEqual DEF LaidAt, n
<1>5. SubSeq(c, p + n + 2, p + n + 1 + IWidth) = NumberBytes(e.in)
  <2> DEFINE s == SubSeq(c, p + n + 2, p + n + 1 + IWidth)
             m == p + n + 1
  <2>1. s \in Seq(Byte) /\ Len(s) = IWidth /\ \A j \in 1 .. IWidth : s[j] = c[m + j]
    BY <1>1
  <2>2. \A j \in 1 .. IWidth : c[m + j] = NumberBytes(e.in)[j]
    BY <1>1 DEF LaidAt, n
  <2>3. NumberBytes(e.in) \in Seq(Byte) /\ Len(NumberBytes(e.in)) = IWidth
    BY <1>1 DEF NumberBytes, Byte
  <2> HIDE DEF s, m
  <2> QED
    BY <2>1, <2>2, <2>3, SeqEqual DEF s
<1>6. EntryAt(c, p + 1) = [name |-> e.name, in |-> e.in]
  <2>1. (p + n + 1) - 1 = p + n /\ (p + n + 1) + 1 = p + n + 2
        /\ p + EntryLen(e) = p + n + 1 + IWidth
    BY <1>1
  <2>2. EntryAt(c, p + 1) = [name |-> SubSeq(c, p + 1, p + n),
                             in |-> Value(SubSeq(c, p + n + 2, p + n + 1 + IWidth))]
    BY <1>2, <1>3, <2>1 DEF EntryAt
  <2> QED
    BY <1>1, <1>4, <1>5, <2>2, ValueOfNumber
<1> QED
  BY <1>3, <1>6 DEF Entry

LEMMA SuffixSplit ==
    ASSUME NEW S, NEW s \in Seq(S), NEW k \in 1 .. Len(s)
    PROVE  <<s[k]>> \o SubSeq(s, k + 1, Len(s)) = SubSeq(s, k, Len(s))
<1> DEFINE t == SubSeq(s, k + 1, Len(s))
           u == SubSeq(s, k, Len(s))
<1>1. t \in Seq(S) /\ Len(t) = Len(s) - k /\ \A j \in 1 .. Len(s) - k : t[j] = s[k + j]
  OBVIOUS
<1>2. u \in Seq(S) /\ Len(u) = Len(s) - k + 1 /\ \A j \in 1 .. Len(s) - k + 1 : u[j] = s[k + j - 1]
  OBVIOUS
<1>3. <<s[k]>> \in Seq(S) /\ Len(<<s[k]>>) = 1 /\ <<s[k]>>[1] = s[k]
  BY ElementOfSeq
<1> HIDE DEF t, u
<1>4. /\ <<s[k]>> \o t \in Seq(S) /\ Len(<<s[k]>> \o t) = Len(s) - k + 1
      /\ \A j \in 1 .. Len(s) - k + 1 : (<<s[k]>> \o t)[j] = IF j <= 1 THEN <<s[k]>>[j] ELSE t[j - 1]
  BY <1>1, <1>3, ConcatProperties
<1>5. ASSUME NEW j \in 1 .. Len(s) - k + 1 PROVE (<<s[k]>> \o t)[j] = u[j]
  <2>1. CASE j = 1
    BY <1>2, <1>3, <1>4, <2>1
  <2>2. CASE j # 1
    <3>1. j - 1 \in 1 .. Len(s) - k /\ ~(j <= 1)
      BY <2>2
    <3> QED
      BY <1>1, <1>2, <1>4, <3>1
  <2> QED
    BY <2>1, <2>2
<1> QED
  BY <1>2, <1>4, <1>5, SeqEqual DEF t, u

LEMMA ReadBack ==
    ASSUME NEW c, NEW es, NEW off, Laid(c, es, off), NEW g, Reads(g, c)
    PROVE  g[1] = es
<1> DEFINE n == Len(es)
           S == {k \in Nat : k <= n => g[off[n + 1 - k] + 1] = SubSeq(es, n + 1 - k, n)}
<1>1. n \in Nat /\ es \in Seq(Entry) /\ c \in Seq(Byte) /\ Len(c) \in Nat /\ IWidth \in Nat \ {0}
  BY Widths DEF Laid
<1>2. 0 \in S
  <2>1. off[n + 1] = Len(c)
    BY DEF Laid
  <2>2. Len(c) + 1 \in 1 .. Len(c) + 1 + IWidth /\ Len(c) + 1 > Len(c)
    BY <1>1
  <2>3. g[Len(c) + 1] = <<>>
    BY <2>2 DEF Reads
  <2>4. SubSeq(es, n + 1, n) = <<>>
    BY <1>1
  <2>5. n + 1 - 0 = n + 1
    BY <1>1
  <2> QED
    BY <2>1, <2>3, <2>4, <2>5
<1>3. ASSUME NEW j \in Nat, j \in S PROVE j + 1 \in S
  <2> SUFFICES ASSUME j + 1 <= n PROVE g[off[n - j] + 1] = SubSeq(es, n - j, n)
    BY <1>1
  <2> DEFINE k == n - j
  <2>1. k \in 1 .. n /\ k + 1 = n + 1 - j /\ j <= n
    BY <1>1
  <2> HIDE DEF k
  <2>2. /\ off[k] \in Nat /\ off[k + 1] = off[k] + EntryLen(es[k]) /\ off[k + 1] <= Len(c)
        /\ es[k] \in Entry /\ LaidAt(c, es[k], off[k]) /\ EntryLen(es[k]) \in Nat
        /\ EntryLen(es[k]) >= 1
    <3>1. k \in 1 .. n + 1 /\ k + 1 \in 1 .. n + 1
      BY <1>1, <2>1
    <3>2. off[k] \in 0 .. Len(c) /\ off[k + 1] \in 0 .. Len(c) /\ es[k] \in Entry
          /\ off[k + 1] = off[k] + EntryLen(es[k]) /\ LaidAt(c, es[k], off[k])
      BY <2>1, <3>1, OffsetsGrow DEF Laid
    <3>3. EntryLen(es[k]) \in Nat /\ EntryLen(es[k]) >= 1
      BY <3>2, EntryLengths
    <3> QED
      BY <1>1, <3>2, <3>3
  <2>3. EntryAt(c, off[k] + 1) = es[k] /\ EndIn(c, off[k] + 1) = off[k + 1]
    BY <1>1, <2>2, EntryRead
  <2>4. off[k] + 1 \in 1 .. Len(c)
    BY <1>1, <2>2
  <2>5. g[off[k] + 1] = <<es[k]>> \o g[off[k + 1] + 1]
    <3>1. off[k] + 1 \in 1 .. Len(c) + 1 + IWidth /\ ~(off[k] + 1 > Len(c))
      BY <1>1, <2>4
    <3>2. g[off[k] + 1] = <<EntryAt(c, off[k] + 1)>> \o g[EndIn(c, off[k] + 1) + 1]
      BY <3>1 DEF Reads
    <3> QED
      BY <2>3, <3>2
  <2>6. g[off[k + 1] + 1] = SubSeq(es, k + 1, n)
    BY <1>3, <2>1
  <2> QED
    BY <1>1, <2>1, <2>5, <2>6, SuffixSplit DEF k
<1>4. Nat \subseteq S
  <2> HIDE DEF S
  <2> QED
    BY <1>2, <1>3, SetInduction
<1>5. g[off[1] + 1] = SubSeq(es, 1, n)
  <2>1. n \in S /\ n + 1 - n = 1
    BY <1>1, <1>4
  <2> QED
    BY <1>1, <2>1
<1>6. off[1] + 1 = 1 /\ SubSeq(es, 1, n) = es
  BY <1>1 DEF Laid
<1> QED
  BY <1>5, <1>6
-----------------------------------------------------------------------------
(* What Entries is in a state whose bytes are known.                       *)
EntriesIn(c) == (CHOOSE g : Reads(g, c))[1]

LEMMA EntriesRead ==
    ASSUME NEW c, NEW es, NEW off, Laid(c, es, off)
    PROVE  EntriesIn(c) = es
<1> DEFINE h == CHOOSE g : Reads(g, c)
<1>1. c \in Seq(Byte)
  BY DEF Laid
<1>2. Reads(h, c)
  BY <1>1, ReaderExists
<1> HIDE DEF h
<1>3. h[1] = es
  BY <1>2, ReadBack
<1> QED
  BY <1>3 DEF h, EntriesIn

LEMMA ContentIs ==
    ASSUME NEW c \in Seq(Byte), NEW blk, Holds(blk, c)
    PROVE  ContentOf(Len(c), blk) = c
<1> DEFINE d == ContentOf(Len(c), blk)
<1>1. d = [p \in 1 .. Len(c) |-> blk[(p - 1) \div BSZ][(p - 1) % BSZ]]
  BY DEF ContentOf
<1>2. ASSUME NEW p \in 1 .. Len(c) PROVE blk[(p - 1) \div BSZ][(p - 1) % BSZ] = c[p]
  <2> DEFINE k == (p - 1) \div BSZ
             j == (p - 1) % BSZ
  <2>1. k \in Nat /\ j \in Places /\ k * BSZ + j = p - 1
    <3>1. p - 1 \in Nat
      OBVIOUS
    <3> QED
      BY <3>1, Division DEF Places
  <2> HIDE DEF k, j
  <2>2. k * BSZ + j < Len(c) /\ k * BSZ + j + 1 = p
    BY <2>1
  <2>3. blk[k][j] = c[k * BSZ + j + 1]
    BY <2>1, <2>2 DEF Holds, HoldsBlock
  <2> QED
    BY <2>2, <2>3 DEF k, j
<1>3. c = [p \in 1 .. Len(c) |-> c[p]]
  OBVIOUS
<1> HIDE DEF d
<1> QED
  BY <1>1, <1>2, <1>3 DEF d

LEMMA ContentHeld ==
    ASSUME NEW sz \in Nat, NEW blk
    PROVE  Holds(blk, ContentOf(sz, blk)) /\ Len(ContentOf(sz, blk)) = sz
<1> DEFINE d == ContentOf(sz, blk)
<1>1. d = [p \in 1 .. sz |-> blk[(p - 1) \div BSZ][(p - 1) % BSZ]] /\ Len(d) = sz
  BY DEF ContentOf
<1> HIDE DEF d
<1>2. ASSUME NEW k \in Nat, NEW j \in Places, k * BSZ + j < sz
      PROVE  blk[k][j] = d[k * BSZ + j + 1]
  <2> DEFINE p == k * BSZ + j + 1
  <2>1. p \in 1 .. sz /\ p - 1 = k * BSZ + j
    BY <1>2, BlockSizeAssumption DEF Places
  <2> HIDE DEF p
  <2>2. (p - 1) \div BSZ = k /\ (p - 1) % BSZ = j
    BY <2>1, DivisionUnique DEF Places
  <2> QED
    BY <1>1, <2>1, <2>2 DEF p
<1> QED
  BY <1>1, <1>2 DEF Holds, HoldsBlock, d

(* An entry is appended, ...                                               *)
LEMMA BytesAre ==
    ASSUME NEW e \in Entry
    PROVE  /\ Bytes(e.name, e.in) \in Seq(Byte) /\ Len(Bytes(e.name, e.in)) = EntryLen(e)
           /\ LaidAt(Bytes(e.name, e.in), e, 0)
<1> DEFINE n == e.name
           i == e.in
           z == [j \in 1 .. IWidth - 1 |-> 0]
           m == Len(n)
<1>1. n \in AllNames /\ i \in Byte /\ i \in 1 .. 255 /\ 0 \in Byte
  BY EntryLengths DEF Byte
<1>2. n \in Seq(Byte) /\ m \in Nat
  BY <1>1, NameBytes
<1>3. z \in Seq(Byte) /\ Len(z) = IWidth - 1 /\ \A j \in 1 .. IWidth - 1 : z[j] = 0
  BY <1>1, Widths
<1>4. <<0, i>> \in Seq(Byte) /\ Len(<<0, i>>) = 2 /\ <<0, i>>[1] = 0 /\ <<0, i>>[2] = i
  BY <1>1
<1> DEFINE a == n \o <<0, i>>
<1> HIDE DEF n, i, z
<1>5. /\ a \in Seq(Byte) /\ Len(a) = m + 2
      /\ \A j \in 1 .. m + 2 : a[j] = IF j <= m THEN n[j] ELSE <<0, i>>[j - m]
  BY <1>2, <1>4, ConcatProperties
<1> HIDE DEF a, m
<1>6. /\ a \o z \in Seq(Byte) /\ Len(a \o z) = m + 1 + IWidth
      /\ \A j \in 1 .. m + 1 + IWidth : (a \o z)[j] = IF j <= m + 2 THEN a[j] ELSE z[j - (m + 2)]
  <2>1. /\ a \o z \in Seq(Byte) /\ Len(a \o z) = Len(a) + Len(z)
        /\ \A j \in 1 .. Len(a) + Len(z) : (a \o z)[j] = IF j <= Len(a) THEN a[j] ELSE z[j - Len(a)]
    BY <1>3, <1>5, ConcatProperties
  <2>2. Len(a) + Len(z) = m + 1 + IWidth /\ Len(a) = m + 2
    BY <1>2, <1>3, <1>5, Widths
  <2> QED
    BY <2>1, <2>2
<1>7. Bytes(n, i) = a \o z
  BY DEF Bytes, a, z
<1> DEFINE d == Bytes(n, i)
<1>8. ASSUME NEW j \in 1 .. m PROVE d[j] = n[j]
  BY <1>2, <1>5, <1>6, <1>7, Widths
<1>9. d[m + 1] = 0
  <2>1. m + 1 \in 1 .. m + 1 + IWidth /\ m + 1 \in 1 .. m + 2 /\ m + 1 <= m + 2 /\ ~(m + 1 <= m)
        /\ (m + 1) - m = 1
    BY <1>2, Widths
  <2> QED
    BY <1>4, <1>5, <1>6, <1>7, <2>1
<1>10. ASSUME NEW j \in 1 .. IWidth PROVE d[m + 1 + j] = IF j = 1 THEN i ELSE 0
  <2>1. m + 1 + j \in 1 .. m + 1 + IWidth
    BY <1>2, Widths
  <2>2. CASE j = 1
    <3>1. m + 1 + j <= m + 2 /\ m + 1 + j \in 1 .. m + 2 /\ ~(m + 1 + j <= m) /\ (m + 1 + j) - m = 2
      BY <1>2, <2>2
    <3> QED
      BY <1>4, <1>5, <1>6, <1>7, <2>1, <2>2, <3>1
  <2>3. CASE j # 1
    <3>1. ~(m + 1 + j <= m + 2) /\ (m + 1 + j) - (m + 2) = j - 1 /\ j - 1 \in 1 .. IWidth - 1
      BY <1>2, <2>3, Widths
    <3> QED
      BY <1>3, <1>6, <1>7, <2>1, <2>3, <3>1
  <2> QED
    BY <2>2, <2>3
<1> HIDE DEF d
<1>11. LaidAt(d, e, 0)
  <2>1. /\ \A j \in 1 .. m : 0 + j = j
        /\ 0 + m + 1 = m + 1 /\ \A j \in 1 .. IWidth : 0 + m + 1 + j = m + 1 + j
    BY <1>2, Widths
  <2>2. \A j \in 1 .. IWidth : NumberBytes(i)[j] = IF j = 1 THEN i ELSE 0
    BY DEF NumberBytes
  <2> QED
    BY <1>8, <1>9, <1>10, <2>1, <2>2 DEF LaidAt, n, i, m
<1> QED
  BY <1>6, <1>7, <1>11 DEF EntryLen, n, i, m, d

LEMMA LaidElsewhere ==
    ASSUME NEW c, NEW d, NEW e \in Entry, NEW p \in Nat, NEW q \in Nat, LaidAt(c, e, p),
           \A j \in 1 .. EntryLen(e) : d[q + j] = c[p + j]
    PROVE  LaidAt(d, e, q)
<1> DEFINE n == Len(e.name)
<1>1. n \in Nat \ {0} /\ EntryLen(e) = n + 1 + IWidth /\ IWidth \in Nat \ {0}
  BY EntryLengths, Widths DEF EntryLen
<1> HIDE DEF n
<1>2. ASSUME NEW j \in 1 .. n PROVE d[q + j] = e.name[j]
  <2>1. d[q + j] = c[p + j]
    BY <1>1
  <2> QED
    BY <2>1 DEF LaidAt, n
<1>3. d[q + n + 1] = 0
  <2>1. n + 1 \in 1 .. EntryLen(e) /\ q + (n + 1) = q + n + 1 /\ p + (n + 1) = p + n + 1
    BY <1>1
  <2>2. d[q + (n + 1)] = c[p + (n + 1)]
    BY <2>1
  <2> QED
    BY <2>1, <2>2 DEF LaidAt, n
<1>4. ASSUME NEW j \in 1 .. IWidth PROVE d[q + n + 1 + j] = NumberBytes(e.in)[j]
  <2>1. n + 1 + j \in 1 .. EntryLen(e) /\ q + (n + 1 + j) = q + n + 1 + j
        /\ p + (n + 1 + j) = p + n + 1 + j
    BY <1>1
  <2>2. d[q + (n + 1 + j)] = c[p + (n + 1 + j)]
    BY <2>1
  <2> QED
    BY <2>1, <2>2 DEF LaidAt, n
<1> QED
  BY <1>2, <1>3, <1>4 DEF LaidAt, n

AppendedOff(c, es, off, e) ==
    [k \in 1 .. Len(es) + 2 |-> IF k = Len(es) + 2 THEN Len(c) + EntryLen(e) ELSE off[k]]

LEMMA LaidAppended ==
    ASSUME NEW c, NEW es, NEW off, Laid(c, es, off), NEW e \in Entry
    PROVE  Laid(c \o Bytes(e.name, e.in), Append(es, e), AppendedOff(c, es, off, e))
<1> DEFINE b == Bytes(e.name, e.in)
           d == c \o b
           fs == Append(es, e)
           of == AppendedOff(c, es, off, e)
           N == Len(es)
<1>1. c \in Seq(Byte) /\ es \in Seq(Entry) /\ N \in Nat /\ Len(c) \in Nat
      /\ off \in [1 .. N + 1 -> Nat] /\ off[1] = 0 /\ off[N + 1] = Len(c)
  BY DEF Laid
<1>2. b \in Seq(Byte) /\ Len(b) = EntryLen(e) /\ LaidAt(b, e, 0) /\ EntryLen(e) \in Nat
  BY BytesAre, EntryLengths
<1> HIDE DEF b
<1>3. /\ d \in Seq(Byte) /\ Len(d) = Len(c) + EntryLen(e)
      /\ \A j \in 1 .. Len(c) + EntryLen(e) : d[j] = IF j <= Len(c) THEN c[j] ELSE b[j - Len(c)]
  <2>1. /\ d \in Seq(Byte) /\ Len(d) = Len(c) + Len(b)
        /\ \A j \in 1 .. Len(c) + Len(b) : d[j] = IF j <= Len(c) THEN c[j] ELSE b[j - Len(c)]
    <3>1. c \in Seq(Byte) /\ b \in Seq(Byte)
      BY <1>1, <1>2
    <3> HIDE DEF N
    <3> QED
      BY <3>1, ConcatProperties
  <2> QED
    BY <1>2, <2>1
<1>4. fs \in Seq(Entry) /\ Len(fs) = N + 1 /\ fs[N + 1] = e /\ \A k \in 1 .. N : fs[k] = es[k]
  BY <1>1, AppendProperties
<1>5. /\ of \in [1 .. N + 2 -> Nat] /\ of[1] = 0 /\ of[N + 2] = Len(d)
      /\ \A k \in 1 .. N + 1 : of[k] = off[k]
  <2>1. of = [k \in 1 .. N + 2 |-> IF k = N + 2 THEN Len(c) + EntryLen(e) ELSE off[k]]
    BY DEF AppendedOff
  <2> HIDE DEF of, N, d
  <2>2. ASSUME NEW k \in 1 .. N + 1 PROVE of[k] = off[k] /\ off[k] \in Nat
    BY <1>1, <2>1
  <2>3. of[N + 2] = Len(d) /\ of[N + 2] \in Nat
    BY <1>1, <1>2, <1>3, <2>1
  <2>4. of \in [1 .. N + 2 -> Nat]
    <3>1. ASSUME NEW k \in 1 .. N + 2
          PROVE  (IF k = N + 2 THEN Len(c) + EntryLen(e) ELSE off[k]) \in Nat
      <4>1. k = N + 2 \/ k \in 1 .. N + 1
        BY <1>1
      <4> QED
        BY <1>1, <1>2, <4>1
    <3> QED
      BY <2>1, <3>1
  <2>5. 1 \in 1 .. N + 1
    BY <1>1
  <2> QED
    BY <1>1, <2>2, <2>3, <2>4, <2>5
<1> HIDE DEF d, fs, of, N
<1>6. ASSUME NEW k \in 1 .. N
      PROVE  of[k + 1] = of[k] + EntryLen(fs[k]) /\ LaidAt(d, fs[k], of[k])
  <2>1. /\ off[k + 1] = off[k] + EntryLen(es[k]) /\ LaidAt(c, es[k], off[k])
        /\ es[k] \in Entry /\ off[k] \in 0 .. Len(c) /\ off[k + 1] \in 0 .. Len(c)
    <3>1. k \in 1 .. N + 1 /\ k + 1 \in 1 .. N + 1 /\ Len(es) = N
      BY <1>1 DEF N
    <3> QED
      BY <3>1, OffsetsGrow DEF Laid
  <2>2. EntryLen(es[k]) \in Nat
    BY <2>1, EntryLengths
  <2>3. LaidAt(d, es[k], off[k])
    <3>1. ASSUME NEW j \in 1 .. EntryLen(es[k]) PROVE d[off[k] + j] = c[off[k] + j]
      <4>1. off[k] + j \in 1 .. Len(c)
        BY <1>1, <2>1, <2>2
      <4>2. off[k] + j \in 1 .. Len(c) + EntryLen(e) /\ off[k] + j <= Len(c)
        BY <1>1, <1>2, <4>1
      <4> QED
        BY <1>3, <4>2
    <3>2. off[k] \in Nat
      BY <1>1, <2>1
    <3> QED
      BY <2>1, <3>1, <3>2, LaidElsewhere
  <2> QED
    BY <1>1, <1>4, <1>5, <2>1, <2>3
<1>7. of[N + 2] = of[N + 1] + EntryLen(fs[N + 1]) /\ LaidAt(d, fs[N + 1], of[N + 1])
  <2>1. of[N + 1] = Len(c) /\ of[N + 2] = Len(c) + EntryLen(e)
    BY <1>1, <1>3, <1>5
  <2>2. LaidAt(d, e, Len(c))
    <3>1. ASSUME NEW j \in 1 .. EntryLen(e) PROVE d[Len(c) + j] = b[0 + j]
      BY <1>1, <1>2, <1>3
    <3> QED
      BY <1>1, <1>2, <3>1, LaidElsewhere
  <2> QED
    BY <1>4, <2>1, <2>2
<1>8. \A k \in 1 .. N + 1 : k \in 1 .. N \/ k = N + 1
  BY <1>1
<1>9. (N + 1) + 1 = N + 2
  BY <1>1
<1>10. Laid(d, fs, of)
  BY <1>3, <1>4, <1>5, <1>6, <1>7, <1>8, <1>9 DEF Laid
<1> QED
  BY <1>10 DEF d, b, fs, of

(* ... and one is taken out.                                               *)
Without(c, p, n) == [j \in 1 .. Len(c) - n |-> IF j <= p THEN c[j] ELSE c[j + n]]
RemovedOff(es, off, k) ==
    [j \in 1 .. Len(es) |-> IF j <= k THEN off[j] ELSE off[j + 1] - EntryLen(es[k])]

LEMMA RemoveAtIs ==
    ASSUME NEW S, NEW s \in Seq(S), NEW k \in 1 .. Len(s)
    PROVE  /\ RemoveAt(s, k) \in Seq(S) /\ Len(RemoveAt(s, k)) = Len(s) - 1
           /\ \A j \in 1 .. Len(s) - 1 : RemoveAt(s, k)[j] = IF j < k THEN s[j] ELSE s[j + 1]
<1> DEFINE a == SubSeq(s, 1, k - 1)
           b == SubSeq(s, k + 1, Len(s))
<1>1. a \in Seq(S) /\ Len(a) = k - 1 /\ \A j \in 1 .. k - 1 : a[j] = s[j]
  OBVIOUS
<1>2. b \in Seq(S) /\ Len(b) = Len(s) - k /\ \A j \in 1 .. Len(s) - k : b[j] = s[k + j]
  OBVIOUS
<1>3. RemoveAt(s, k) = a \o b
  BY DEF RemoveAt
<1> HIDE DEF a, b
<1>4. /\ a \o b \in Seq(S) /\ Len(a \o b) = Len(s) - 1
      /\ \A j \in 1 .. Len(s) - 1 : (a \o b)[j] = IF j <= k - 1 THEN a[j] ELSE b[j - (k - 1)]
  BY <1>1, <1>2, ConcatProperties
<1>5. ASSUME NEW j \in 1 .. Len(s) - 1
      PROVE  (a \o b)[j] = IF j < k THEN s[j] ELSE s[j + 1]
  <2>1. CASE j < k
    BY <1>1, <1>4, <2>1
  <2>2. CASE ~(j < k)
    <3>1. j - (k - 1) \in 1 .. Len(s) - k /\ k + (j - (k - 1)) = j + 1
      BY <2>2
    <3> QED
      BY <1>2, <1>4, <2>2, <3>1
  <2> QED
    BY <2>1, <2>2
<1> QED
  BY <1>3, <1>4, <1>5

LEMMA LaidRemoved ==
    ASSUME NEW c, NEW es, NEW off, Laid(c, es, off), NEW k \in 1 .. Len(es)
    PROVE  Laid(Without(c, off[k], EntryLen(es[k])), RemoveAt(es, k), RemovedOff(es, off, k))
<1> DEFINE m == EntryLen(es[k])
           d == Without(c, off[k], m)
           fs == RemoveAt(es, k)
           of == RemovedOff(es, off, k)
           N == Len(es)
<1>1. c \in Seq(Byte) /\ es \in Seq(Entry) /\ N \in Nat /\ Len(c) \in Nat /\ off[1] = 0
      /\ off[N + 1] = Len(c)
  BY DEF Laid
<1>2. /\ \A j \in 1 .. N + 1 : off[j] \in 0 .. Len(c)
      /\ \A j \in 1 .. N : es[j] \in Entry /\ off[j + 1] = off[j] + EntryLen(es[j])
                           /\ EntryLen(es[j]) \in Nat /\ LaidAt(c, es[j], off[j])
      /\ \A j \in 1 .. N + 1 : \A i \in 1 .. j : off[i] <= off[j]
  BY OffsetsGrow, EntryLengths DEF Laid
<1>3. k + 1 \in 1 .. N + 1 /\ k \in 1 .. N + 1 /\ k \in 1 .. N
  BY <1>1
<1>4. m \in Nat /\ off[k + 1] = off[k] + m /\ off[k] \in Nat /\ off[k] + m <= Len(c)
  <2>1. m \in Nat /\ off[k + 1] = off[k] + m
    BY <1>2, <1>3
  <2>2. off[k] \in 0 .. Len(c) /\ off[k + 1] \in 0 .. Len(c)
    BY <1>2, <1>3
  <2> QED
    BY <1>1, <2>1, <2>2
<1> HIDE DEF m
<1>5. /\ d \in Seq(Byte) /\ Len(d) = Len(c) - m
      /\ \A j \in 1 .. Len(c) - m : d[j] = IF j <= off[k] THEN c[j] ELSE c[j + m]
  <2>1. d = [j \in 1 .. Len(c) - m |-> IF j <= off[k] THEN c[j] ELSE c[j + m]]
    BY DEF Without
  <2>2. ASSUME NEW j \in 1 .. Len(c) - m PROVE (IF j <= off[k] THEN c[j] ELSE c[j + m]) \in Byte
    <3>1. j \in 1 .. Len(c) /\ j + m \in 1 .. Len(c)
      BY <1>1, <1>4
    <3> QED
      BY <1>1, <3>1, ElementOfSeq
  <2>3. Len(c) - m \in Nat
    BY <1>1, <1>4
  <2> HIDE DEF d
  <2> QED
    BY <2>1, <2>2, <2>3
<1>6. /\ fs \in Seq(Entry) /\ Len(fs) = N - 1
      /\ \A j \in 1 .. N - 1 : fs[j] = IF j < k THEN es[j] ELSE es[j + 1]
  BY <1>1, RemoveAtIs
<1>7. /\ of = [j \in 1 .. N |-> IF j <= k THEN off[j] ELSE off[j + 1] - m]
  BY DEF RemovedOff, m
<1> HIDE DEF d, fs, of, N
<1>8. ASSUME NEW j \in 1 .. N
      PROVE  of[j] = (IF j <= k THEN off[j] ELSE off[j + 1] - m) /\ of[j] \in Nat
  <2>1. CASE j <= k
    <3>1. off[j] \in 0 .. Len(c)
      BY <1>1, <1>2
    <3> QED
      BY <1>1, <1>7, <2>1, <3>1
  <2>2. CASE ~(j <= k)
    <3>1. off[j + 1] \in 0 .. Len(c) /\ off[k + 1] <= off[j + 1]
      <4>1. j + 1 \in 1 .. N + 1 /\ k + 1 \in 1 .. j + 1
        BY <1>1, <1>3, <2>2
      <4> QED
        BY <1>2, <4>1
    <3>2. off[j + 1] - m \in Nat
      BY <1>1, <1>4, <3>1
    <3> QED
      BY <1>7, <2>2, <3>2
  <2> QED
    BY <2>1, <2>2
<1>9. of \in [1 .. (N - 1) + 1 -> Nat] /\ of[1] = 0 /\ of[(N - 1) + 1] = Len(d)
  <2>1. (N - 1) + 1 = N /\ 1 \in 1 .. N /\ N \in 1 .. N /\ 1 <= k
    BY <1>1, <1>3
  <2>2. of \in [1 .. N -> Nat]
    BY <1>7, <1>8
  <2>3. of[N] = Len(d)
    <3>1. CASE N <= k
      <4>1. N = k
        BY <1>1, <1>3, <3>1
      <4>2. off[k + 1] = Len(c) /\ of[N] = off[k]
        BY <1>1, <1>8, <2>1, <3>1, <4>1
      <4> QED
        BY <1>1, <1>4, <1>5, <4>2
    <3>2. CASE ~(N <= k)
      BY <1>1, <1>5, <1>8, <2>1, <3>2
    <3> QED
      BY <3>1, <3>2
  <2> QED
    BY <1>1, <1>8, <2>1, <2>2, <2>3
<1>10. ASSUME NEW j \in 1 .. N - 1
       PROVE  of[j + 1] = of[j] + EntryLen(fs[j]) /\ LaidAt(d, fs[j], of[j])
  <2>1. CASE j < k
    <3>1. of[j] = off[j] /\ of[j + 1] = off[j + 1] /\ fs[j] = es[j] /\ j \in 1 .. N
      <4>1. j \in 1 .. N /\ j + 1 \in 1 .. N /\ j <= k /\ j + 1 <= k
        BY <1>1, <1>3, <2>1
      <4> QED
        BY <1>6, <1>8, <2>1, <4>1
    <3>2. off[j + 1] = off[j] + EntryLen(es[j]) /\ LaidAt(c, es[j], off[j]) /\ es[j] \in Entry
          /\ EntryLen(es[j]) \in Nat /\ off[j] \in Nat
      BY <1>1, <1>2, <3>1
    <3>3. off[j + 1] <= off[k]
      <4>1. k \in 1 .. N + 1 /\ j + 1 \in 1 .. k
        BY <1>3, <2>1
      <4> QED
        BY <1>2, <4>1
    <3>4. LaidAt(d, es[j], off[j])
      <4>1. ASSUME NEW i \in 1 .. EntryLen(es[j]) PROVE d[off[j] + i] = c[off[j] + i]
        <5>1. off[j] + i <= off[k] /\ off[j] + i \in 1 .. Len(c) - m
          <6>1. off[j] + i <= off[j + 1] /\ off[j] + i \in Nat /\ off[j] + i >= 1 /\ off[j + 1] \in Nat
            BY <3>2
          <6>2. /\ off[k] \in Nat /\ m \in Nat /\ Len(c) \in Nat /\ off[k] + m <= Len(c)
            BY <1>1, <1>4
          <6> DEFINE x == off[j] + i
                     y == off[k]
                     z == off[j + 1]
                     l == Len(c)
          <6>3. x <= z /\ x \in Nat /\ x >= 1 /\ z \in Nat /\ z <= y /\ y \in Nat /\ m \in Nat
                /\ l \in Nat /\ y + m <= l
            BY <3>3, <6>1, <6>2
          <6> HIDE DEF x, y, z, l, m
          <6>4. x <= y /\ x \in 1 .. l - m
            BY <6>3
          <6> QED
            BY <6>4 DEF x, y, l
        <5> QED
          BY <1>5, <5>1
      <4> QED
        BY <3>2, <4>1, LaidElsewhere
    <3> QED
      BY <3>1, <3>2, <3>4
  <2>2. CASE ~(j < k)
    <3>1. j + 1 \in 1 .. N /\ ~(j + 1 <= k) /\ fs[j] = es[j + 1] /\ (j + 1) + 1 = j + 2
          /\ j \in 1 .. N /\ k + 1 \in 1 .. j + 1 /\ j + 1 \in 1 .. N + 1 /\ j + 2 \in 1 .. N + 1
      BY <1>1, <1>3, <1>6, <2>2
    <3>2. of[j + 1] = off[j + 2] - m
      BY <1>8, <3>1
    <3>3. of[j] = off[j + 1] - m /\ of[j] \in Nat
      <4>1. CASE j = k
        <5>1. of[j] = off[k] /\ off[j + 1] = off[k] + m
          BY <1>4, <1>8, <3>1, <4>1
        <5> QED
          BY <1>4, <5>1
      <4>2. CASE j # k
        BY <1>8, <2>2, <3>1, <4>2
      <4> QED
        BY <4>1, <4>2
    <3>4. /\ off[j + 2] = off[j + 1] + EntryLen(es[j + 1]) /\ LaidAt(c, es[j + 1], off[j + 1])
          /\ es[j + 1] \in Entry /\ EntryLen(es[j + 1]) \in Nat /\ off[j + 1] \in Nat
          /\ off[j + 2] \in 0 .. Len(c) /\ off[k + 1] <= off[j + 1]
      <4> DEFINE x == j + 1
      <4>1. /\ x \in 1 .. N /\ x \in 1 .. N + 1 /\ x + 1 \in 1 .. N + 1 /\ k + 1 \in 1 .. x
            /\ x + 1 = j + 2
        BY <3>1
      <4> HIDE DEF x
      <4>2. /\ off[x + 1] = off[x] + EntryLen(es[x]) /\ LaidAt(c, es[x], off[x])
            /\ es[x] \in Entry /\ EntryLen(es[x]) \in Nat
        BY <1>2, <4>1
      <4>3. off[x] \in Nat /\ off[x + 1] \in 0 .. Len(c)
        BY <1>2, <4>1
      <4>4. off[k + 1] <= off[x]
        BY <1>2, <4>1
      <4> QED
        BY <4>1, <4>2, <4>3, <4>4 DEF x
    <3>5. LaidAt(d, es[j + 1], of[j])
      <4> DEFINE e == es[j + 1]
                 p == off[j + 1]
                 q == of[j]
                 l == EntryLen(e)
      <4>1. /\ p \in Nat /\ q \in Nat /\ l \in Nat /\ p = q + m /\ p + l <= Len(c)
            /\ off[k] + m <= p /\ e \in Entry /\ LaidAt(c, e, p)
        BY <1>1, <1>4, <3>3, <3>4
      <4> HIDE DEF e, p, q, l
      <4>2. ASSUME NEW i \in 1 .. l PROVE d[q + i] = c[p + i]
        <5>1. q + i \in 1 .. Len(c) - m /\ ~(q + i <= off[k]) /\ q + i + m = p + i
          BY <1>1, <1>4, <4>1
        <5> QED
          BY <1>5, <5>1
      <4>3. LaidAt(d, e, q)
        BY <4>1, <4>2, LaidElsewhere DEF l
      <4> QED
        BY <4>3 DEF e, q
    <3>6. of[j + 1] = of[j] + EntryLen(es[j + 1])
      <4> DEFINE a == of[j]
                 b == of[j + 1]
                 x == off[j + 1]
                 y == off[j + 2]
                 l == EntryLen(es[j + 1])
      <4>1. a = x - m /\ b = y - m /\ y = x + l /\ a \in Nat /\ x \in Nat /\ l \in Nat /\ m \in Nat
        BY <1>4, <3>2, <3>3, <3>4
      <4> HIDE DEF a, b, x, y, l, m
      <4>2. b = a + l
        BY <4>1
      <4> QED
        BY <4>2 DEF a, b, l
    <3> QED
      BY <3>1, <3>5, <3>6
  <2> QED
    BY <2>1, <2>2
<1>11. Laid(d, fs, of)
  BY <1>5, <1>6, <1>9, <1>10 DEF Laid
<1> QED
  BY <1>11 DEF d, m, fs, of
-----------------------------------------------------------------------------
(* The cursor.  It is behind the first p bytes c, with the rest of its     *)
(* block in the buffer; it has read everything below bound.                *)
FileType == [open : BOOLEAN, nBlocksSoFar : 0 .. MaxBlocks, nBytesInFileBuf : 0 .. BSZ,
             xNextByte : 0 .. BSZ, fileBuf : Block]
FileOK(f) == f \in FileType /\ f.xNextByte <= f.nBytesInFileBuf

ReadsAt(f, p, c) ==
    /\ p <= Len(c)
    /\ \/ f.nBlocksSoFar = 0 /\ p = 0 /\ f.xNextByte = 0 /\ f.nBytesInFileBuf = 0
       \/ /\ f.nBlocksSoFar >= 1 /\ p = (f.nBlocksSoFar - 1) * BSZ + f.xNextByte
          /\ f.nBytesInFileBuf = BytesOf(Len(c), f.nBlocksSoFar - 1)
          /\ \A j \in f.xNextByte .. f.nBytesInFileBuf - 1 :
               f.fileBuf[j] = c[(f.nBlocksSoFar - 1) * BSZ + j + 1]

AtEnd(f, bound) == Exhausted(f) /\ bound <= f.nBlocksSoFar * BSZ

FileTyped ==
    /\ size \in 0 .. MaxBlocks * BSZ
    /\ block \in [0 .. MaxBlocks - 1 -> Block]

LEMMA BytesOfBounds ==
    ASSUME NEW sz \in Nat, NEW k \in Nat
    PROVE  /\ BytesOf(sz, k) \in 0 .. BSZ
           /\ BytesOf(sz, k) # 0 => k * BSZ < sz /\ k * BSZ + BytesOf(sz, k) <= sz
           /\ k * BSZ < sz => BytesOf(sz, k) # 0
           /\ k * BSZ + BytesOf(sz, k) < sz => BytesOf(sz, k) = BSZ
           /\ k * BSZ <= sz /\ sz <= k * BSZ + BSZ => BytesOf(sz, k) = sz - k * BSZ
<1> DEFINE q == k * BSZ
<1>1. q \in Nat /\ BSZ \in Nat \ {0}
  BY BlockSizeAssumption
<1>2. BytesOf(sz, k) = (IF q >= sz THEN 0 ELSE IF BSZ <= sz - q THEN BSZ ELSE sz - q)
  BY BytesOfIs
<1> HIDE DEF q
<1>3. /\ BytesOf(sz, k) \in 0 .. BSZ
      /\ BytesOf(sz, k) # 0 => q < sz /\ q + BytesOf(sz, k) <= sz
      /\ q < sz => BytesOf(sz, k) # 0
      /\ q + BytesOf(sz, k) < sz => BytesOf(sz, k) = BSZ
      /\ q <= sz /\ sz <= q + BSZ => BytesOf(sz, k) = sz - q
  BY <1>1, <1>2
<1> QED
  BY <1>3 DEF q

LEMMA RefilledOK ==
    ASSUME FileTyped, NEW f, FileOK(f)
    PROVE  /\ FileOK(Refilled(f)) /\ Refilled(f).open = f.open
           /\ Refilled(f).nBlocksSoFar >= f.nBlocksSoFar
           /\ Refilled(f).nBytesInFileBuf # 0 => Refilled(f).xNextByte < Refilled(f).nBytesInFileBuf
<1> DEFINE k == f.nBlocksSoFar
           n == BytesOf(size, k)
<1>1. k \in 0 .. MaxBlocks /\ size \in Nat /\ k \in Nat /\ MaxBlocks \in Nat
  BY Widths DEF FileOK, FileType, FileTyped
<1>2. n \in 0 .. BSZ /\ (n # 0 => k * BSZ < size)
  BY <1>1, BytesOfBounds
<1>3. n # 0 => block[k] \in Block
  <2> SUFFICES ASSUME n # 0 PROVE k \in 0 .. MaxBlocks - 1
    BY DEF FileTyped
  <2>1. k * BSZ < MaxBlocks * BSZ
    BY <1>1, <1>2, Widths DEF FileTyped
  <2>2. k # MaxBlocks
    BY <2>1, Widths
  <2> QED
    BY <1>1, <2>2
<1> DEFINE b == Min({k + 1, MaxBlocks})
<1>4. b \in 0 .. MaxBlocks /\ b >= k
  BY <1>1, MinOfTwo
<1> DEFINE r == [f EXCEPT !.xNextByte = 0, !.nBlocksSoFar = b, !.nBytesInFileBuf = n,
                          !.fileBuf = IF n = 0 THEN @ ELSE block[k]]
<1>5. Refilled(f) = IF ~Exhausted(f) THEN f ELSE r
  BY DEF Refilled
<1> HIDE DEF n, b
<1>6. ASSUME Exhausted(f) PROVE FileOK(r) /\ r.open = f.open /\ r.nBlocksSoFar >= f.nBlocksSoFar
                                /\ r.xNextByte = 0
  <2>1. f \in FileType /\ 0 \in 0 .. BSZ
    BY Widths DEF FileOK
  <2>2. (IF n = 0 THEN f.fileBuf ELSE block[k]) \in Block
    BY <1>3, <2>1 DEF FileType
  <2>3. r \in FileType /\ r.xNextByte = 0 /\ r.nBytesInFileBuf = n /\ r.open = f.open
        /\ r.nBlocksSoFar = b
    BY <1>2, <1>4, <2>1, <2>2 DEF FileType
  <2> HIDE DEF r
  <2> QED
    BY <1>2, <1>4, <2>3 DEF FileOK
<1>7. r.nBytesInFileBuf \in Nat /\ (Exhausted(f) => r.xNextByte = 0)
  BY <1>2, <1>6, Widths DEF FileOK, FileType
<1>8. ~Exhausted(f) => f.xNextByte < f.nBytesInFileBuf
  BY DEF FileOK, FileType, Exhausted
<1> HIDE DEF r, k
<1>9. f.nBlocksSoFar >= f.nBlocksSoFar
  BY <1>1 DEF k
<1>10. Exhausted(f) => (r.nBytesInFileBuf # 0 => r.xNextByte < r.nBytesInFileBuf)
  BY <1>7
<1> QED
  BY <1>5, <1>6, <1>8, <1>9, <1>10

LEMMA AdvancedOK ==
    ASSUME FileTyped, NEW f, FileOK(f)
    PROVE  /\ FileOK(Advanced(f)) /\ Advanced(f).open = f.open /\ NextByte(f) \in Byte
           /\ Advanced(f).nBlocksSoFar >= f.nBlocksSoFar
<1> DEFINE r == Refilled(f)
           a == [r EXCEPT !.xNextByte = @ + 1]
<1>1. FileOK(r) /\ r.open = f.open /\ r.nBlocksSoFar >= f.nBlocksSoFar
      /\ (r.nBytesInFileBuf # 0 => r.xNextByte < r.nBytesInFileBuf)
  BY RefilledOK
<1>2. Advanced(f) = IF r.nBytesInFileBuf = 0 THEN r ELSE a
  BY DEF Advanced, AtEOF
<1>3. NextByte(f) = IF r.nBytesInFileBuf = 0 THEN 0 ELSE r.fileBuf[r.xNextByte]
  BY DEF NextByte, AtEOF
<1> HIDE DEF r
<1>4. ASSUME r.nBytesInFileBuf # 0
      PROVE  FileOK(a) /\ a.open = r.open /\ a.nBlocksSoFar = r.nBlocksSoFar
             /\ r.fileBuf[r.xNextByte] \in Byte
  <2>1. r.xNextByte \in 0 .. BSZ /\ r.nBytesInFileBuf \in 0 .. BSZ /\ r \in FileType
        /\ r.xNextByte < r.nBytesInFileBuf /\ r.fileBuf \in Block
    BY <1>1, <1>4 DEF FileOK, FileType
  <2>2. r.xNextByte + 1 \in 0 .. BSZ /\ r.xNextByte + 1 <= r.nBytesInFileBuf /\ r.xNextByte \in Places
    BY <2>1, Widths DEF Places
  <2>3. a \in FileType /\ a.xNextByte = r.xNextByte + 1 /\ a.nBytesInFileBuf = r.nBytesInFileBuf
        /\ a.open = r.open /\ a.nBlocksSoFar = r.nBlocksSoFar
    BY <2>1, <2>2 DEF FileType
  <2>4. r.fileBuf[r.xNextByte] \in Byte
    BY <2>1, <2>2 DEF Block
  <2> HIDE DEF a
  <2> QED
    BY <2>2, <2>3, <2>4 DEF FileOK
<1> HIDE DEF a
<1>5. 0 \in Byte
  BY DEF Byte
<1> QED
  BY <1>1, <1>2, <1>3, <1>4, <1>5

(* Below the end the next byte is read.                                    *)
LEMMA ReadsOn ==
    ASSUME FileTyped, NEW f, FileOK(f), NEW c \in Seq(Byte), Len(c) = size,
           NEW p \in Nat, p < size, ReadsAt(f, p, c),
           \A k \in Nat : k >= f.nBlocksSoFar => HoldsBlock(block, k, c)
    PROVE  NextByte(f) = c[p + 1] /\ ReadsAt(Advanced(f), p + 1, c)
<1> DEFINE r == Refilled(f)
           b == r.nBlocksSoFar
           n == r.nBytesInFileBuf
           x == r.xNextByte
<1>1. /\ b \in Nat /\ b >= 1 /\ p = (b - 1) * BSZ + x /\ n = BytesOf(size, b - 1)
      /\ x \in Nat /\ x < n /\ r \in FileType
      /\ \A j \in x .. n - 1 : r.fileBuf[j] = c[(b - 1) * BSZ + j + 1]
  <2>1. FileOK(r)
    BY RefilledOK
  <2>2. /\ f.nBlocksSoFar \in 0 .. MaxBlocks /\ f.xNextByte \in 0 .. BSZ /\ f \in FileType
        /\ f.nBytesInFileBuf \in 0 .. BSZ /\ f.xNextByte <= f.nBytesInFileBuf
        /\ size \in Nat /\ MaxBlocks \in Nat
    BY Widths DEF FileOK, FileType, FileTyped
  <2>3. CASE ~Exhausted(f)
    <3>1. r = f /\ f.xNextByte # f.nBytesInFileBuf
      BY <2>3 DEF Refilled, Exhausted
    <3> HIDE DEF r
    <3>2. /\ f.nBlocksSoFar >= 1 /\ p = (f.nBlocksSoFar - 1) * BSZ + f.xNextByte
          /\ f.nBytesInFileBuf = BytesOf(size, f.nBlocksSoFar - 1)
          /\ \A j \in f.xNextByte .. f.nBytesInFileBuf - 1 :
               f.fileBuf[j] = c[(f.nBlocksSoFar - 1) * BSZ + j + 1]
      BY <3>1 DEF ReadsAt
    <3> QED
      BY <2>2, <3>1, <3>2
  <2>4. CASE Exhausted(f)
    <3> DEFINE k == f.nBlocksSoFar
    <3>1. p = k * BSZ
      <4>1. CASE k = 0 /\ p = 0
        BY <4>1, Widths
      <4>2. CASE k >= 1 /\ p = (k - 1) * BSZ + f.xNextByte /\ f.nBytesInFileBuf = BytesOf(size, k - 1)
        <5>1. f.xNextByte = BytesOf(size, k - 1) /\ k - 1 \in Nat
          BY <2>2, <2>4, <4>2 DEF Exhausted
        <5>2. BytesOf(size, k - 1) = BSZ
          BY <2>2, <4>2, <5>1, BytesOfBounds
        <5>3. (k - 1) * BSZ + BSZ = k * BSZ
          BY <2>2, Widths
        <5> QED
          BY <4>2, <5>1, <5>2, <5>3
      <4> QED
        BY <4>1, <4>2 DEF ReadsAt
    <3>2. k * BSZ < size /\ BytesOf(size, k) # 0 /\ BytesOf(size, k) \in 0 .. BSZ
          /\ k * BSZ + BytesOf(size, k) <= size
      <4>1. k * BSZ < size /\ k \in Nat
        BY <2>2, <3>1
      <4> HIDE DEF k
      <4> QED
        BY <2>2, <4>1, BytesOfBounds
    <3>3. k < MaxBlocks
      <4>1. k * BSZ < MaxBlocks * BSZ
        <5> DEFINE q == k * BSZ
                   m == MaxBlocks * BSZ
        <5>1. q \in Nat /\ m \in Nat /\ q < size /\ size \in Nat /\ size <= m
          BY <2>2, <3>2, Widths DEF FileTyped
        <5> HIDE DEF q, m
        <5>2. q < m
          BY <5>1
        <5> QED
          BY <5>2 DEF q, m
      <4>2. k # MaxBlocks
        BY <4>1, Widths
      <4> QED
        BY <2>2, <4>2
    <3>4. Min({k + 1, MaxBlocks}) = k + 1
      BY <2>2, <3>3, MinOfTwo
    <3>5. r = [f EXCEPT !.xNextByte = 0, !.nBlocksSoFar = k + 1,
                        !.nBytesInFileBuf = BytesOf(size, k), !.fileBuf = block[k]]
      BY <2>4, <3>2, <3>4 DEF Refilled
    <3> HIDE DEF r
    <3>6. x = 0 /\ b = k + 1 /\ n = BytesOf(size, k) /\ r.fileBuf = block[k]
      BY <2>2, <3>5 DEF FileType
    <3>7. ASSUME NEW j \in 0 .. BytesOf(size, k) - 1 PROVE block[k][j] = c[k * BSZ + j + 1]
      <4>1. HoldsBlock(block, k, c)
        BY <2>2
      <4>2. j \in Places /\ k * BSZ + j < Len(c)
        <5> DEFINE q == k * BSZ
                   n0 == BytesOf(size, k)
        <5>1. q \in Nat /\ n0 \in 0 .. BSZ /\ q + n0 <= size /\ j \in 0 .. n0 - 1 /\ Len(c) = size
          BY <2>2, <3>2, Widths
        <5> HIDE DEF q, n0
        <5>2. j \in 0 .. BSZ - 1 /\ q + j < Len(c)
          BY <2>2, <5>1, Widths
        <5> QED
          BY <5>2 DEF Places, q
      <4> QED
        BY <4>1, <4>2 DEF HoldsBlock
    <3>8. (k + 1) - 1 = k /\ k + 1 \in Nat /\ k + 1 >= 1 /\ k * BSZ + 0 = k * BSZ
      BY <2>2, Widths
    <3>9. b - 1 = k /\ b \in Nat /\ b >= 1 /\ n = BytesOf(size, b - 1) /\ x \in Nat
      BY <3>6, <3>8
    <3>10. p = (b - 1) * BSZ + x
      BY <3>1, <3>6, <3>8, <3>9
    <3>11. x < n
      BY <3>2, <3>6
    <3>12. \A j \in x .. n - 1 : r.fileBuf[j] = c[(b - 1) * BSZ + j + 1]
      BY <3>6, <3>7, <3>9
    <3>13. r \in FileType
      BY <2>1 DEF FileOK
    <3> QED
      BY <3>9, <3>10, <3>11, <3>12, <3>13
  <2> QED
    BY <2>3, <2>4
<1>2. n # 0 /\ n \in 0 .. BSZ /\ x \in 0 .. BSZ
  BY <1>1 DEF FileType
<1>3. NextByte(f) = r.fileBuf[x]
  BY <1>2 DEF NextByte, AtEOF
<1>4. Advanced(f) = [r EXCEPT !.xNextByte = @ + 1]
  BY <1>2 DEF Advanced, AtEOF
<1> HIDE DEF r
<1> DEFINE a == Advanced(f)
<1>5. a.xNextByte = x + 1 /\ a.nBlocksSoFar = b /\ a.nBytesInFileBuf = n /\ a.fileBuf = r.fileBuf
  BY <1>1, <1>4 DEF FileType
<1> HIDE DEF a, b, n, x
<1>6. x \in x .. n - 1 /\ (b - 1) * BSZ + x + 1 = p + 1
  BY <1>1, <1>2
<1>7. r.fileBuf[x] = c[p + 1]
  BY <1>1, <1>6
<1>8. p + 1 = (b - 1) * BSZ + (x + 1) /\ p + 1 <= Len(c)
  <2>1. (b - 1) * BSZ \in Nat
    BY <1>1, Widths
  <2> QED
    BY <1>1, <2>1
<1>9. \A j \in x + 1 .. n - 1 : j \in x .. n - 1
  BY <1>1
<1>10. ReadsAt(a, p + 1, c)
  BY <1>1, <1>5, <1>8, <1>9 DEF ReadsAt
<1> QED
  BY <1>3, <1>7, <1>10 DEF a

(* At the end there is none.                                               *)
LEMMA ReadToEnd ==
    ASSUME NEW f, FileOK(f), NEW c \in Seq(Byte), ReadsAt(f, Len(c), c)
    PROVE  AtEnd(f, Len(c))
<1> DEFINE k == f.nBlocksSoFar
<1>1. k \in Nat /\ f.xNextByte \in 0 .. BSZ /\ f.nBytesInFileBuf \in 0 .. BSZ /\ Len(c) \in Nat
      /\ f.xNextByte <= f.nBytesInFileBuf
  BY Widths DEF FileOK, FileType
<1>2. CASE k = 0 /\ Len(c) = 0 /\ f.xNextByte = 0 /\ f.nBytesInFileBuf = 0
  BY <1>2, Widths DEF AtEnd, Exhausted
<1>3. CASE k >= 1 /\ Len(c) = (k - 1) * BSZ + f.xNextByte /\ f.nBytesInFileBuf = BytesOf(Len(c), k - 1)
  <2> DEFINE q == (k - 1) * BSZ
  <2>1. q \in Nat /\ q + BSZ = k * BSZ /\ k - 1 \in Nat /\ BSZ \in Nat
    <3> HIDE DEF k
    <3>1. k - 1 \in Nat /\ BSZ \in Nat
      BY <1>1, <1>3, Widths
    <3>2. k * BSZ = (k - 1) * BSZ + BSZ /\ (k - 1) * BSZ \in Nat
      BY <1>1, <3>1
    <3> QED
      BY <3>1, <3>2
  <2>2. q <= Len(c) /\ Len(c) <= q + BSZ
    <3>1. Len(c) = q + f.xNextByte
      BY <1>3
    <3> HIDE DEF q
    <3> QED
      BY <1>1, <2>1, <3>1
  <2>3. BytesOf(Len(c), k - 1) = Len(c) - q
    <3> HIDE DEF k
    <3> QED
      BY <1>1, <2>1, <2>2, BytesOfBounds
  <2>4. f.nBytesInFileBuf = f.xNextByte
    <3>1. f.nBytesInFileBuf = Len(c) - q /\ Len(c) = q + f.xNextByte
      BY <1>3, <2>3
    <3>2. q \in Nat /\ Len(c) \in Nat /\ f.xNextByte \in Nat
      BY <1>1, <2>1
    <3> HIDE DEF q
    <3> QED
      BY <3>1, <3>2
  <2>5. Len(c) <= k * BSZ
    BY <2>1, <2>2
  <2> QED
    BY <2>4, <2>5 DEF AtEnd, Exhausted
<1> QED
  BY <1>2, <1>3 DEF ReadsAt

LEMMA NothingAtEnd ==
    ASSUME FileTyped, NEW f, FileOK(f), AtEnd(f, size)
    PROVE  NextByte(f) = 0 /\ AtEnd(Advanced(f), size)
<1> DEFINE k == f.nBlocksSoFar
           b == Min({k + 1, MaxBlocks})
           r == Refilled(f)
<1>1. k \in 0 .. MaxBlocks /\ k \in Nat /\ size \in Nat /\ size <= k * BSZ /\ f \in FileType
      /\ size <= MaxBlocks * BSZ
  BY Widths DEF FileOK, FileType, FileTyped, AtEnd
<1>2. BytesOf(size, k) = 0
  <2>1. ~(k * BSZ < size)
    BY <1>1, Widths
  <2> QED
    BY <1>1, <2>1, BytesOfBounds
<1>3. r = [f EXCEPT !.xNextByte = 0, !.nBlocksSoFar = b, !.nBytesInFileBuf = 0]
  <2>1. r = [f EXCEPT !.xNextByte = 0, !.nBlocksSoFar = b, !.nBytesInFileBuf = 0, !.fileBuf = @]
    BY <1>2 DEF AtEnd, Refilled
  <2> HIDE DEF r, b
  <2> QED
    BY <1>1, <2>1 DEF FileType
<1>4. size <= b * BSZ
  <2>1. b = k + 1 \/ b = MaxBlocks
    BY <1>1, MinOfTwo, Widths
  <2>2. (k + 1) * BSZ = k * BSZ + BSZ /\ k * BSZ \in Nat
    BY <1>1, Widths
  <2> HIDE DEF b
  <2> QED
    BY <1>1, <2>1, <2>2, Widths
<1> HIDE DEF r, b
<1>5. r.nBytesInFileBuf = 0 /\ r.xNextByte = 0 /\ r.nBlocksSoFar = b
  BY <1>1, <1>3 DEF FileType
<1>6. NextByte(f) = 0 /\ Advanced(f) = r
  BY <1>5 DEF NextByte, Advanced, AtEOF, r
<1> QED
  BY <1>4, <1>5, <1>6 DEF AtEnd, Exhausted
-----------------------------------------------------------------------------
(* Bytes are appended through a buffer.                                    *)
LEMMA FilledIsBlock ==
    ASSUME NEW buf \in Block, NEW rest \in Seq(Byte), NEW j \in Nat, NEW n \in 0 .. Len(rest)
    PROVE  Filled(buf, j, n, rest) \in Block
<1> SUFFICES ASSUME NEW x \in Places
             PROVE  (IF x \in j .. j + n - 1 THEN rest[x - j + 1] ELSE buf[x]) \in Byte
  BY DEF Filled, Block
<1>1. CASE x \in j .. j + n - 1
  <2>1. x - j + 1 \in 1 .. Len(rest)
    BY <1>1
  <2> QED
    BY <1>1, <2>1, ElementOfSeq
<1>2. CASE x \notin j .. j + n - 1
  BY <1>2 DEF Block
<1> QED
  BY <1>1, <1>2

LEMMA RestSplit ==
    ASSUME NEW c \in Seq(Byte), NEW rest \in Seq(Byte), NEW n \in 0 .. Len(rest)
    PROVE  /\ Rest(rest, n) \in Seq(Byte) /\ Len(Rest(rest, n)) = Len(rest) - n
           /\ c \o SubSeq(rest, 1, n) \in Seq(Byte) /\ Len(c \o SubSeq(rest, 1, n)) = Len(c) + n
           /\ \A i \in 1 .. Len(c) : (c \o SubSeq(rest, 1, n))[i] = c[i]
           /\ \A i \in 1 .. n : (c \o SubSeq(rest, 1, n))[Len(c) + i] = rest[i]
           /\ (c \o SubSeq(rest, 1, n)) \o Rest(rest, n) = c \o rest
<1> DEFINE a == SubSeq(rest, 1, n)
           b == Rest(rest, n)
           l == Len(c)
           m == Len(rest)
<1>1. a \in Seq(Byte) /\ Len(a) = n /\ \A i \in 1 .. n : a[i] = rest[i]
  OBVIOUS
<1>2. b \in Seq(Byte) /\ Len(b) = m - n /\ \A i \in 1 .. m - n : b[i] = rest[n + i]
  BY DEF Rest
<1>3. l \in Nat /\ m \in Nat /\ n \in 0 .. m
  OBVIOUS
<1> DEFINE d == c \o a
<1> HIDE DEF a, b
<1>4. d \in Seq(Byte) /\ Len(d) = l + n
      /\ \A i \in 1 .. l + n : d[i] = IF i <= l THEN c[i] ELSE a[i - l]
  BY <1>1, ConcatProperties
<1> HIDE DEF d
<1> DEFINE e == d \o b
           f == c \o rest
<1>5. e \in Seq(Byte) /\ Len(e) = l + m
      /\ \A i \in 1 .. l + m : e[i] = IF i <= l + n THEN d[i] ELSE b[i - (l + n)]
  <2>1. e \in Seq(Byte) /\ Len(e) = Len(d) + Len(b)
        /\ \A i \in 1 .. Len(d) + Len(b) : e[i] = IF i <= Len(d) THEN d[i] ELSE b[i - Len(d)]
    BY <1>2, <1>4, ConcatProperties
  <2>2. Len(d) + Len(b) = l + m
    BY <1>2, <1>3, <1>4
  <2> QED
    BY <1>4, <2>1, <2>2
<1>6. f \in Seq(Byte) /\ Len(f) = l + m
      /\ \A i \in 1 .. l + m : f[i] = IF i <= l THEN c[i] ELSE rest[i - l]
  BY ConcatProperties
<1> HIDE DEF e, f, l, m
<1>7. ASSUME NEW i \in 1 .. l PROVE d[i] = c[i]
  <2>1. i \in 1 .. l + n /\ i <= l
    BY <1>3
  <2> QED
    BY <1>4, <2>1
<1>8. ASSUME NEW i \in 1 .. n PROVE d[l + i] = rest[i]
  <2>1. l + i \in 1 .. l + n /\ ~(l + i <= l) /\ (l + i) - l = i
    BY <1>3
  <2> QED
    BY <1>1, <1>4, <2>1
<1>9. ASSUME NEW i \in 1 .. l + m PROVE e[i] = f[i]
  <2>1. CASE i <= l
    BY <1>3, <1>5, <1>6, <1>7, <2>1
  <2>2. CASE i > l /\ i <= l + n
    <3>1. i - l \in 1 .. n /\ l + (i - l) = i /\ ~(i <= l)
      BY <1>3, <2>2
    <3>2. d[l + (i - l)] = rest[i - l]
      BY <1>8, <3>1
    <3>3. f[i] = rest[i - l] /\ e[i] = d[i]
      BY <1>5, <1>6, <2>2, <3>1
    <3> QED
      BY <3>1, <3>2, <3>3
  <2>3. CASE i > l + n
    <3>1. i - (l + n) \in 1 .. m - n /\ n + (i - (l + n)) = i - l /\ ~(i <= l) /\ ~(i <= l + n)
      BY <1>3, <2>3
    <3> QED
      BY <1>2, <1>5, <1>6, <3>1
  <2> QED
    BY <1>3, <2>1, <2>2, <2>3
<1>10. e = f
  BY <1>5, <1>6, <1>9, SeqEqual
<1> QED
  BY <1>2, <1>4, <1>7, <1>8, <1>10 DEF d, a, b, e, f, l, m

LEMMA FilledHolds ==
    ASSUME NEW c \in Seq(Byte), NEW rest \in Seq(Byte), NEW n \in 0 .. Len(rest),
           NEW b \in Nat, NEW j \in Places, Len(c) = b * BSZ + j, j + n <= BSZ,
           NEW buf, \A x \in 0 .. j - 1 : buf[x] = c[b * BSZ + x + 1],
           NEW blk, Holds(blk, c),
           NEW blk2, \A k \in Nat : k < b => blk2[k] = blk[k],
           blk2[b] = Filled(buf, j, n, rest)
    PROVE  Holds(blk2, c \o SubSeq(rest, 1, n))
<1> DEFINE d == c \o SubSeq(rest, 1, n)
           q == b * BSZ
<1>1. /\ d \in Seq(Byte) /\ Len(d) = Len(c) + n
      /\ \A i \in 1 .. Len(c) : d[i] = c[i]
      /\ \A i \in 1 .. n : d[Len(c) + i] = rest[i]
  BY RestSplit
<1>2. q \in Nat /\ Len(c) = q + j /\ Len(d) <= q + BSZ /\ n \in Nat /\ j \in Nat
      /\ BSZ \in Nat \ {0} /\ Len(c) \in Nat
  BY <1>1, Widths DEF Places
<1> HIDE DEF d
<1> SUFFICES ASSUME NEW k \in Nat, NEW x \in Places, k * BSZ + x < Len(d)
             PROVE  blk2[k][x] = d[k * BSZ + x + 1]
  BY DEF Holds, HoldsBlock, d
<1>3. CASE k < b
  <2> DEFINE y == k * BSZ
  <2>1. y \in Nat /\ y + BSZ <= q
    BY <1>3, NextMultiple, Widths
  <2> HIDE DEF y, q
  <2>2. y + x < Len(c) /\ y + x + 1 \in 1 .. Len(c)
    BY <1>2, <2>1 DEF Places
  <2>3. blk[k][x] = c[y + x + 1]
    BY <2>2 DEF Holds, HoldsBlock, y
  <2> QED
    BY <1>1, <1>3, <2>2, <2>3 DEF y
<1>4. CASE k = b
  <2> HIDE DEF q
  <2>1. q + x < Len(d) /\ k * BSZ = q
    BY <1>4 DEF q
  <2>2. blk2[k][x] = IF x \in j .. j + n - 1 THEN rest[x - j + 1] ELSE buf[x]
    BY <1>4 DEF Filled
  <2>3. CASE x < j
    <3>1. x \in 0 .. j - 1 /\ q + x + 1 \in 1 .. Len(c) /\ x \notin j .. j + n - 1
      <4>1. x \in Nat /\ n \in Nat /\ j \in Nat /\ x < j
        BY <1>2, <2>3 DEF Places
      <4>2. x \in 0 .. j - 1 /\ x \notin j .. j + n - 1
        BY <4>1
      <4>3. q + x + 1 \in 1 .. q + j
        BY <1>2, <4>1
      <4> QED
        BY <1>2, <4>2, <4>3
    <3>2. buf[x] = c[q + x + 1]
      BY <3>1 DEF q
    <3> QED
      BY <1>1, <2>1, <2>2, <3>1, <3>2
  <2>4. CASE ~(x < j)
    <3>1. x \in j .. j + n - 1 /\ x - j + 1 \in 1 .. n /\ Len(c) + (x - j + 1) = q + x + 1
      BY <1>1, <1>2, <2>1, <2>4 DEF Places
    <3>2. d[q + x + 1] = rest[x - j + 1]
      BY <1>1, <3>1
    <3> QED
      BY <2>1, <2>2, <3>1, <3>2
  <2> QED
    BY <2>3, <2>4
<1>5. ~(b < k)
  <2> SUFFICES ASSUME b < k PROVE FALSE
    OBVIOUS
  <2> DEFINE y == k * BSZ
  <2>1. y \in Nat /\ q + BSZ <= y /\ y + x < Len(d)
    BY NextMultiple, Widths
  <2> HIDE DEF y, q
  <2> QED
    BY <1>1, <1>2, <2>1 DEF Places
<1> QED
  BY <1>3, <1>4, <1>5
-----------------------------------------------------------------------------
(* The inductive invariant.  Between calls the bytes are laid as entries,  *)
(* and a cursor that was left open has nothing more to read.               *)
NoneBefore(es, k, n) == \A j \in 1 .. k - 1 : es[j].name # n
Absent(n) == call.o \in before.atEnd \/ NoneBefore(before.entries, Len(before.entries) + 1, n)

Typed ==
    /\ FileTyped
    /\ dirf \in [Objects -> FileType] /\ \A o \in Objects : FileOK(dirf[o])
    /\ answer \in Nat

IdleInv ==
    /\ \E es, off : Laid(Content, es, off)
    /\ \A o \in Objects : dirf[o].open => AtEnd(dirf[o], size)

(* During a call the other objects are where they were, with nothing to    *)
(* read below bound, the size the file will have.                          *)
OnCall(bound) ==
    /\ call.o \in Objects /\ dirf[call.o].open /\ before.atEnd \subseteq Objects
    /\ bound <= MaxBlocks * BSZ
    /\ \A q \in Objects \ {call.o} :
         (q \in before.atEnd <=> dirf[q].open) /\ (dirf[q].open => AtEnd(dirf[q], bound))

(* A lookup: its cursor is at a byte of entry k, none before k having the  *)
(* name, unless it was left at the end and finds nothing.                  *)
LookupCall == [phase : {"name", "number", "found", "missing"},
               method : {"iNumberOf", "addLeafName", "deleteFile"},
               o : Objects, name : Names, in : Nat, word : Seq(Byte), number : Seq(Byte)]

NameBegun(c, es, off, k, f, word) ==
    /\ ReadsAt(f, off[k] + Len(word), c)
    /\ IF k = Len(es) + 1 THEN word = <<>>
       ELSE Len(word) <= Len(es[k].name) /\ \A j \in 1 .. Len(word) : word[j] = es[k].name[j]

NumberBegun(c, es, off, k, f, word, number) ==
    /\ word = es[k].name /\ Len(number) < IWidth
    /\ \A j \in 1 .. Len(number) : number[j] = NumberBytes(es[k].in)[j]
    /\ ReadsAt(f, off[k] + Len(word) + 1 + Len(number), c)

IsAtName(off) ==
    /\ call.number = <<>>
    /\ \/ /\ call.o \notin before.atEnd
          /\ \E k \in 1 .. Len(before.entries) + 1 :
               /\ NoneBefore(before.entries, k, call.name)
               /\ NameBegun(Content, before.entries, off, k, dirf[call.o], call.word)
       \/ call.o \in before.atEnd /\ call.word = <<>> /\ AtEnd(dirf[call.o], size)

IsAtNumber(off) ==
    /\ call.o \notin before.atEnd
    /\ \E k \in 1 .. Len(before.entries) :
         /\ NoneBefore(before.entries, k, call.name)
         /\ NumberBegun(Content, before.entries, off, k, dirf[call.o], call.word, call.number)

HasFound(off) ==
    /\ call.o \notin before.atEnd
    /\ \E k \in 1 .. Len(before.entries) :
         /\ NoneBefore(before.entries, k, call.name) /\ before.entries[k].name = call.name
         /\ call.number = NumberBytes(before.entries[k].in)
         /\ ReadsAt(dirf[call.o], off[k + 1], Content)

Target == IF call.method = "addLeafName" THEN size + Len(Bytes(call.name, call.in)) ELSE size

Looking ==
    /\ call \in LookupCall /\ OnCall(Target)
    /\ call.method = "addLeafName" => call.in \in Numbers

LookupInv ==
    /\ Looking
    /\ \E off :
         /\ Laid(Content, before.entries, off)
         /\ \/ call.phase = "name" /\ IsAtName(off)
            \/ call.phase = "number" /\ IsAtNumber(off)
            \/ call.phase = "found" /\ HasFound(off)
            \/ call.phase = "missing" /\ AtEnd(dirf[call.o], size) /\ Absent(call.name)

(* An append: what is there and what is to come are the entries and the    *)
(* new one.                                                                *)
WriteCall == [phase : {"fill", "append"}, o : Objects, rest : Seq(Byte)]

WriteInv ==
    /\ call \in WriteCall /\ OnCall(size + Len(call.rest))
    /\ call.phase = "append" /\ call.rest # <<>> => size % BSZ = 0
    /\ \E c, off : \E n \in Names, i \in Numbers :
         /\ Laid(c, before.entries, off) /\ Absent(n)
         /\ Content \o call.rest = c \o Bytes(n, i)

(* A deletion: the blocks from the cursor's on are the old ones, those     *)
(* before the one being written and a part of that are the new ones.       *)
ShiftCall == [phase : {"shift"}, o : Objects, in : Nat, n : Nat, left : Nat,
              toBlockNum : Nat, toBlockx : Places, localBuf : Block]

Deleting(c, off, k) ==
    /\ Laid(c, before.entries, off) /\ Len(c) = size /\ k \in 1 .. Len(before.entries)
    /\ before.entries[k].name \in Names
    /\ NoneBefore(before.entries, k, before.entries[k].name)
    /\ call.in = before.entries[k].in /\ call.n = EntryLen(before.entries[k])

Shifted(c, off, k) ==
    /\ call.left <= size - off[k + 1]
    /\ size - call.left = call.n + call.toBlockNum * BSZ + call.toBlockx
    /\ ReadsAt(dirf[call.o], size - call.left, c)
    /\ \A b \in Nat : b >= dirf[call.o].nBlocksSoFar => HoldsBlock(block, b, c)
    /\ \A b \in Nat : b < call.toBlockNum => HoldsBlock(block, b, Without(c, off[k], call.n))
    /\ \A j \in 0 .. call.toBlockx - 1 :
         call.localBuf[j] = Without(c, off[k], call.n)[call.toBlockNum * BSZ + j + 1]

ShiftInv ==
    /\ call \in ShiftCall /\ OnCall(size) /\ call.o \notin before.atEnd
    /\ \E c, off, k : Deleting(c, off, k) /\ Shifted(c, off, k)

DInv ==
    /\ Typed
    /\ \/ call.phase = "idle" /\ IdleInv
       \/ LookupInv
       \/ WriteInv
       \/ ShiftInv

LEMMA DInvTyped == DInv => TypeOK
<1> SUFFICES ASSUME DInv PROVE TypeOK
  OBVIOUS
<1>1. size \in 0 .. MaxBlocks * BSZ /\ block \in [0 .. MaxBlocks - 1 -> [Places -> 0 .. 255]]
      /\ answer \in Nat
  BY DEF DInv, Typed, FileTyped, Block, Byte
<1>2. ASSUME NEW o \in Objects
      PROVE  dirf[o].nBytesInFileBuf \in 0 .. BSZ /\ dirf[o].xNextByte \in 0 .. dirf[o].nBytesInFileBuf
  <2>1. FileOK(dirf[o])
    BY DEF DInv, Typed
  <2> QED
    BY <2>1, Widths DEF FileOK, FileType
<1>3. ASSUME call.phase = "shift" PROVE call.left \in Nat /\ call.toBlockx \in Places
  <2>1. call \in ShiftCall
    BY <1>3 DEF DInv, LookupInv, Looking, LookupCall, WriteInv, WriteCall, ShiftInv
  <2> QED
    BY <2>1 DEF ShiftCall
<1> QED
  BY <1>1, <1>2, <1>3 DEF TypeOK
-----------------------------------------------------------------------------
(* What the abstract directory is.                                         *)
AbsEntries == IF call.phase = "idle" THEN Entries ELSE before.entries
AbsAtEnd == IF call.phase = "idle" THEN OpenFiles ELSE before.atEnd
absVars == <<AbsEntries, AbsAtEnd, answer>>
Dots == <<[name |-> Dot, in |-> 1], [name |-> DotDot, in |-> 1]>>

EntriesFrom(c, l) ==
    (CHOOSE g : g =
       [p \in 1 .. l + 1 + IWidth |->
          IF p > l THEN <<>>
          ELSE LET nul == Min({q \in p .. l : c[q] = 0} \cup {l + 1})
                   end == Min({nul + IWidth, l})
               IN  <<[name |-> SubSeq(c, p, nul - 1), in |-> Value(SubSeq(c, nul + 1, end))]>>
                      \o g[end + 1]])[1]

LEMMA EntriesFromIs ==
    ASSUME NEW c
    PROVE  EntriesFrom(c, Len(c)) = EntriesIn(c)
  BY DEF EntriesFrom, EntriesIn, Reads, EntryAt, EndIn, NulIn

LEMMA ContentTyped ==
    ASSUME NEW sz \in 0 .. MaxBlocks * BSZ, NEW blk \in [0 .. MaxBlocks - 1 -> Block]
    PROVE  ContentOf(sz, blk) \in Seq(Byte) /\ Len(ContentOf(sz, blk)) = sz
<1>1. sz \in Nat
  BY Widths
<1>2. ASSUME NEW p \in 1 .. sz PROVE blk[(p - 1) \div BSZ][(p - 1) % BSZ] \in Byte
  <2> DEFINE k == (p - 1) \div BSZ
             q == k * BSZ
             m == MaxBlocks * BSZ
  <2>1. p - 1 \in Nat
    BY <1>1
  <2>2. k \in Nat /\ (p - 1) % BSZ \in Places /\ q + ((p - 1) % BSZ) = p - 1
    BY <2>1, Division DEF Places
  <2>3. q < m
    <3>1. q \in Nat /\ m \in Nat /\ sz <= m
      BY <2>2, Widths
    <3> HIDE DEF q, m
    <3>2. q <= p - 1
      BY <2>2, <3>1 DEF Places
    <3> QED
      BY <1>1, <3>1, <3>2
  <2>4. k < MaxBlocks
    <3> HIDE DEF k
    <3>1. ~(MaxBlocks < k)
      BY <2>2, <2>3, NextMultiple, Widths
    <3>2. k # MaxBlocks
      BY <2>2, <2>3, Widths
    <3> QED
      BY <2>2, <3>1, <3>2, Widths
  <2>5. k \in 0 .. MaxBlocks - 1
    BY <2>2, <2>4, Widths
  <2> HIDE DEF k
  <2> QED
    BY <2>2, <2>5 DEF Block, k
<1>3. ContentOf(sz, blk) = [p \in 1 .. sz |-> blk[(p - 1) \div BSZ][(p - 1) % BSZ]]
  BY DEF ContentOf
<1> QED
  BY <1>1, <1>2, <1>3

(* Entries of a state, and of the one after it.                            *)
LEMMA EntriesAre ==
    ASSUME size \in Nat, NEW es, NEW off, Laid(Content, es, off)
    PROVE  Entries = es
<1>1. Entries = EntriesFrom(Content, size)
  BY DEF Entries, EntriesFrom
<1>2. Len(Content) = size
  BY ContentHeld DEF Content
<1> QED
  BY <1>1, <1>2, EntriesFromIs, EntriesRead

LEMMA EntriesBecome ==
    ASSUME size' \in Nat, NEW es, NEW off, Laid(Content', es, off)
    PROVE  Entries' = es
<1>1. Entries' = EntriesFrom(Content', size')
  BY DEF Entries, EntriesFrom
<1>2. Len(Content') = size'
  BY ContentHeld DEF Content
<1> QED
  BY <1>1, <1>2, EntriesFromIs, EntriesRead

LEMMA DInvInitially == Init => DInv /\ AbsEntries = Dots /\ AbsAtEnd = {} /\ answer = 0
<1> SUFFICES ASSUME Init PROVE DInv /\ AbsEntries = Dots /\ AbsAtEnd = {} /\ answer = 0
  OBVIOUS
<1> DEFINE e1 == [name |-> Dot, in |-> 1]
           e2 == [name |-> DotDot, in |-> 1]
           d == NewDirectory
           m == MaxBlocks * BSZ
<1>1. e1 \in Entry /\ e2 \in Entry /\ e1.name = Dot /\ e2.name = DotDot /\ e1.in = 1 /\ e2.in = 1
  BY DEF Entry, AllNames
<1>2. \E off : Laid(d, Dots, off)
  <2> DEFINE o0 == [k \in 1 .. 1 |-> 0]
             b1 == Bytes(e1.name, e1.in)
             b2 == Bytes(e2.name, e2.in)
  <2>1. Laid(<<>>, <<>>, o0)
    BY DEF Laid
  <2>2. \E off : Laid(<<>> \o b1, Append(<<>>, e1), off)
    BY <1>1, <2>1, LaidAppended
  <2>3. \E off : Laid((<<>> \o b1) \o b2, Append(Append(<<>>, e1), e2), off)
    BY <1>1, <2>2, LaidAppended
  <2>4. <<>> \o b1 = b1 /\ Append(Append(<<>>, e1), e2) = <<e1, e2>>
    <3>1. b1 \in Seq(Byte)
      BY <1>1, BytesAre
    <3> HIDE DEF b1
    <3>2. <<>> \o b1 = b1
      BY <3>1, ConcatEmptySeq
    <3> HIDE DEF e1, e2
    <3>3. Append(Append(<<>>, e1), e2) = <<e1, e2>>
      <4> DEFINE S == {e1, e2}
      <4>1. <<>> \in Seq(S) /\ Len(<<>>) = 0 /\ e1 \in S /\ e2 \in S
        OBVIOUS
      <4> HIDE DEF S
      <4>2. Append(<<>>, e1) \in Seq(S) /\ Len(Append(<<>>, e1)) = 1 /\ Append(<<>>, e1)[1] = e1
        BY <4>1, AppendProperties
      <4> DEFINE a == Append(<<>>, e1)
                 b == Append(a, e2)
      <4> HIDE DEF a
      <4>3. b \in Seq(S) /\ Len(b) = 2 /\ b[1] = e1 /\ b[2] = e2
        BY <4>1, <4>2, AppendProperties DEF a
      <4> HIDE DEF b
      <4>4. <<e1, e2>> \in Seq(S) /\ Len(<<e1, e2>>) = 2 /\ <<e1, e2>>[1] = e1 /\ <<e1, e2>>[2] = e2
        BY <4>1
      <4>5. \A i \in 1 .. 2 : b[i] = <<e1, e2>>[i]
        BY <4>3, <4>4
      <4> QED
        BY <4>3, <4>4, <4>5, SeqEqual DEF a, b
    <3> QED
      BY <3>2, <3>3
  <2>5. b1 \o b2 = d
    BY <1>1 DEF NewDirectory
  <2> QED
    BY <2>3, <2>4, <2>5 DEF Dots
<1>3. d \in Seq(Byte) /\ Len(d) = Len(Dot) + Len(DotDot) + 2 + 2 * IWidth
  <2>1. /\ Bytes(e1.name, e1.in) \in Seq(Byte) /\ Len(Bytes(e1.name, e1.in)) = EntryLen(e1)
        /\ Bytes(e2.name, e2.in) \in Seq(Byte) /\ Len(Bytes(e2.name, e2.in)) = EntryLen(e2)
    BY <1>1, BytesAre
  <2>2. EntryLen(e1) = Len(Dot) + 1 + IWidth /\ EntryLen(e2) = Len(DotDot) + 1 + IWidth
    BY <1>1 DEF EntryLen
  <2>3. Len(Dot) \in Nat /\ Len(DotDot) \in Nat
    BY NameBytes DEF AllNames
  <2>4. d = Bytes(e1.name, e1.in) \o Bytes(e2.name, e2.in)
    BY <1>1 DEF NewDirectory
  <2>5. d \in Seq(Byte) /\ Len(d) = EntryLen(e1) + EntryLen(e2)
    <3> DEFINE b1 == Bytes(e1.name, e1.in)
               b2 == Bytes(e2.name, e2.in)
    <3>1. b1 \in Seq(Byte) /\ b2 \in Seq(Byte) /\ d = b1 \o b2 /\ Len(b1) = EntryLen(e1)
          /\ Len(b2) = EntryLen(e2)
      BY <2>1, <2>4
    <3> HIDE DEF b1, b2, d, e1, e2
    <3>2. b1 \o b2 \in Seq(Byte) /\ Len(b1 \o b2) = Len(b1) + Len(b2)
      BY <3>1, ConcatProperties
    <3> QED
      BY <3>1, <3>2
  <2> QED
    BY <2>2, <2>3, <2>5, Widths
<1> HIDE DEF d
<1>4. size = Len(d) /\ size \in 0 .. m /\ m \in Nat
  BY <1>3, DirectoryFileAssumption, Widths DEF Init, d
<1>5. block = [k \in 0 .. MaxBlocks - 1 |->
                 [j \in Places |-> IF k * BSZ + j < size THEN d[k * BSZ + j + 1] ELSE 0]]
  BY DEF Init, d
<1>6. block \in [0 .. MaxBlocks - 1 -> Block]
  <2> SUFFICES ASSUME NEW k \in 0 .. MaxBlocks - 1, NEW j \in Places, k * BSZ + j < size
               PROVE  d[k * BSZ + j + 1] \in Byte
    <3>1. 0 \in Byte
      BY DEF Byte
    <3> QED
      BY <1>5, <3>1 DEF Block
  <2>1. k * BSZ \in Nat
    BY Widths
  <2>2. k * BSZ + j + 1 \in 1 .. Len(d)
    BY <1>4, <2>1 DEF Places
  <2> QED
    BY <1>3, <2>2, ElementOfSeq
<1>7. Holds(block, d)
  <2> SUFFICES ASSUME NEW k \in Nat, NEW j \in Places, k * BSZ + j < Len(d)
               PROVE  block[k][j] = d[k * BSZ + j + 1]
    BY DEF Holds, HoldsBlock
  <2>1. k < MaxBlocks
    <3> DEFINE q == k * BSZ
    <3>1. q \in Nat /\ q + j < m
      BY <1>4, Widths DEF Places
    <3>2. q < m
      <4> HIDE DEF q, m
      <4> QED
        BY <1>4, <3>1 DEF Places
    <3>3. ~(MaxBlocks < k) /\ k # MaxBlocks
      BY <3>2, NextMultiple, Widths
    <3> QED
      BY <3>3, Widths
  <2>2. k \in 0 .. MaxBlocks - 1
    BY <2>1, Widths
  <2> QED
    BY <1>4, <1>5, <2>2
<1>8. Content = d
  BY <1>3, <1>4, <1>7, ContentIs DEF Content
<1>9. dirf = [o \in Objects |-> NoFile] /\ call.phase = "idle" /\ answer = 0
  BY DEF Init, Idle
<1>10. NoFile \in FileType /\ ~NoFile.open /\ FileOK(NoFile)
  <2>1. ZeroBlock \in Block /\ 0 \in 0 .. BSZ /\ 0 \in 0 .. MaxBlocks
    BY Widths DEF ZeroBlock, Block, Byte
  <2>2. NewFile \in FileType /\ NewFile.xNextByte = 0 /\ NewFile.nBytesInFileBuf = 0
    BY <2>1 DEF NewFile, FileType
  <2>3. NoFile \in FileType /\ ~NoFile.open /\ NoFile.xNextByte = 0 /\ NoFile.nBytesInFileBuf = 0
    BY <2>2 DEF NoFile, FileType
  <2> QED
    BY <2>3 DEF FileOK
<1>11. Typed
  BY <1>4, <1>6, <1>9, <1>10 DEF Typed, FileTyped, m
<1>12. IdleInv
  BY <1>2, <1>8, <1>9, <1>10 DEF IdleInv
<1>13. AbsEntries = Dots
  BY <1>2, <1>4, <1>8, <1>9, EntriesAre DEF AbsEntries
<1>14. AbsAtEnd = {}
  BY <1>9, <1>10 DEF AbsAtEnd, OpenFiles
<1> QED
  BY <1>9, <1>11, <1>12, <1>13, <1>14 DEF DInv
-----------------------------------------------------------------------------
(* What the steps have in common.                                          *)
LEMMA PhaseCases ==
    ASSUME DInv
    PROVE  /\ call.phase = "idle" => IdleInv
           /\ call.phase \in {"name", "number", "found", "missing"} => LookupInv
           /\ call.phase \in {"fill", "append"} => WriteInv
           /\ call.phase = "shift" => ShiftInv
<1>1. LookupInv => call.phase \in {"name", "number", "found", "missing"}
  BY DEF LookupInv, Looking, LookupCall
<1>2. WriteInv => call.phase \in {"fill", "append"}
  BY DEF WriteInv, WriteCall
<1>3. ShiftInv => call.phase = "shift"
  BY DEF ShiftInv, ShiftCall
<1> QED
  BY <1>1, <1>2, <1>3 DEF DInv

LEMMA NewFileOK ==
    /\ NewFile \in FileType /\ FileOK(NewFile) /\ NewFile.open
    /\ NewFile.nBlocksSoFar = 0 /\ NewFile.xNextByte = 0 /\ NewFile.nBytesInFileBuf = 0
    /\ NoFile \in FileType /\ FileOK(NoFile) /\ ~NoFile.open
<1>1. ZeroBlock \in Block /\ 0 \in 0 .. BSZ /\ 0 \in 0 .. MaxBlocks
  BY Widths DEF ZeroBlock, Block, Byte
<1>2. NewFile \in FileType /\ NewFile.xNextByte = 0 /\ NewFile.nBytesInFileBuf = 0 /\ NewFile.open
      /\ NewFile.nBlocksSoFar = 0
  BY <1>1 DEF NewFile, FileType
<1>3. NoFile \in FileType /\ ~NoFile.open /\ NoFile.xNextByte = 0 /\ NoFile.nBytesInFileBuf = 0
  BY <1>2 DEF NoFile, FileType
<1> QED
  BY <1>2, <1>3 DEF FileOK

(* The entry a lookup finds is the first of its name.                      *)
FirstNamed(es, n) == SelectInSeq(es, LAMBDA e : e.name = n)

LEMMA FirstNamedIs ==
    ASSUME NEW es \in Seq(Entry), NEW n, NEW k \in 1 .. Len(es) + 1, NoneBefore(es, k, n),
           k = Len(es) + 1 \/ es[k].name = n
    PROVE  FirstNamed(es, n) = IF k = Len(es) + 1 THEN 0 ELSE k
<1> DEFINE S == {i \in 1 .. Len(es) : es[i].name = n}
<1>1. FirstNamed(es, n) = IF S # {} THEN Min(S) ELSE 0
  BY DEF FirstNamed, SelectInSeq
<1>2. CASE k = Len(es) + 1
  BY <1>1, <1>2 DEF NoneBefore
<1>3. CASE k # Len(es) + 1
  <2>1. k \in S /\ S \in SUBSET Int
    BY <1>3
  <2>2. ASSUME NEW i \in S PROVE k <= i
    BY DEF NoneBefore
  <2> HIDE DEF S
  <2>3. Min(S) = k
    BY <2>1, <2>2, MinIs
  <2> QED
    BY <1>1, <1>3, <2>1, <2>3
<1> QED
  BY <1>2, <1>3

LEMMA NamedIs ==
    ASSUME call.phase # "idle", NEW n
    PROVE  Promised!Named(n) = FirstNamed(before.entries, n)
<1>1. Promised!Named(n) = FirstNamed(AbsEntries, n)
  BY DEF Promised!Named, Promised!SelectInSeq, Promised!Min, FirstNamed, SelectInSeq, Min, AbsEntries
<1>2. AbsEntries = before.entries
  BY DEF AbsEntries
<1> QED
  BY <1>1, <1>2

LEMMA FoundIs ==
    ASSUME call.phase # "idle", before.entries \in Seq(Entry), call.o \notin before.atEnd,
           NEW k \in 1 .. Len(before.entries), NEW n,
           NoneBefore(before.entries, k, n), before.entries[k].name = n
    PROVE  Promised!Named(n) = k /\ Promised!Found(call.o, n)
           /\ Promised!Number(n) = before.entries[k].in
<1>1. FirstNamed(before.entries, n) = k
  <2>1. k \in 1 .. Len(before.entries) + 1 /\ k # Len(before.entries) + 1
    OBVIOUS
  <2> QED
    BY <2>1, FirstNamedIs
<1> QED
  BY <1>1, NamedIs DEF Promised!Found, Promised!Number

LEMMA AbsentIs ==
    ASSUME call.phase # "idle", before.entries \in Seq(Entry), NEW n, Absent(n)
    PROVE  ~Promised!Found(call.o, n)
<1>1. CASE call.o \in before.atEnd
  BY <1>1 DEF Promised!Found
<1>2. CASE NoneBefore(before.entries, Len(before.entries) + 1, n)
  <2>1. FirstNamed(before.entries, n) = 0
    <3>1. Len(before.entries) + 1 \in 1 .. Len(before.entries) + 1
      OBVIOUS
    <3> QED
      BY <1>2, <3>1, FirstNamedIs
  <2> QED
    BY <2>1, NamedIs DEF Promised!Found
<1> QED
  BY <1>1, <1>2 DEF Absent

(* A method returns: the state is one between calls again, ...             *)
LEMMA ReturnStep ==
    ASSUME Typed, NEW bound \in Nat, OnCall(bound), NEW r \in Nat, NEW f, FileOK(f), Returns(r, f),
           FileTyped', size' <= bound, f.open => AtEnd(f, size'),
           NEW es, NEW off, Laid(Content', es, off)
    PROVE  /\ DInv' /\ AbsEntries' = es /\ answer' = r
           /\ AbsAtEnd' = IF f.open THEN before.atEnd \cup {call.o} ELSE before.atEnd \ {call.o}
<1>1. /\ dirf \in [Objects -> FileType] /\ call.o \in Objects /\ \A q \in Objects : FileOK(dirf[q])
      /\ dirf' = [dirf EXCEPT ![call.o] = f] /\ call' = Idle /\ answer' = r
      /\ f \in FileType
  BY DEF Typed, OnCall, Returns, FileOK
<1>2. dirf' \in [Objects -> FileType] /\ dirf'[call.o] = f
      /\ \A q \in Objects \ {call.o} : dirf'[q] = dirf[q]
  BY <1>1
<1>3. Typed'
  BY <1>1, <1>2 DEF Typed
<1>4. size' \in Nat
  BY Widths DEF FileTyped
<1>5. ASSUME NEW q \in Objects, dirf'[q].open PROVE AtEnd(dirf'[q], size')
  <2>1. CASE q = call.o
    BY <1>2, <1>5, <2>1
  <2>2. CASE q # call.o
    <3>1. dirf'[q] = dirf[q] /\ AtEnd(dirf[q], bound) /\ dirf[q].nBlocksSoFar \in Nat
      BY <1>1, <1>2, <1>5, <2>2, Widths DEF OnCall, FileType
    <3> DEFINE m == dirf[q].nBlocksSoFar * BSZ
    <3>2. m \in Nat /\ bound <= m
      BY <3>1, Widths DEF AtEnd
    <3> HIDE DEF m
    <3>3. size' <= m
      BY <1>4, <3>2
    <3> QED
      BY <3>1, <3>3 DEF AtEnd, m
  <2> QED
    BY <2>1, <2>2
<1>6. IdleInv'
  BY <1>5 DEF IdleInv
<1>7. call'.phase = "idle"
  BY <1>1 DEF Idle
<1>8. AbsEntries' = es
  BY <1>4, <1>7, EntriesBecome DEF AbsEntries
<1>9. OpenFiles' = IF f.open THEN before.atEnd \cup {call.o} ELSE before.atEnd \ {call.o}
  BY <1>1, <1>2 DEF OpenFiles, OnCall
<1>10. AbsAtEnd' = OpenFiles'
  BY <1>7 DEF AbsAtEnd
<1> QED
  BY <1>1, <1>3, <1>6, <1>7, <1>8, <1>9, <1>10 DEF DInv

(* ... or it goes on, and the directory is still what it was.              *)
LEMMA GoesOn ==
    ASSUME call.phase # "idle", call'.phase # "idle", UNCHANGED <<answer, before>>
    PROVE  UNCHANGED absVars
  BY DEF absVars, AbsEntries, AbsAtEnd
-----------------------------------------------------------------------------
(* A call begins, and a cursor is closed.                                  *)
LEMMA NamesEndStep ==
    ASSUME DInv, NEW o \in Objects, NamesEnd(o)
    PROVE  DInv' /\ Promised!NamesEnd(o)
<1>1. /\ call.phase = "idle" /\ o \in OpenFiles /\ dirf' = [dirf EXCEPT ![o] = NoFile]
      /\ UNCHANGED <<size, block, call, answer, before>>
  BY DEF NamesEnd
<1>2. Typed /\ IdleInv
  BY <1>1, PhaseCases DEF DInv
<1>3. dirf \in [Objects -> FileType] /\ dirf' \in [Objects -> FileType] /\ dirf'[o] = NoFile
      /\ \A q \in Objects \ {o} : dirf'[q] = dirf[q]
  BY <1>1, <1>2, NewFileOK DEF Typed
<1>4. Typed'
  BY <1>1, <1>2, <1>3, NewFileOK DEF Typed, FileTyped
<1>5. Content' = Content /\ Entries' = Entries
  BY <1>1 DEF Content, Entries
<1>6. IdleInv'
  BY <1>1, <1>2, <1>3, <1>5, NewFileOK DEF IdleInv
<1>7. AbsEntries' = AbsEntries /\ AbsAtEnd' = AbsAtEnd \ {o} /\ o \in AbsAtEnd
  BY <1>1, <1>3, <1>5, NewFileOK DEF AbsEntries, AbsAtEnd, OpenFiles
<1>8. Promised!NamesEnd(o)
  BY <1>1, <1>7 DEF Promised!NamesEnd, AbsEntries, AbsAtEnd
<1> QED
  BY <1>1, <1>4, <1>6, <1>8 DEF DInv

LEMMA CalledStep ==
    ASSUME DInv, NEW o \in Objects, NEW n \in Names, NEW i \in Nat,
           NEW m \in {"iNumberOf", "addLeafName", "deleteFile"}, Called(m, o, n, i),
           m = "addLeafName" => i \in Numbers /\ NoneLeftBehind(o, n, i) /\ DiskHasRoom(n, i)
    PROVE  DInv' /\ UNCHANGED absVars
<1>1. /\ call.phase = "idle" /\ UNCHANGED <<size, block, answer>>
      /\ call' = [phase |-> "name", method |-> m, o |-> o, name |-> n, in |-> i,
                  word |-> <<>>, number |-> <<>>]
      /\ dirf' = [dirf EXCEPT ![o] = IF @.open THEN @ ELSE NewFile]
      /\ before' = [entries |-> Entries, atEnd |-> OpenFiles]
  BY DEF Called
<1>2. Typed /\ IdleInv
  BY <1>1, PhaseCases DEF DInv
<1>3. dirf \in [Objects -> FileType] /\ dirf' \in [Objects -> FileType]
      /\ dirf'[o] = (IF dirf[o].open THEN dirf[o] ELSE NewFile)
      /\ \A q \in Objects \ {o} : dirf'[q] = dirf[q]
  BY <1>1, <1>2, NewFileOK DEF Typed
<1>4. dirf'[o].open /\ FileOK(dirf'[o])
  BY <1>2, <1>3, NewFileOK DEF Typed
<1>5. Typed'
  BY <1>1, <1>2, <1>3, <1>4 DEF Typed, FileTyped
<1>6. Content' = Content /\ size \in Nat /\ size <= MaxBlocks * BSZ /\ size' = size
  BY <1>1, <1>2, Widths DEF Content, Typed, FileTyped
<1>7. PICK es, off : Laid(Content, es, off)
  BY <1>2 DEF IdleInv
<1>8. Entries = es /\ before'.entries = es /\ before'.atEnd = OpenFiles
  BY <1>1, <1>6, <1>7, EntriesAre
<1>9. /\ call'.phase = "name" /\ call'.method = m /\ call'.o = o /\ call'.name = n /\ call'.in = i
      /\ call'.word = <<>> /\ call'.number = <<>> /\ call' \in LookupCall
  BY <1>1 DEF LookupCall
<1>10. Target' = IF m = "addLeafName" THEN size + Len(Bytes(n, i)) ELSE size
  BY <1>6, <1>9 DEF Target
<1>11. OnCall(Target)'
  <2>1. Target' <= MaxBlocks * BSZ
    BY <1>6, <1>10 DEF DiskHasRoom
  <2>2. ASSUME NEW q \in Objects \ {o}
        PROVE  (q \in OpenFiles <=> dirf'[q].open) /\ (dirf'[q].open => AtEnd(dirf'[q], Target'))
    <3>1. q \in OpenFiles <=> dirf'[q].open
      BY <1>3 DEF OpenFiles
    <3>2. ASSUME dirf'[q].open PROVE AtEnd(dirf[q], Target')
      <4>1. dirf[q].open /\ AtEnd(dirf[q], size)
        BY <1>2, <1>3, <3>2 DEF IdleInv
      <4>2. m = "addLeafName" => size + Len(Bytes(n, i)) <= dirf[q].nBlocksSoFar * BSZ
        BY <4>1 DEF NoneLeftBehind, OpenFiles
      <4> QED
        BY <1>10, <4>1, <4>2 DEF AtEnd
    <3> QED
      BY <1>3, <3>1, <3>2
  <2>3. OpenFiles \subseteq Objects
    BY DEF OpenFiles
  <2> QED
    BY <1>4, <1>8, <1>9, <2>1, <2>2, <2>3 DEF OnCall
<1>12. Looking'
  BY <1>9, <1>11 DEF Looking
<1>13. IsAtName(off)'
  <2>1. CASE o \in OpenFiles
    <3>1. dirf'[o] = dirf[o] /\ AtEnd(dirf[o], size)
      BY <1>2, <1>3, <2>1 DEF IdleInv, OpenFiles
    <3> QED
      BY <1>1, <1>8, <1>9, <2>1, <3>1 DEF IsAtName
  <2>2. CASE o \notin OpenFiles
    <3>1. dirf'[o] = NewFile
      BY <1>3, <2>2 DEF OpenFiles
    <3>2. 1 \in 1 .. Len(es) + 1 /\ off[1] = 0 /\ Len(Content) \in Nat
      BY <1>7 DEF Laid
    <3>3. NoneBefore(es, 1, n)
      BY DEF NoneBefore
    <3>4. ReadsAt(NewFile, off[1] + Len(<<>>), Content)
      BY <3>2, NewFileOK DEF ReadsAt
    <3>5. 1 # Len(es) + 1 => Len(<<>>) <= Len(es[1].name)
      <4> SUFFICES ASSUME 1 # Len(es) + 1 PROVE Len(es[1].name) \in Nat
        OBVIOUS
      <4>1. 1 \in 1 .. Len(es) /\ es \in Seq(Entry)
        BY <1>7, <3>2 DEF Laid
      <4>2. es[1] \in Entry
        BY <4>1, ElementOfSeq
      <4> QED
        BY <4>2, EntryLengths
    <3>6. NameBegun(Content, es, off, 1, NewFile, <<>>)
      BY <3>4, <3>5 DEF NameBegun
    <3> QED
      BY <1>6, <1>8, <1>9, <2>2, <3>1, <3>2, <3>3, <3>6 DEF IsAtName
  <2> QED
    BY <2>1, <2>2
<1>14. LookupInv'
  BY <1>6, <1>7, <1>8, <1>9, <1>12, <1>13 DEF LookupInv
<1>15. UNCHANGED absVars
  BY <1>1, <1>8, <1>9 DEF absVars, AbsEntries, AbsAtEnd
<1> QED
  BY <1>5, <1>14, <1>15 DEF DInv
-----------------------------------------------------------------------------
(* The lookup: what it leaves alone, ...                                   *)
LEMMA LookupGoesOn ==
    ASSUME Typed, Looking, dirf' = [dirf EXCEPT ![call.o] = Advanced(@)],
           UNCHANGED <<size, block, answer, before>>, call' \in LookupCall,
           call'.method = call.method, call'.o = call.o, call'.name = call.name, call'.in = call.in
    PROVE  Typed' /\ Looking' /\ Content' = Content /\ dirf'[call.o] = Advanced(dirf[call.o])
<1> DEFINE o == call.o
<1>1. dirf \in [Objects -> FileType] /\ o \in Objects /\ FileTyped /\ FileOK(dirf[o])
  BY DEF Typed, Looking, OnCall
<1>2. FileOK(Advanced(dirf[o])) /\ Advanced(dirf[o]).open = dirf[o].open
  BY <1>1, AdvancedOK
<1>3. dirf' \in [Objects -> FileType] /\ dirf'[o] = Advanced(dirf[o])
      /\ \A q \in Objects \ {o} : dirf'[q] = dirf[q]
  BY <1>1, <1>2 DEF FileOK
<1>4. Typed'
  BY <1>1, <1>2, <1>3 DEF Typed, FileTyped
<1>5. Target' = Target
  BY DEF Target
<1>6. OnCall(Target)'
  BY <1>1, <1>2, <1>3, <1>5 DEF Looking, OnCall
<1> QED
  BY <1>3, <1>4, <1>6 DEF Looking, Content

(* ... and what the blocks are to the cursor.                              *)
LEMMA BlocksHold ==
    ASSUME Typed
    PROVE  /\ Content \in Seq(Byte) /\ Len(Content) = size /\ size \in Nat
           /\ \A k \in Nat : HoldsBlock(block, k, Content)
<1>1. size \in 0 .. MaxBlocks * BSZ /\ block \in [0 .. MaxBlocks - 1 -> Block] /\ size \in Nat
  BY Widths DEF Typed, FileTyped
<1>2. Content \in Seq(Byte) /\ Len(Content) = size
  BY <1>1, ContentTyped DEF Content
<1>3. Holds(block, Content)
  BY <1>1, ContentHeld DEF Content
<1> QED
  BY <1>1, <1>2, <1>3 DEF Holds

LEMMA ReadNameStep ==
    ASSUME DInv, ReadName
    PROVE  DInv' /\ UNCHANGED absVars
<1> DEFINE o == call.o
           f == dirf[o]
           b == NextByte(f)
           es == before.entries
           N == Len(es)
<1>1. /\ call.phase = "name" /\ dirf' = [dirf EXCEPT ![o] = Advanced(@)]
      /\ UNCHANGED <<size, block, answer, before>>
      /\ b # 0 => call' = [call EXCEPT !.word = Append(@, b)]
      /\ b = 0 /\ call.word = <<>> => call' = [call EXCEPT !.phase = "missing"]
      /\ b = 0 /\ call.word # <<>> => call' = [call EXCEPT !.phase = "number"]
  BY DEF ReadName
<1>2. Typed /\ LookupInv /\ Looking
  BY <1>1, PhaseCases DEF DInv, LookupInv
<1>3. PICK off : Laid(Content, es, off) /\ IsAtName(off)
  BY <1>1, <1>2 DEF LookupInv
<1>4. /\ call \in LookupCall /\ FileTyped /\ FileOK(f) /\ o \in Objects
      /\ call.word \in Seq(Byte) /\ call.number = <<>> /\ call.name \in Names
  BY <1>2, <1>3 DEF Looking, OnCall, Typed, LookupCall, IsAtName
<1>5. b \in Byte
  BY <1>4, AdvancedOK
<1>6. /\ call' \in LookupCall /\ call'.method = call.method /\ call'.o = o /\ call'.name = call.name
      /\ call'.in = call.in /\ call'.number = <<>>
      /\ b # 0 => call'.phase = "name" /\ call'.word = Append(call.word, b)
      /\ b = 0 /\ call.word = <<>> => call'.phase = "missing" /\ call'.word = <<>>
      /\ b = 0 /\ call.word # <<>> => call'.phase = "number" /\ call'.word = call.word
  <2>1. Append(call.word, b) \in Seq(Byte)
    BY <1>4, <1>5, AppendProperties
  <2>2. CASE b # 0
    BY <1>1, <1>4, <2>1, <2>2 DEF LookupCall
  <2>3. CASE b = 0 /\ call.word = <<>>
    BY <1>1, <1>4, <2>3 DEF LookupCall
  <2>4. CASE b = 0 /\ call.word # <<>>
    BY <1>1, <1>4, <2>4 DEF LookupCall
  <2> QED
    BY <2>2, <2>3, <2>4
<1>7. Typed' /\ Looking' /\ Content' = Content /\ dirf'[o] = Advanced(f) /\ size' = size
      /\ before' = before
  BY <1>1, <1>2, <1>6, LookupGoesOn
<1>8. /\ Content \in Seq(Byte) /\ Len(Content) = size /\ size \in Nat
      /\ \A k \in Nat : HoldsBlock(block, k, Content)
  BY <1>2, BlocksHold
<1>9. es \in Seq(Entry) /\ N \in Nat
  BY <1>3 DEF Laid
<1>10. ASSUME o \in before.atEnd, call.word = <<>>, AtEnd(f, size) PROVE LookupInv'
  <2>1. b = 0 /\ AtEnd(Advanced(f), size)
    BY <1>4, <1>10, NothingAtEnd
  <2>2. AtEnd(dirf'[o], size)
    BY <1>7, <2>1
  <2>3. call'.phase = "missing" /\ Absent(call.name)' /\ AtEnd(dirf[call.o], size)'
    BY <1>6, <1>7, <1>10, <2>1, <2>2 DEF Absent
  <2>4. Laid(Content, before.entries, off)'
    BY <1>3, <1>7
  <2> QED
    BY <1>7, <2>3, <2>4 DEF LookupInv
<1>11. ASSUME o \notin before.atEnd, NEW k \in 1 .. N + 1, NoneBefore(es, k, call.name),
              NameBegun(Content, es, off, k, f, call.word)
       PROVE  LookupInv'
  <2> DEFINE p == off[k] + Len(call.word)
  <2>1. ReadsAt(f, p, Content) /\ off[k] \in 0 .. size /\ off[N + 1] = size
    BY <1>3, <1>8, <1>11, OffsetsGrow DEF NameBegun, Laid
  <2>2. CASE k = N + 1
    <3>1. call.word = <<>> /\ p = size
      BY <1>8, <1>11, <2>1, <2>2 DEF NameBegun
    <3>2. AtEnd(f, size)
      BY <1>4, <1>8, <2>1, <3>1, ReadToEnd
    <3>3. b = 0 /\ AtEnd(Advanced(f), size)
      BY <1>4, <3>2, NothingAtEnd
    <3>4. AtEnd(dirf'[o], size)
      BY <1>7, <3>3
    <3> QED
      BY <1>3, <1>6, <1>7, <1>11, <2>2, <3>1, <3>3, <3>4 DEF LookupInv, Absent
  <2>3. CASE k # N + 1
    <3> DEFINE e == es[k]
               l == Len(e.name)
               j == Len(call.word)
    <3>1. /\ e \in Entry /\ l \in Nat \ {0} /\ EntryLen(e) = l + 1 + IWidth /\ IWidth \in Nat \ {0}
          /\ off[k + 1] = off[k] + EntryLen(e) /\ off[k + 1] \in 0 .. size /\ off[k] \in Nat
          /\ LaidAt(Content, e, off[k]) /\ e.name \in Seq(Byte)
          /\ \A i \in 1 .. l : e.name[i] \in Byte \ {0}
      <4>1. k \in 1 .. N /\ k + 1 \in 1 .. N + 1
        BY <1>9, <2>3
      <4>2. e \in Entry /\ off[k + 1] = off[k] + EntryLen(e) /\ off[k + 1] \in 0 .. size
            /\ LaidAt(Content, e, off[k]) /\ off[k] \in Nat
        BY <1>3, <1>8, <2>1, <4>1, OffsetsGrow DEF Laid
      <4>3. e.name \in AllNames
        BY <4>2, EntryLengths
      <4>4. e.name \in Seq(Byte) /\ l \in Nat \ {0} /\ \A i \in 1 .. l : e.name[i] \in Byte \ {0}
        BY <4>3, NameBytes
      <4> QED
        BY <4>2, <4>4, Widths DEF EntryLen
    <3>2. j <= l /\ j \in Nat /\ \A i \in 1 .. j : call.word[i] = e.name[i]
      BY <1>4, <1>11, <2>3 DEF NameBegun
    <3>3. p < size /\ p \in Nat
      <4> DEFINE q == off[k]
                 q2 == off[k + 1]
                 m == EntryLen(e)
      <4>1. q \in Nat /\ q2 = q + m /\ m = l + 1 + IWidth /\ q2 \in 0 .. size /\ size \in Nat
            /\ l \in Nat /\ IWidth \in Nat
        BY <1>8, <3>1
      <4> HIDE DEF q, q2, m, l
      <4>2. q + j < size /\ q + j \in Nat
        BY <3>2, <4>1
      <4> QED
        BY <4>2 DEF q
    <3>4. b = Content[p + 1] /\ ReadsAt(Advanced(f), p + 1, Content)
      BY <1>4, <1>8, <2>1, <3>3, ReadsOn
    <3>5. CASE j < l
      <4>1. Content[off[k] + (j + 1)] = e.name[j + 1] /\ j + 1 \in 1 .. l
        <5>1. j + 1 \in 1 .. l
          <6>1. l \in Nat /\ j \in Nat /\ j < l
            BY <3>1, <3>2, <3>5
          <6> HIDE DEF l, j
          <6> QED
            BY <6>1
        <5>2. LaidAt(Content, e, off[k])
          BY <3>1
        <5> HIDE DEF e, j
        <5> QED
          BY <5>1, <5>2 DEF LaidAt
      <4>2. off[k] + (j + 1) = p + 1
        <5>1. off[k] \in Nat /\ j \in Nat /\ p = off[k] + j
          BY <3>1, <3>2
        <5> HIDE DEF j, p
        <5> QED
          BY <5>1
      <4>3. b = e.name[j + 1] /\ b # 0
        BY <3>1, <3>4, <4>1, <4>2
      <4>4. /\ Len(Append(call.word, b)) = j + 1
            /\ \A i \in 1 .. j + 1 : Append(call.word, b)[i] = e.name[i]
        <5>1. /\ Len(Append(call.word, b)) = j + 1 /\ Append(call.word, b)[j + 1] = b
              /\ \A i \in 1 .. j : Append(call.word, b)[i] = call.word[i]
          BY <1>4, <1>5, AppendProperties
        <5>2. \A i \in 1 .. j + 1 : i \in 1 .. j \/ i = j + 1
          BY <3>2
        <5> QED
          BY <3>2, <4>3, <5>1, <5>2
      <4>5. NameBegun(Content, es, off, k, Advanced(f), Append(call.word, b))
        <5>1. off[k] + Len(Append(call.word, b)) = p + 1
          BY <3>1, <3>2, <4>2, <4>4
        <5>2. j + 1 <= l
          <6>1. l \in Nat /\ j \in Nat /\ j < l
            BY <3>1, <3>2, <3>5
          <6> HIDE DEF l, j
          <6> QED
            BY <6>1
        <5>3. ReadsAt(Advanced(f), off[k] + Len(Append(call.word, b)), Content)
          BY <3>4, <5>1
        <5>4. Len(Append(call.word, b)) <= l
              /\ \A i \in 1 .. Len(Append(call.word, b)) : Append(call.word, b)[i] = e.name[i]
          BY <4>4, <5>2
        <5> HIDE DEF b
        <5> QED
          BY <2>3, <5>3, <5>4 DEF NameBegun
      <4>6. IsAtName(off)'
        BY <1>6, <1>7, <1>11, <4>3, <4>5 DEF IsAtName
      <4> QED
        BY <1>3, <1>6, <1>7, <4>3, <4>6 DEF LookupInv
    <3>6. CASE j = l
      <4>1. b = 0 /\ off[k] + l + 1 = p + 1
        BY <3>1, <3>2, <3>4, <3>6 DEF LaidAt
      <4>2. call.word = e.name /\ call.word # <<>>
        BY <1>4, <3>1, <3>2, <3>6, SeqEqual
      <4>3. NumberBegun(Content, es, off, k, Advanced(f), call.word, <<>>)
        <5>1. off[k] + Len(call.word) + 1 + Len(<<>>) = p + 1
          BY <3>1, <3>2
        <5> QED
          BY <3>1, <3>4, <4>2, <5>1 DEF NumberBegun
      <4>4. k \in 1 .. N
        BY <1>9, <2>3
      <4>5. IsAtNumber(off)'
        BY <1>6, <1>7, <1>11, <4>1, <4>2, <4>3, <4>4 DEF IsAtNumber
      <4> QED
        BY <1>3, <1>6, <1>7, <4>1, <4>2, <4>5 DEF LookupInv
    <3>7. j < l \/ j = l
      <4>1. l \in Nat /\ j \in Nat /\ j <= l
        BY <3>1, <3>2
      <4> HIDE DEF l, j
      <4> QED
        BY <4>1
    <3> QED
      BY <3>5, <3>6, <3>7
  <2> QED
    BY <2>2, <2>3
<1>12. LookupInv'
  <2>1. CASE o \notin before.atEnd
    <3>1. PICK k \in 1 .. N + 1 : /\ NoneBefore(es, k, call.name)
                                 /\ NameBegun(Content, es, off, k, f, call.word)
      BY <1>3, <2>1 DEF IsAtName
    <3> QED
      BY <1>11, <2>1, <3>1
  <2>2. CASE o \in before.atEnd
    BY <1>3, <1>10, <2>2 DEF IsAtName
  <2> QED
    BY <2>1, <2>2
<1>13. UNCHANGED absVars
  <2>1. call'.phase # "idle" /\ call.phase # "idle"
    BY <1>1, <1>6 DEF LookupCall
  <2> QED
    BY <1>1, <2>1, GoesOn
<1> QED
  BY <1>7, <1>12, <1>13 DEF DInv

LEMMA ReadNumberStep ==
    ASSUME DInv, ReadNumber
    PROVE  DInv' /\ UNCHANGED absVars
<1> DEFINE o == call.o
           f == dirf[o]
           b == NextByte(f)
           number == Append(call.number, b)
           es == before.entries
           N == Len(es)
<1>1. /\ call.phase = "number" /\ dirf' = [dirf EXCEPT ![o] = Advanced(@)]
      /\ UNCHANGED <<size, block, answer, before>>
      /\ call' = IF Len(number) < IWidth THEN [call EXCEPT !.number = number]
                 ELSE IF call.word = call.name
                 THEN [call EXCEPT !.number = number, !.phase = "found"]
                 ELSE [call EXCEPT !.word = <<>>, !.number = <<>>, !.phase = "name"]
  BY DEF ReadNumber
<1>2. Typed /\ LookupInv /\ Looking
  BY <1>1, PhaseCases DEF DInv, LookupInv
<1>3. PICK off : Laid(Content, es, off) /\ IsAtNumber(off)
  BY <1>1, <1>2 DEF LookupInv
<1>4. PICK k \in 1 .. N : /\ NoneBefore(es, k, call.name)
                          /\ NumberBegun(Content, es, off, k, f, call.word, call.number)
  BY <1>3 DEF IsAtNumber
<1>5. /\ call \in LookupCall /\ FileTyped /\ FileOK(f) /\ o \in Objects /\ o \notin before.atEnd
      /\ call.word \in Seq(Byte) /\ call.number \in Seq(Byte) /\ call.name \in Names
  BY <1>2, <1>3 DEF Looking, OnCall, Typed, LookupCall, IsAtNumber
<1>6. b \in Byte
  BY <1>5, AdvancedOK
<1> DEFINE e == es[k]
           l == Len(e.name)
           m == Len(call.number)
           p == off[k] + Len(call.word) + 1 + m
<1>7. /\ number \in Seq(Byte) /\ Len(number) = m + 1 /\ number[m + 1] = b /\ m \in Nat
      /\ \A i \in 1 .. m : number[i] = call.number[i]
  BY <1>5, <1>6, AppendProperties
<1>8. /\ call' \in LookupCall /\ call'.method = call.method /\ call'.o = o /\ call'.name = call.name
      /\ call'.in = call.in
      /\ m + 1 < IWidth => call'.phase = "number" /\ call'.word = call.word /\ call'.number = number
      /\ ~(m + 1 < IWidth) /\ call.word = call.name
           => call'.phase = "found" /\ call'.word = call.word /\ call'.number = number
      /\ ~(m + 1 < IWidth) /\ call.word # call.name
           => call'.phase = "name" /\ call'.word = <<>> /\ call'.number = <<>>
  <2> HIDE DEF number, m
  <2>1. CASE m + 1 < IWidth
    BY <1>1, <1>5, <1>7, <2>1 DEF LookupCall
  <2>2. CASE ~(m + 1 < IWidth) /\ call.word = call.name
    BY <1>1, <1>5, <1>7, <2>2 DEF LookupCall
  <2>3. CASE ~(m + 1 < IWidth) /\ call.word # call.name
    <3>1. call' = [call EXCEPT !.word = <<>>, !.number = <<>>, !.phase = "name"]
      BY <1>1, <1>7, <2>3
    <3>2. <<>> \in Seq(Byte)
      OBVIOUS
    <3> QED
      BY <1>5, <2>3, <3>1, <3>2 DEF LookupCall
  <2> QED
    BY <2>1, <2>2, <2>3
<1>9. Typed' /\ Looking' /\ Content' = Content /\ dirf'[o] = Advanced(f) /\ size' = size
      /\ before' = before
  BY <1>1, <1>2, <1>8, LookupGoesOn
<1>10. /\ Content \in Seq(Byte) /\ Len(Content) = size /\ size \in Nat
       /\ \A i \in Nat : HoldsBlock(block, i, Content)
  BY <1>2, BlocksHold
<1>11. es \in Seq(Entry) /\ N \in Nat /\ k \in 1 .. N + 1 /\ k + 1 \in 1 .. N + 1
  BY <1>3 DEF Laid
<1>12. /\ e \in Entry /\ l \in Nat \ {0} /\ EntryLen(e) = l + 1 + IWidth /\ IWidth \in Nat \ {0}
       /\ off[k + 1] = off[k] + EntryLen(e) /\ off[k + 1] \in 0 .. size /\ off[k] \in Nat
       /\ LaidAt(Content, e, off[k])
  <2>1. e \in Entry /\ off[k + 1] = off[k] + EntryLen(e) /\ off[k + 1] \in 0 .. size
        /\ off[k] \in 0 .. size /\ LaidAt(Content, e, off[k])
    BY <1>3, <1>10, <1>11, OffsetsGrow DEF Laid
  <2>2. l \in Nat \ {0}
    BY <2>1, EntryLengths
  <2> QED
    BY <1>10, <2>1, <2>2, Widths DEF EntryLen
<1>13. /\ call.word = e.name /\ m < IWidth /\ ReadsAt(f, p, Content)
       /\ \A i \in 1 .. m : call.number[i] = NumberBytes(e.in)[i]
  BY <1>4 DEF NumberBegun
<1>14. p = off[k] + l + 1 + m /\ p \in Nat /\ p < size /\ p + 1 <= off[k + 1]
       /\ (m + 1 = IWidth => p + 1 = off[k + 1])
       /\ off[k] + l + 1 + (m + 1) = p + 1
  <2> DEFINE q == off[k]
             q2 == off[k + 1]
             n == EntryLen(e)
  <2>1. q \in Nat /\ q2 = q + n /\ n = l + 1 + IWidth /\ q2 \in 0 .. size /\ p = q + l + 1 + m
        /\ l \in Nat /\ m < IWidth /\ m \in Nat /\ IWidth \in Nat /\ size \in Nat
    BY <1>7, <1>10, <1>12, <1>13
  <2> HIDE DEF q, q2, n, l, m, p
  <2>2. p \in Nat /\ p < size /\ p + 1 <= q2 /\ (m + 1 = IWidth => p + 1 = q2)
        /\ q + l + 1 + (m + 1) = p + 1
    BY <2>1
  <2> QED
    BY <2>1, <2>2 DEF q, q2
<1>15. b = Content[p + 1] /\ ReadsAt(Advanced(f), p + 1, Content)
  BY <1>5, <1>10, <1>13, <1>14, ReadsOn
<1>16. b = NumberBytes(e.in)[m + 1]
  <2>1. m + 1 \in 1 .. IWidth
    BY <1>7, <1>13, Widths
  <2>2. LaidAt(Content, e, off[k])
    BY <1>12
  <2>3. Content[off[k] + l + 1 + (m + 1)] = NumberBytes(e.in)[m + 1]
    <3> HIDE DEF e, m
    <3> QED
      BY <2>1, <2>2 DEF LaidAt
  <2>4. off[k] + l + 1 + (m + 1) = p + 1
    BY <1>14
  <2> QED
    BY <1>15, <2>3, <2>4
<1>17. \A i \in 1 .. m + 1 : number[i] = NumberBytes(e.in)[i]
  <2>1. \A i \in 1 .. m + 1 : i \in 1 .. m \/ i = m + 1
    BY <1>7
  <2> HIDE DEF number, m, b
  <2> QED
    BY <1>7, <1>13, <1>16, <2>1
<1> HIDE DEF number, b
<1>18. CASE m + 1 < IWidth
  <2>1. off[k] + Len(call.word) + 1 + Len(number) = p + 1
    BY <1>7, <1>13, <1>14
  <2>2. NumberBegun(Content, es, off, k, Advanced(f), call.word, number)
    BY <1>7, <1>13, <1>15, <1>17, <1>18, <2>1 DEF NumberBegun
  <2>3. IsAtNumber(off)'
    BY <1>4, <1>5, <1>8, <1>9, <1>18, <2>2 DEF IsAtNumber
  <2>4. Laid(Content, before.entries, off)'
    BY <1>3, <1>9
  <2>5. LookupInv'
    BY <1>8, <1>9, <1>18, <2>3, <2>4 DEF LookupInv
  <2> QED
    BY <1>1, <1>8, <1>9, <1>18, <2>5, GoesOn DEF DInv
<1>19. CASE ~(m + 1 < IWidth)
  <2>1. m + 1 = IWidth /\ p + 1 = off[k + 1]
    BY <1>7, <1>13, <1>14, <1>19, Widths
  <2>2. CASE call.word = call.name
    <3>1. number = NumberBytes(e.in)
      <4>1. NumberBytes(e.in) \in Seq(Byte) /\ Len(NumberBytes(e.in)) = IWidth
        <5>1. e.in \in Byte /\ 0 \in Byte
          <6>1. e \in Entry
            BY <1>12
          <6> HIDE DEF e
          <6>2. e.in \in 1 .. 255
            BY <6>1, EntryLengths
          <6> QED
            BY <6>2 DEF Byte
        <5> QED
          BY <5>1, Widths DEF NumberBytes
      <4> QED
        BY <1>7, <1>17, <2>1, <4>1, SeqEqual
    <3>2. HasFound(off)'
      BY <1>4, <1>5, <1>8, <1>9, <1>13, <1>15, <1>19, <2>1, <2>2, <3>1 DEF HasFound
    <3>3. Laid(Content, before.entries, off)'
      BY <1>3, <1>9
    <3>4. LookupInv'
      BY <1>8, <1>9, <1>19, <2>2, <3>2, <3>3 DEF LookupInv
    <3> QED
      BY <1>1, <1>8, <1>9, <1>19, <2>2, <3>4, GoesOn DEF DInv
  <2>3. CASE call.word # call.name
    <3>1. NoneBefore(es, k + 1, call.name)
      <4>1. \A i \in 1 .. (k + 1) - 1 : i \in 1 .. k - 1 \/ i = k
        OBVIOUS
      <4> QED
        BY <1>4, <1>13, <2>3, <4>1 DEF NoneBefore
    <3>2. ReadsAt(Advanced(f), off[k + 1] + Len(<<>>), Content)
      BY <1>12, <1>15, <2>1
    <3>3. k + 1 # N + 1 => Len(<<>>) <= Len(es[k + 1].name)
      <4> SUFFICES ASSUME k + 1 # N + 1 PROVE Len(es[k + 1].name) \in Nat
        OBVIOUS
      <4>1. k + 1 \in 1 .. N
        BY <1>11
      <4>2. es[k + 1] \in Entry
        BY <1>11, <4>1, ElementOfSeq
      <4> QED
        BY <4>2, EntryLengths
    <3>4. NameBegun(Content, es, off, k + 1, Advanced(f), <<>>)
      BY <3>2, <3>3 DEF NameBegun
    <3>5. IsAtName(off)'
      BY <1>5, <1>8, <1>9, <1>11, <1>19, <2>3, <3>1, <3>4 DEF IsAtName
    <3>6. Laid(Content, before.entries, off)'
      BY <1>3, <1>9
    <3>7. LookupInv'
      BY <1>8, <1>9, <1>19, <2>3, <3>5, <3>6 DEF LookupInv
    <3> QED
      BY <1>1, <1>8, <1>9, <1>19, <2>3, <3>7, GoesOn DEF DInv
  <2> QED
    BY <2>2, <2>3
<1> QED
  BY <1>18, <1>19

(* When it is done.                                                        *)
LEMMA LookedIs ==
    ASSUME DInv, NEW m, Looked(m)
    PROVE  /\ Typed /\ Looking /\ call.method = m /\ call.o \in Objects /\ call.name \in Names
           /\ call.phase # "idle" /\ FileOK(dirf[call.o]) /\ dirf[call.o].open
           /\ \E off : Laid(Content, before.entries, off)
           /\ before.entries \in Seq(Entry) /\ Result \in Nat
           /\ AbsEntries = before.entries /\ AbsAtEnd = before.atEnd
           /\ Result # 0 =>
                /\ Promised!Found(call.o, call.name)
                /\ Promised!Number(call.name) = Result /\ call.o \notin before.atEnd
                /\ \E off : /\ Laid(Content, before.entries, off)
                            /\ \E k \in 1 .. Len(before.entries) :
                                 /\ NoneBefore(before.entries, k, call.name)
                                 /\ before.entries[k].name = call.name
                                 /\ before.entries[k].in = Result
                                 /\ ReadsAt(dirf[call.o], off[k + 1], Content)
           /\ Result = 0 =>
                /\ Absent(call.name) /\ ~Promised!Found(call.o, call.name)
                /\ AtEnd(dirf[call.o], size)
<1>1. call.phase \in {"found", "missing"} /\ call.method = m
  BY DEF Looked
<1>2. Typed /\ LookupInv /\ Looking
  BY <1>1, PhaseCases DEF DInv, LookupInv
<1>3. PICK off : /\ Laid(Content, before.entries, off)
                 /\ \/ call.phase = "found" /\ HasFound(off)
                    \/ call.phase = "missing" /\ AtEnd(dirf[call.o], size) /\ Absent(call.name)
  BY <1>1, <1>2 DEF LookupInv
<1>4. before.entries \in Seq(Entry)
  BY <1>3 DEF Laid
<1>5. call.o \in Objects /\ call.name \in Names /\ dirf[call.o].open /\ FileOK(dirf[call.o])
      /\ call.phase # "idle"
  BY <1>1, <1>2 DEF Looking, OnCall, LookupCall, Typed
<1>6. AbsEntries = before.entries /\ AbsAtEnd = before.atEnd
  BY <1>5 DEF AbsEntries, AbsAtEnd
<1>7. CASE call.phase = "found"
  <2>1. call.o \notin before.atEnd
    BY <1>3, <1>7 DEF HasFound
  <2>2. PICK k \in 1 .. Len(before.entries) :
          /\ NoneBefore(before.entries, k, call.name) /\ before.entries[k].name = call.name
          /\ call.number = NumberBytes(before.entries[k].in)
          /\ ReadsAt(dirf[call.o], off[k + 1], Content)
    BY <1>3, <1>7 DEF HasFound
  <2>3. before.entries[k].in \in 1 .. 255
    BY <1>4, ElementOfSeq, EntryLengths
  <2>4. Result = before.entries[k].in
    <3>1. Value(NumberBytes(before.entries[k].in)) = before.entries[k].in
      BY <2>3, ValueOfNumber
    <3>2. Result = Value(call.number)
      BY <1>7 DEF Result
    <3> QED
      BY <2>2, <3>1, <3>2
  <2>5. Promised!Found(call.o, call.name) /\ Promised!Number(call.name) = Result
    BY <1>4, <1>5, <2>1, <2>2, <2>4, FoundIs
  <2>6. Result \in Nat /\ Result # 0
    <3>1. \A i \in 1 .. 255 : i \in Nat /\ i # 0
      OBVIOUS
    <3> QED
      BY <2>3, <2>4, <3>1, Zenon
  <2>7. \E i \in 1 .. Len(before.entries) :
          /\ NoneBefore(before.entries, i, call.name)
          /\ before.entries[i].name = call.name
          /\ before.entries[i].in = Result
          /\ ReadsAt(dirf[call.o], off[i + 1], Content)
    BY <2>2, <2>4
  <2> HIDE DEF Result
  <2> QED
    BY <1>1, <1>2, <1>3, <1>4, <1>5, <1>6, <2>1, <2>5, <2>6, <2>7
<1>8. CASE call.phase = "missing"
  <2>1. Result = 0
    BY <1>8 DEF Result
  <2>2. AtEnd(dirf[call.o], size) /\ Absent(call.name)
    BY <1>3, <1>8
  <2>3. ~Promised!Found(call.o, call.name)
    BY <1>4, <1>5, <2>2, AbsentIs
  <2> QED
    BY <1>1, <1>2, <1>3, <1>4, <1>5, <1>6, <2>1, <2>2, <2>3
<1> QED
  BY <1>1, <1>7, <1>8

(* Directory::iNumberOf returns.                                           *)
LEMMA INumberOfStep ==
    ASSUME DInv, INumberOfReturns
    PROVE  DInv' /\ Promised!INumberOf(call.o, call.name) /\ call.o \in Objects /\ call.name \in Names
<1>1. Looked("iNumberOf") /\ Returns(Result, NoFile) /\ UNCHANGED <<size, block>>
  BY DEF INumberOfReturns
<1>2. /\ Typed /\ Looking /\ call.method = "iNumberOf" /\ call.o \in Objects /\ call.name \in Names
      /\ Result \in Nat /\ AbsEntries = before.entries /\ AbsAtEnd = before.atEnd
      /\ Result # 0 => Promised!Found(call.o, call.name) /\ Promised!Number(call.name) = Result
      /\ Result = 0 => ~Promised!Found(call.o, call.name)
  BY <1>1, LookedIs
<1>3. PICK off : Laid(Content, before.entries, off)
  BY <1>1, LookedIs
<1>4. Content' = Content /\ size \in Nat /\ OnCall(size) /\ FileTyped' /\ size' = size
  BY <1>1, <1>2, BlocksHold DEF Content, Looking, Target, Typed, FileTyped
<1>5. /\ DInv' /\ AbsEntries' = before.entries /\ answer' = Result
      /\ AbsAtEnd' = before.atEnd \ {call.o}
  <2>1. FileOK(NoFile) /\ ~NoFile.open
    BY NewFileOK
  <2>2. Laid(Content', before.entries, off) /\ size' <= size
    BY <1>3, <1>4
  <2> QED
    BY <1>1, <1>2, <1>4, <2>1, <2>2, ReturnStep
<1>6. Promised!INumberOf(call.o, call.name)
  <2>1. UNCHANGED AbsEntries /\ AbsAtEnd' = AbsAtEnd \ {call.o}
    BY <1>2, <1>5
  <2>2. answer' = IF Promised!Found(call.o, call.name) THEN Promised!Number(call.name) ELSE 0
    BY <1>2, <1>5
  <2> QED
    BY <2>1, <2>2 DEF Promised!INumberOf, AbsEntries, AbsAtEnd
<1> QED
  BY <1>2, <1>5, <1>6
-----------------------------------------------------------------------------
(* Directory::addLeafName appends.                                         *)
LEMMA NewEntry ==
    ASSUME NEW n \in Names, NEW i \in Numbers
    PROVE  /\ [name |-> n, in |-> i] \in Entry /\ Bytes(n, i) \in Seq(Byte) /\ Len(Bytes(n, i)) \in Nat
           /\ \A c, es, off : Laid(c, es, off) =>
                \E of : Laid(c \o Bytes(n, i), Append(es, [name |-> n, in |-> i]), of)
<1> DEFINE e == [name |-> n, in |-> i]
<1>1. e \in Entry /\ e.name = n /\ e.in = i
  BY DirectoryFileAssumption DEF Entry, AllNames
<1> HIDE DEF e
<1>2. Bytes(n, i) \in Seq(Byte) /\ Len(Bytes(n, i)) \in Nat
  BY <1>1, BytesAre
<1>3. ASSUME NEW c, NEW es, NEW off, Laid(c, es, off)
      PROVE  Laid(c \o Bytes(n, i), Append(es, e), AppendedOff(c, es, off, e))
  BY <1>1, <1>3, LaidAppended
<1> QED
  BY <1>1, <1>2, <1>3 DEF e

LEMMA AddLeafNameAppendsStep ==
    ASSUME DInv, AddLeafNameAppends
    PROVE  DInv' /\ UNCHANGED absVars
<1> DEFINE rest == Bytes(call.name, call.in)
<1>1. /\ Looked("addLeafName") /\ Result = 0
      /\ call' = [phase |-> "fill", o |-> call.o, rest |-> rest]
      /\ UNCHANGED <<size, block, dirf, answer, before>>
  BY DEF AddLeafNameAppends
<1>2. /\ Typed /\ Looking /\ call.method = "addLeafName" /\ call.o \in Objects /\ call.name \in Names
      /\ call.phase # "idle" /\ Absent(call.name)
  BY <1>1, LookedIs
<1>3. PICK off : Laid(Content, before.entries, off)
  BY <1>1, LookedIs
<1>4. call.in \in Numbers /\ OnCall(size + Len(rest))
  BY <1>2 DEF Looking, Target
<1>5. rest \in Seq(Byte)
  BY <1>2, <1>4, NewEntry
<1>6. call' \in WriteCall /\ call'.phase = "fill" /\ call'.rest = rest /\ call'.o = call.o
  BY <1>1, <1>2, <1>5 DEF WriteCall
<1>7. Content' = Content /\ size' = size /\ before' = before /\ dirf' = dirf
  BY <1>1 DEF Content
<1>8. OnCall(size + Len(call.rest))'
  BY <1>4, <1>6, <1>7 DEF OnCall
<1>9. PICK n \in Names, i \in Numbers : n = call.name /\ i = call.in
  BY <1>2, <1>4
<1>10. Absent(n)'
  BY <1>2, <1>6, <1>7, <1>9 DEF Absent
<1>11. \E c, of : \E nn \in Names, ii \in Numbers :
         /\ Laid(c, before.entries, of)' /\ Absent(nn)'
         /\ (Content \o call.rest)' = c \o Bytes(nn, ii)
  <2>1. /\ Laid(Content, before'.entries, off)
        /\ Content' \o call'.rest = Content \o Bytes(n, i)
    BY <1>3, <1>6, <1>7, <1>9
  <2> QED
    BY <1>10, <2>1
<1>12. WriteInv'
  BY <1>6, <1>8, <1>11 DEF WriteInv
<1>13. Typed'
  BY <1>1, <1>2 DEF Typed, FileTyped
<1> QED
  BY <1>1, <1>2, <1>6, <1>12, <1>13, GoesOn DEF DInv

LEMMA AddLeafNameStep ==
    ASSUME DInv, AddLeafNameReturns
    PROVE  DInv' /\ \E o \in Objects, n \in Names, i \in Numbers : Promised!AddLeafName(o, n, i)
<1>1. Returns(answer, NoFile) /\ UNCHANGED <<size, block>>
      /\ ((Looked("addLeafName") /\ Result # 0) \/ (call.phase = "append" /\ call.rest = <<>>))
  <2>1. Returns(answer, NoFile) /\ UNCHANGED <<size, block>>
    BY DEF AddLeafNameReturns
  <2>2. (Looked("addLeafName") /\ Result # 0) \/ (call.phase = "append" /\ call.rest = <<>>)
    BY DEF AddLeafNameReturns
  <2> QED
    BY <2>1, <2>2
<1>2. Typed /\ answer \in Nat /\ FileTyped'
  BY <1>1 DEF DInv, Typed, FileTyped
<1>3. Content \in Seq(Byte) /\ Len(Content) = size /\ size \in Nat /\ Content' = Content /\ size' = size
  BY <1>1, <1>2, BlocksHold DEF Content
<1>4. FileOK(NoFile) /\ ~NoFile.open
  BY NewFileOK
<1>5. CASE Looked("addLeafName") /\ Result # 0
  <2>1. /\ Looking /\ call.method = "addLeafName" /\ call.o \in Objects /\ call.name \in Names
        /\ AbsEntries = before.entries /\ AbsAtEnd = before.atEnd
        /\ Promised!Found(call.o, call.name)
    BY <1>5, LookedIs
  <2>2. PICK off : Laid(Content, before.entries, off)
    BY <1>5, LookedIs
  <2>3. call.in \in Numbers /\ OnCall(Target) /\ Target = size + Len(Bytes(call.name, call.in))
    BY <2>1 DEF Looking, Target
  <2>4. Target \in Nat /\ size' <= Target
    BY <1>3, <2>1, <2>3, NewEntry
  <2>5. DInv' /\ AbsEntries' = before.entries /\ answer' = answer /\ AbsAtEnd' = before.atEnd \ {call.o}
    BY <1>1, <1>2, <1>3, <1>4, <2>2, <2>3, <2>4, ReturnStep
  <2>6. UNCHANGED AbsEntries /\ AbsAtEnd' = AbsAtEnd \ {call.o}
    BY <2>1, <2>5
  <2>7. Promised!AddLeafName(call.o, call.name, call.in)
    BY <2>1, <2>5, <2>6 DEF Promised!AddLeafName, AbsEntries, AbsAtEnd
  <2> QED
    BY <2>1, <2>3, <2>5, <2>7
<1>6. CASE call.phase = "append" /\ call.rest = <<>>
  <2>1. WriteInv
    BY <1>6, PhaseCases
  <2>2. PICK c, off : \E n \in Names, i \in Numbers :
          /\ Laid(c, before.entries, off) /\ Absent(n)
          /\ Content \o call.rest = c \o Bytes(n, i)
    BY <2>1 DEF WriteInv
  <2>3. PICK n \in Names, i \in Numbers :
          /\ Laid(c, before.entries, off) /\ Absent(n)
          /\ Content \o call.rest = c \o Bytes(n, i)
    BY <2>2
  <2>4. Content' = c \o Bytes(n, i)
    BY <1>3, <1>6, <2>3, ConcatEmptySeq
  <2>5. OnCall(size) /\ call.o \in Objects
    <3>1. size + Len(call.rest) = size
      BY <1>3, <1>6
    <3> QED
      BY <2>1, <3>1 DEF WriteInv, OnCall
  <2> DEFINE es == Append(before.entries, [name |-> n, in |-> i])
  <2>6. PICK of : Laid(Content', es, of)
    BY <2>3, <2>4, NewEntry
  <2> HIDE DEF es
  <2>7. DInv' /\ AbsEntries' = es /\ answer' = answer /\ AbsAtEnd' = before.atEnd \ {call.o}
    <3>1. size' <= size
      BY <1>3
    <3> QED
      BY <1>1, <1>2, <1>3, <1>4, <2>5, <2>6, <3>1, ReturnStep
  <2>8. before.entries \in Seq(Entry) /\ call.phase # "idle"
    BY <1>6, <2>3 DEF Laid
  <2>9. ~Promised!Found(call.o, n)
    BY <2>3, <2>8, AbsentIs
  <2>10. AbsEntries = before.entries /\ AbsAtEnd = before.atEnd
    BY <2>8 DEF AbsEntries, AbsAtEnd
  <2>11. AbsEntries' = Append(AbsEntries, [name |-> n, in |-> i]) /\ AbsAtEnd' = AbsAtEnd \ {call.o}
    BY <2>7, <2>10 DEF es
  <2>12. Promised!AddLeafName(call.o, n, i)
    BY <2>7, <2>9, <2>11 DEF Promised!AddLeafName, AbsEntries, AbsAtEnd
  <2> QED
    BY <2>5, <2>7, <2>12
<1> QED
  BY <1>1, <1>5, <1>6

(* File::appendBytes, a part of the bytes.                                 *)
LEMMA WriteStep ==
    ASSUME Typed, WriteInv, NEW n \in 0 .. Len(call.rest), size' = size + n,
           call' = [call EXCEPT !.phase = "append", !.rest = Rest(@, n)],
           UNCHANGED <<answer, before>>, block' \in [0 .. MaxBlocks - 1 -> Block],
           Holds(block', Content \o SubSeq(call.rest, 1, n)),
           NEW buf \in Block, dirf' \in {dirf, [dirf EXCEPT ![call.o].fileBuf = buf]},
           Rest(call.rest, n) # <<>> => size' % BSZ = 0
    PROVE  DInv' /\ UNCHANGED absVars
<1> DEFINE o == call.o
           rest == call.rest
           d == Content \o SubSeq(rest, 1, n)
           m == MaxBlocks * BSZ
<1>1. /\ call \in WriteCall /\ OnCall(size + Len(rest)) /\ rest \in Seq(Byte) /\ o \in Objects
      /\ dirf \in [Objects -> FileType] /\ \A q \in Objects : FileOK(dirf[q])
  BY DEF WriteInv, WriteCall, OnCall, Typed
<1>2. Content \in Seq(Byte) /\ Len(Content) = size /\ size \in Nat
  BY BlocksHold
<1>3. /\ Rest(rest, n) \in Seq(Byte) /\ Len(Rest(rest, n)) = Len(rest) - n
      /\ d \in Seq(Byte) /\ Len(d) = size + n /\ d \o Rest(rest, n) = Content \o rest
  <2>1. /\ Content \in Seq(Byte) /\ rest \in Seq(Byte) /\ n \in 0 .. Len(rest)
        /\ Len(Content) = size
    BY <1>1, <1>2
  <2> HIDE DEF rest
  <2>2. /\ Rest(rest, n) \in Seq(Byte) /\ Len(Rest(rest, n)) = Len(rest) - n
        /\ Content \o SubSeq(rest, 1, n) \in Seq(Byte)
        /\ Len(Content \o SubSeq(rest, 1, n)) = Len(Content) + n
        /\ (Content \o SubSeq(rest, 1, n)) \o Rest(rest, n) = Content \o rest
    BY <2>1, RestSplit
  <2> QED
    BY <2>1, <2>2
<1>4. /\ call' \in WriteCall /\ call'.phase = "append" /\ call'.o = o /\ call'.rest = Rest(rest, n)
  BY <1>1, <1>3 DEF WriteCall
<1>5. size' \in 0 .. m /\ size' + Len(call'.rest) = size + Len(rest)
  <2>1. size + Len(rest) <= m /\ Len(rest) \in Nat /\ m \in Nat
    BY <1>1, Widths DEF OnCall
  <2> DEFINE l == Len(rest)
  <2>2. l \in Nat /\ n \in 0 .. l /\ size + l <= m /\ size \in Nat /\ m \in Nat
        /\ size' = size + n /\ Len(call'.rest) = l - n
    BY <1>2, <1>3, <1>4, <2>1
  <2> HIDE DEF m, l
  <2>3. size' \in 0 .. m /\ size' + Len(call'.rest) = size + l
    BY <2>2
  <2> QED
    BY <2>3 DEF l
<1>6. FileTyped'
  BY <1>5 DEF FileTyped
<1>7. Content' = d
  BY <1>3, ContentIs DEF Content
<1>8. /\ dirf' \in [Objects -> FileType] /\ \A q \in Objects \ {o} : dirf'[q] = dirf[q]
      /\ dirf'[o].open = dirf[o].open /\ FileOK(dirf'[o])
  <2>1. CASE dirf' = dirf
    BY <1>1, <2>1
  <2>2. CASE dirf' = [dirf EXCEPT ![o].fileBuf = buf]
    <3> DEFINE g == [dirf[o] EXCEPT !.fileBuf = buf]
    <3>1. dirf[o] \in FileType /\ FileOK(dirf[o])
      BY <1>1
    <3>2. g \in FileType /\ g.open = dirf[o].open /\ g.xNextByte = dirf[o].xNextByte
          /\ g.nBytesInFileBuf = dirf[o].nBytesInFileBuf
      BY <3>1 DEF FileType
    <3>3. dirf' = [dirf EXCEPT ![o] = g]
      BY <1>1, <2>2
    <3> HIDE DEF g
    <3>4. FileOK(g)
      BY <3>1, <3>2 DEF FileOK
    <3> QED
      BY <1>1, <3>2, <3>3, <3>4
  <2> QED
    BY <2>1, <2>2
<1>9. Typed'
  BY <1>1, <1>6, <1>8 DEF Typed
<1>10. OnCall(size + Len(call.rest))'
  BY <1>1, <1>4, <1>5, <1>8 DEF OnCall
<1>11. PICK c, off : \E i \in Names, k \in Numbers :
         /\ Laid(c, before.entries, off) /\ Absent(i) /\ Content \o rest = c \o Bytes(i, k)
  BY DEF WriteInv
<1>12. PICK i \in Names, k \in Numbers :
         /\ Laid(c, before.entries, off) /\ Absent(i) /\ Content \o rest = c \o Bytes(i, k)
  BY <1>11
<1>14. /\ Laid(c, before.entries, off)' /\ Absent(i)'
       /\ (Content \o call.rest)' = c \o Bytes(i, k)
  <2>1. Content' \o call'.rest = Content \o rest
    BY <1>3, <1>4, <1>7
  <2>2. Absent(i)'
    BY <1>4, <1>12 DEF Absent
  <2> QED
    BY <1>12, <2>1, <2>2
<1>15. WriteInv'
  <2>1. \E cc, of : \E ii \in Names, kk \in Numbers :
          /\ Laid(cc, before.entries, of)' /\ Absent(ii)'
          /\ (Content \o call.rest)' = cc \o Bytes(ii, kk)
    BY <1>14, SMTT(20), ZenonT(30) DEF Absent
  <2>2. call'.rest # <<>> => size' % BSZ = 0
    BY <1>4
  <2> QED
    BY <1>4, <1>10, <2>1, <2>2 DEF WriteInv
<1>16. call.phase # "idle" /\ call'.phase # "idle"
  BY <1>1, <1>4 DEF WriteCall
<1> QED
  BY <1>9, <1>15, <1>16, GoesOn DEF DInv

LEMMA FillLastBlockStep ==
    ASSUME DInv, FillLastBlock
    PROVE  DInv' /\ UNCHANGED absVars
<1> DEFINE j == size % BSZ
           b == size \div BSZ
           n == FillOf(size, Len(call.rest))
           last == NBlocks(size) - 1
           buf == Filled(block[last], j, n, call.rest)
           d == Content \o SubSeq(call.rest, 1, n)
<1>1. /\ call.phase = "fill"
      /\ call' = [call EXCEPT !.phase = "append", !.rest = Rest(@, n)]
      /\ block' = (IF j = 0 THEN block ELSE [block EXCEPT ![last] = buf])
      /\ dirf' = (IF j = 0 THEN dirf ELSE [dirf EXCEPT ![call.o].fileBuf = buf])
      /\ size' = size + n /\ UNCHANGED <<answer, before>>
  BY DEF FillLastBlock
<1>2. Typed /\ WriteInv
  BY <1>1, PhaseCases DEF DInv
<1>3. call.rest \in Seq(Byte) /\ Len(call.rest) \in Nat
  BY <1>2 DEF WriteInv, WriteCall
<1>4. /\ Content \in Seq(Byte) /\ Len(Content) = size /\ size \in Nat
      /\ \A k \in Nat : HoldsBlock(block, k, Content)
  BY <1>2, BlocksHold
<1>5. /\ n \in 0 .. Len(call.rest) /\ (j = 0 => n = 0) /\ (n # 0 => n <= BSZ - j)
      /\ n < Len(call.rest) => (size + n) % BSZ = 0
  BY <1>3, <1>4, FillOfBounds, FillAddsNoBlock
<1>6. j \in Places /\ b \in Nat /\ size = b * BSZ + j /\ BSZ \in Nat /\ j + n <= BSZ
  <2>1. j \in 0 .. BSZ - 1 /\ b \in Nat /\ size = b * BSZ + j
    BY <1>4, Division
  <2> HIDE DEF n, j, b
  <2> QED
    BY <1>5, <2>1, Widths DEF Places
<1> HIDE DEF j, b
<1>7. Rest(call.rest, n) # <<>> => size' % BSZ = 0
  <2>1. Rest(call.rest, n) \in Seq(Byte) /\ Len(Rest(call.rest, n)) = Len(call.rest) - n
    BY <1>3, <1>5, RestSplit
  <2> HIDE DEF n
  <2>2. Rest(call.rest, n) # <<>> => Len(call.rest) - n # 0
    BY <2>1, EmptySeq
  <2>3. Rest(call.rest, n) # <<>> => n < Len(call.rest)
    BY <1>3, <1>5, <2>2
  <2> QED
    BY <1>1, <1>5, <2>3
<1>8. block \in [0 .. MaxBlocks - 1 -> Block] /\ size <= MaxBlocks * BSZ
  BY <1>2 DEF Typed, FileTyped
<1>9. CASE j = 0
  <2>1. n = 0 /\ block' = block /\ dirf' = dirf
    BY <1>1, <1>5, <1>9
  <2>2. d = Content
    <3>1. SubSeq(call.rest, 1, 0) = <<>>
      BY SubSeqEmpty
    <3> QED
      BY <1>4, <2>1, <3>1, ConcatEmptySeq
  <2>3. Holds(block', d)
    BY <1>4, <2>1, <2>2 DEF Holds
  <2>4. ZeroBlock \in Block
    BY DEF ZeroBlock, Block, Byte
  <2> HIDE DEF n
  <2> QED
    BY <1>1, <1>2, <1>5, <1>7, <1>8, <2>1, <2>3, <2>4, WriteStep
<1>10. CASE j # 0
  <2>1. last = b
    <3> DEFINE q == b * BSZ
               N == NBlocks(size)
    <3>1. q \in Nat /\ size = q + j /\ (b + 1) * BSZ = q + BSZ /\ j \in 1 .. BSZ - 1 /\ BSZ \in Nat
      BY <1>6, <1>10, Widths DEF Places
    <3> HIDE DEF q
    <3>2. q < size /\ ~(q + BSZ < size)
      BY <3>1
    <3>3. N \in Nat /\ b < N /\ ~(b + 1 < N)
      <4>1. N \in Nat /\ \A k \in Nat : k < N <=> k * BSZ < size
        BY <1>4, BlocksOf
      <4>2. b < N <=> q < size
        BY <1>6, <4>1 DEF q
      <4>3. b + 1 < N <=> q + BSZ < size
        BY <1>6, <3>1, <4>1
      <4> QED
        BY <3>2, <4>1, <4>2, <4>3
    <3> HIDE DEF N
    <3> QED
      BY <1>6, <3>3 DEF N
  <2>2. b \in 0 .. MaxBlocks - 1
    <3> DEFINE q == b * BSZ
               m == MaxBlocks * BSZ
    <3>1. q \in Nat /\ q < size /\ size <= m /\ m \in Nat
      BY <1>6, <1>8, <1>10, Widths DEF Places
    <3> HIDE DEF q, m
    <3>2. q < m
      BY <1>4, <3>1
    <3>3. ~(MaxBlocks < b) /\ b # MaxBlocks
      BY <1>6, <3>2, NextMultiple, Widths DEF q, m
    <3> QED
      BY <1>6, <3>3, Widths
  <2>3. buf \in Block /\ block[last] \in Block
    <3>1. block[last] \in Block /\ j \in Nat
      BY <1>6, <1>8, <2>1, <2>2 DEF Places
    <3> QED
      BY <1>3, <1>5, <3>1, FilledIsBlock
  <2>4. block' \in [0 .. MaxBlocks - 1 -> Block] /\ block'[b] = buf
        /\ \A k \in Nat : k < b => block'[k] = block[k]
    <3>1. block' = [block EXCEPT ![b] = buf]
      BY <1>1, <1>10, <2>1
    <3> HIDE DEF buf
    <3> QED
      BY <1>8, <2>2, <2>3, <3>1
  <2>5. \A x \in 0 .. j - 1 : block[b][x] = Content[b * BSZ + x + 1]
    <3> SUFFICES ASSUME NEW x \in 0 .. j - 1 PROVE block[b][x] = Content[b * BSZ + x + 1]
      OBVIOUS
    <3>1. x \in Places /\ b * BSZ + x < Len(Content)
      <4> DEFINE q == b * BSZ
      <4>1. q \in Nat /\ size = q + j /\ j \in 0 .. BSZ - 1
        BY <1>6, Widths DEF Places
      <4> HIDE DEF q
      <4>2. x \in 0 .. BSZ - 1 /\ q + x < size
        BY <1>6, <4>1
      <4> QED
        BY <1>4, <4>2 DEF Places, q
    <3> QED
      BY <1>4, <1>6, <3>1 DEF HoldsBlock
  <2>6. Holds(block', d)
    <3>1. Holds(block, Content) /\ block'[b] = Filled(block[b], j, n, call.rest)
      BY <1>4, <2>1, <2>4 DEF Holds
    <3> HIDE DEF n, buf
    <3>2. /\ n \in 0 .. Len(call.rest) /\ j \in Places /\ b \in Nat /\ Len(Content) = b * BSZ + j
          /\ j + n <= BSZ
      BY <1>4, <1>5, <1>6
    <3>3. \A k \in Nat : k < b => block'[k] = block[k]
      BY <2>4
    <3> QED
      BY <1>3, <1>4, <2>5, <3>1, <3>2, <3>3, FilledHolds
  <2>7. dirf' = [dirf EXCEPT ![call.o].fileBuf = buf]
    BY <1>1, <1>10
  <2> HIDE DEF n, buf
  <2> QED
    BY <1>1, <1>2, <1>5, <1>7, <2>3, <2>4, <2>6, <2>7, WriteStep
<1> QED
  BY <1>9, <1>10

LEMMA AppendOneBlockStep ==
    ASSUME DInv, AppendOneBlock
    PROVE  DInv' /\ UNCHANGED absVars
<1> DEFINE rest == call.rest
           n == Min({BSZ, Len(rest)})
           b == NBlocks(size)
           buf == Filled(dirf[call.o].fileBuf, 0, n, rest)
           full == NBlocks(size) = MaxBlocks
           d == Content \o SubSeq(rest, 1, n)
           m == MaxBlocks * BSZ
<1>1. /\ call.phase = "append" /\ rest # <<>>
      /\ call' = [call EXCEPT !.rest = Rest(@, n)]
      /\ dirf' = (IF full THEN dirf ELSE [dirf EXCEPT ![call.o].fileBuf = buf])
      /\ block' = (IF full THEN block ELSE [block EXCEPT ![b] = buf])
      /\ size' = (IF full THEN size ELSE size + n)
      /\ UNCHANGED <<answer, before>>
  BY DEF AppendOneBlock
<1>2. Typed /\ WriteInv
  BY <1>1, PhaseCases DEF DInv
<1>3. /\ call \in WriteCall /\ rest \in Seq(Byte) /\ Len(rest) \in Nat \ {0} /\ call.o \in Objects
      /\ size + Len(rest) <= m /\ size % BSZ = 0 /\ m \in Nat
  <2>1. call \in WriteCall /\ rest \in Seq(Byte) /\ call.o \in Objects /\ size + Len(rest) <= m
        /\ size % BSZ = 0
    BY <1>1, <1>2 DEF WriteInv, WriteCall, OnCall
  <2> QED
    BY <1>1, <2>1, EmptySeq, Widths
<1>4. /\ Content \in Seq(Byte) /\ Len(Content) = size /\ size \in Nat
      /\ \A k \in Nat : HoldsBlock(block, k, Content)
  BY <1>2, BlocksHold
<1>5. /\ n \in 0 .. Len(rest) /\ n <= BSZ /\ n \in Nat /\ (n = BSZ \/ n = Len(rest))
      /\ BSZ \in Nat \ {0}
  BY <1>3, MinOfTwo, Widths
<1> HIDE DEF n
<1>6. b \in Nat /\ b * BSZ = size
  BY <1>3, <1>4, WholeBlocks, BlocksOf
<1> HIDE DEF b
<1>7. b \in 0 .. MaxBlocks - 1 /\ ~full
  <2> DEFINE q == b * BSZ
  <2>1. q < m
    <3> HIDE DEF m
    <3> QED
      BY <1>3, <1>4, <1>6
  <2>2. ~(MaxBlocks < b) /\ b # MaxBlocks
    BY <1>6, <2>1, NextMultiple, Widths
  <2> QED
    BY <1>6, <2>2, Widths DEF b
<1>8. block \in [0 .. MaxBlocks - 1 -> Block] /\ dirf[call.o].fileBuf \in Block
  BY <1>2, <1>3 DEF Typed, FileTyped, FileType
<1>9. buf \in Block
  BY <1>3, <1>5, <1>8, FilledIsBlock
<1>10. block' = [block EXCEPT ![b] = buf] /\ dirf' = [dirf EXCEPT ![call.o].fileBuf = buf]
       /\ size' = size + n
  BY <1>1, <1>7
<1>11. block' \in [0 .. MaxBlocks - 1 -> Block] /\ block'[b] = buf
       /\ \A k \in Nat : k < b => block'[k] = block[k]
  <2> HIDE DEF buf
  <2> QED
    BY <1>7, <1>8, <1>9, <1>10
<1>12. Holds(block', d)
  <2>1. 0 \in Places /\ Len(Content) = b * BSZ + 0 /\ 0 + n <= BSZ
    BY <1>4, <1>5, <1>6 DEF Places
  <2>2. \A x \in 0 .. 0 - 1 : dirf[call.o].fileBuf[x] = Content[b * BSZ + x + 1]
    OBVIOUS
  <2>3. Holds(block, Content)
    BY <1>4 DEF Holds
  <2>4. block'[b] = Filled(dirf[call.o].fileBuf, 0, n, rest) /\ rest \in Seq(Byte)
        /\ n \in 0 .. Len(rest)
    BY <1>3, <1>5, <1>11
  <2>5. Content \in Seq(Byte) /\ b \in Nat /\ \A k \in Nat : k < b => block'[k] = block[k]
    BY <1>4, <1>6, <1>11
  <2>6. PICK s : s = Content
    OBVIOUS
  <2>7. PICK t : t = rest
    OBVIOUS
  <2>8. PICK old : old = dirf[call.o].fileBuf
    OBVIOUS
  <2>9. PICK blk : blk = block'
    OBVIOUS
  <2>10. Holds(blk, s \o SubSeq(t, 1, n))
    <3>1. /\ s \in Seq(Byte) /\ t \in Seq(Byte) /\ n \in 0 .. Len(t) /\ b \in Nat
          /\ 0 \in Places /\ Len(s) = b * BSZ + 0 /\ 0 + n <= BSZ
          /\ \A x \in 0 .. 0 - 1 : old[x] = s[b * BSZ + x + 1]
          /\ Holds(block, s) /\ \A k \in Nat : k < b => blk[k] = block[k]
          /\ blk[b] = Filled(old, 0, n, t)
      <4> HIDE DEF rest, buf
      <4> QED
        BY <2>1, <2>2, <2>3, <2>4, <2>5, <2>6, <2>7, <2>8, <2>9
    <3> HIDE DEF d, buf, rest
    <3> QED
      BY <3>1, FilledHolds
  <2> QED
    BY <2>6, <2>7, <2>9, <2>10
<1>13. Rest(rest, n) # <<>> => size' % BSZ = 0
  <2> SUFFICES ASSUME Rest(rest, n) # <<>> PROVE size' % BSZ = 0
    OBVIOUS
  <2>1. Rest(rest, n) \in Seq(Byte) /\ Len(Rest(rest, n)) = Len(rest) - n
    <3>1. PICK t : t = rest
      OBVIOUS
    <3>2. t \in Seq(Byte) /\ n \in 0 .. Len(t) /\ Content \in Seq(Byte)
      BY <1>3, <1>4, <1>5, <3>1
    <3>3. Rest(t, n) \in Seq(Byte) /\ Len(Rest(t, n)) = Len(t) - n
      <4> HIDE DEF rest
      <4> QED
        BY <3>2, RestSplit
    <3> QED
      BY <3>1, <3>3
  <2>2. n # Len(rest)
    BY <1>3, <2>1, EmptySeq
  <2>3. size' = (b + 1) * BSZ + 0 /\ b + 1 \in Nat /\ 0 \in 0 .. BSZ - 1
    <3>1. (b + 1) * BSZ = b * BSZ + BSZ
      BY <1>5, <1>6
    <3> QED
      BY <1>4, <1>5, <1>6, <1>10, <2>2, <3>1
  <2>4. ((b + 1) * BSZ + 0) % BSZ = 0
    BY <2>3, DivisionUnique
  <2> QED
    BY <2>3, <2>4
<1>14. call' = [call EXCEPT !.phase = "append", !.rest = Rest(@, n)]
  BY <1>1, <1>3 DEF WriteCall
<1> HIDE DEF buf
<1> QED
  BY <1>1, <1>2, <1>5, <1>9, <1>10, <1>11, <1>12, <1>13, <1>14, WriteStep
-----------------------------------------------------------------------------
(* Directory::deleteFile shifts.  The block being written is one the       *)
(* cursor has already left or has in its buffer.                           *)
LEMMA WithoutIs ==
    ASSUME NEW c \in Seq(Byte), NEW p \in Nat, NEW n \in Nat, p + n <= Len(c)
    PROVE  /\ Without(c, p, n) \in Seq(Byte) /\ Len(Without(c, p, n)) = Len(c) - n
           /\ \A j \in 1 .. Len(c) - n : Without(c, p, n)[j] = IF j <= p THEN c[j] ELSE c[j + n]
<1>1. Without(c, p, n) = [j \in 1 .. Len(c) - n |-> IF j <= p THEN c[j] ELSE c[j + n]]
  BY DEF Without
<1>2. ASSUME NEW j \in 1 .. Len(c) - n PROVE (IF j <= p THEN c[j] ELSE c[j + n]) \in Byte
  <2>1. j \in 1 .. Len(c) /\ j + n \in 1 .. Len(c)
    OBVIOUS
  <2> QED
    BY <2>1, ElementOfSeq
<1>3. Len(c) - n \in Nat
  OBVIOUS
<1> QED
  BY <1>1, <1>2, <1>3

(* What Deleting says of the numbers.                                      *)
LEMMA DeletingIs ==
    ASSUME NEW c, NEW off, NEW k, Deleting(c, off, k)
    PROVE  /\ c \in Seq(Byte) /\ Len(c) = size /\ size \in Nat /\ before.entries \in Seq(Entry)
           /\ k \in 1 .. Len(before.entries)
           /\ off[k] \in Nat /\ call.n \in Nat \ {0} /\ off[k + 1] = off[k] + call.n
           /\ off[k + 1] <= size
           /\ call.in \in Nat /\ call.in # 0 /\ before.entries[k].name \in Names
<1> DEFINE es == before.entries
           e == es[k]
<1>1. /\ Laid(c, es, off) /\ Len(c) = size /\ k \in 1 .. Len(es) /\ call.n = EntryLen(e)
      /\ e.name \in Names /\ call.in = e.in
  BY DEF Deleting
<1>2. c \in Seq(Byte) /\ es \in Seq(Entry) /\ Len(es) \in Nat /\ size \in Nat
  BY <1>1 DEF Laid
<1>3. k \in 1 .. Len(es) + 1 /\ k + 1 \in 1 .. Len(es) + 1
  BY <1>1, <1>2
<1>4. off[k] \in 0 .. Len(c) /\ off[k + 1] \in 0 .. Len(c) /\ e \in Entry
      /\ off[k + 1] = off[k] + EntryLen(e)
  BY <1>1, <1>3, OffsetsGrow
<1> HIDE DEF e
<1>5. EntryLen(e) \in Nat \ {0} /\ e.in \in Nat /\ e.in # 0
  <2>1. /\ e.in \in 1 .. 255 /\ EntryLen(e) \in Nat /\ EntryLen(e) > Len(e.name) + 1
        /\ Len(e.name) \in Nat
    BY <1>4, EntryLengths
  <2>2. EntryLen(e) \in Nat \ {0}
    <3> DEFINE l == EntryLen(e)
               j == Len(e.name)
    <3>1. l \in Nat /\ l > j + 1 /\ j \in Nat
      BY <2>1
    <3> HIDE DEF l, j
    <3>2. l \in Nat \ {0}
      BY <3>1
    <3> QED
      BY <3>2 DEF l
  <2>3. \A i \in 1 .. 255 : i \in Nat /\ i # 0
    OBVIOUS
  <2> QED
    BY <2>1, <2>2, <2>3, Zenon
<1> QED
  BY <1>1, <1>2, <1>4, <1>5 DEF e

LEMMA DeleteFileShiftsStep ==
    ASSUME DInv, DeleteFileShifts
    PROVE  DInv' /\ UNCHANGED absVars
<1> DEFINE o == call.o
           f == dirf[o]
           es == before.entries
           fromx == (f.nBlocksSoFar - 1) * BSZ + f.xNextByte
           n == Len(call.name) + 1 + IWidth
           tox == fromx - n
           q == tox \div BSZ
           x == tox % BSZ
<1>1. /\ Looked("deleteFile") /\ Result # 0
      /\ call' = [phase |-> "shift", o |-> o, in |-> Result, n |-> n,
                  left |-> size - fromx, toBlockNum |-> q, toBlockx |-> x, localBuf |-> block[q]]
      /\ UNCHANGED <<size, block, dirf, answer, before>>
  BY DEF DeleteFileShifts
<1>2. /\ Typed /\ Looking /\ call.method = "deleteFile" /\ o \in Objects /\ call.name \in Names
      /\ call.phase # "idle" /\ FileOK(f) /\ Result \in Nat /\ o \notin before.atEnd
  BY <1>1, LookedIs
<1>3. PICK off : /\ Laid(Content, es, off)
                 /\ \E k \in 1 .. Len(es) : /\ NoneBefore(es, k, call.name)
                                            /\ es[k].name = call.name /\ es[k].in = Result
                                            /\ ReadsAt(f, off[k + 1], Content)
  BY <1>1, LookedIs
<1>4. PICK k \in 1 .. Len(es) : /\ NoneBefore(es, k, call.name)
                                /\ es[k].name = call.name /\ es[k].in = Result
                                /\ ReadsAt(f, off[k + 1], Content)
  BY <1>3
<1>5. /\ Content \in Seq(Byte) /\ Len(Content) = size /\ size \in Nat
      /\ \A b \in Nat : HoldsBlock(block, b, Content)
  BY <1>2, BlocksHold
<1>6. n = EntryLen(es[k])
  BY <1>4 DEF EntryLen
<1>7. /\ es \in Seq(Entry) /\ off[k] \in Nat /\ n \in Nat \ {0} /\ off[k + 1] = off[k] + n
      /\ off[k + 1] <= size
  <2>1. es \in Seq(Entry) /\ k \in 1 .. Len(es) + 1 /\ k + 1 \in 1 .. Len(es) + 1
    BY <1>3 DEF Laid
  <2>2. off[k] \in 0 .. Len(Content) /\ off[k + 1] \in 0 .. Len(Content) /\ es[k] \in Entry
        /\ off[k + 1] = off[k] + EntryLen(es[k])
    BY <1>3, <2>1, OffsetsGrow
  <2>3. Len(call.name) \in Nat
    BY <1>2, NameBytes DEF AllNames
  <2> QED
    BY <1>5, <1>6, <2>1, <2>2, <2>3, Widths
<1> HIDE DEF n
<1>8. off[k + 1] = fromx /\ f.nBlocksSoFar >= 1 /\ f.nBlocksSoFar \in Nat
  <2>1. off[k + 1] # 0
    BY <1>7
  <2>2. f.nBlocksSoFar \in Nat
    BY <1>2, Widths DEF FileOK, FileType
  <2> QED
    BY <1>4, <2>1, <2>2 DEF ReadsAt
<1> HIDE DEF fromx
<1>9. tox = off[k] /\ fromx \in Nat /\ fromx <= size /\ tox < size
  BY <1>5, <1>7, <1>8
<1> HIDE DEF tox
<1>10. q \in Nat /\ x \in Places /\ off[k] = q * BSZ + x
  BY <1>7, <1>9, Division DEF Places
<1> HIDE DEF q, x
<1>11. q \in 0 .. MaxBlocks - 1 /\ block[q] \in Block
  <2> DEFINE y == q * BSZ
             m == MaxBlocks * BSZ
  <2>1. y \in Nat /\ y + x < size /\ size <= m /\ m \in Nat /\ x \in Nat
    BY <1>2, <1>9, <1>10, Widths DEF Typed, FileTyped, Places
  <2> HIDE DEF y, m
  <2>2. y < m
    BY <1>5, <2>1
  <2>3. ~(MaxBlocks < q) /\ q # MaxBlocks
    BY <1>10, <2>2, NextMultiple, Widths DEF y, m
  <2>4. q \in 0 .. MaxBlocks - 1
    BY <1>10, <2>3, Widths
  <2> QED
    BY <1>2, <2>4 DEF Typed, FileTyped
<1>12. size - fromx \in Nat
  BY <1>5, <1>9
<1>13. /\ call' \in ShiftCall /\ call'.phase = "shift" /\ call'.o = o /\ call'.in = Result
       /\ call'.n = n /\ call'.left = size - fromx /\ call'.toBlockNum = q /\ call'.toBlockx = x
       /\ call'.localBuf = block[q]
  BY <1>1, <1>2, <1>7, <1>10, <1>11, <1>12 DEF ShiftCall
<1>14. OnCall(size)'
  <2>1. OnCall(size)
    BY <1>2 DEF Looking, Target
  <2> QED
    BY <1>1, <1>13, <2>1 DEF OnCall
<1>15. Deleting(Content, off, k)'
  BY <1>1, <1>2, <1>3, <1>4, <1>5, <1>6, <1>13 DEF Deleting, Content
<1> DEFINE d == Without(Content, off[k], n)
<1>16. Len(d) = size - n /\ \A j \in 1 .. off[k] : d[j] = Content[j] /\ j \in 1 .. size
  <2>1. off[k] + n <= Len(Content)
    BY <1>5, <1>7
  <2>2. /\ Len(d) = Len(Content) - n
        /\ \A j \in 1 .. Len(Content) - n : d[j] = IF j <= off[k] THEN Content[j] ELSE Content[j + n]
    <3> DEFINE a == off[k]
    <3>1. a \in Nat /\ n \in Nat /\ a + n <= Len(Content) /\ Content \in Seq(Byte)
      BY <1>5, <1>7, <2>1
    <3> HIDE DEF a
    <3> QED
      BY <3>1, WithoutIs DEF a
  <2>3. \A j \in 1 .. off[k] : j \in 1 .. Len(Content) - n /\ j <= off[k] /\ j \in 1 .. size
    BY <1>5, <1>7
  <2> HIDE DEF d
  <2> QED
    BY <1>5, <2>2, <2>3
<1> HIDE DEF d
<1>17. ASSUME NEW b \in Nat, b < q PROVE HoldsBlock(block, b, d)
  <2> SUFFICES ASSUME NEW j \in Places, b * BSZ + j < Len(d) PROVE block[b][j] = d[b * BSZ + j + 1]
    BY DEF HoldsBlock
  <2> DEFINE y == b * BSZ
             z == q * BSZ
  <2>1. y \in Nat /\ y + BSZ <= z /\ z \in Nat /\ off[k] = z + x
    BY <1>10, <1>17, NextMultiple, Widths
  <2> HIDE DEF y, z
  <2>2. y + j + 1 \in 1 .. off[k] /\ y + j < size
    <3> DEFINE a == off[k]
    <3>1. a \in Nat /\ a + n <= size /\ n \in Nat \ {0} /\ a = z + x /\ x \in Nat
          /\ j \in 0 .. BSZ - 1 /\ BSZ \in Nat /\ size \in Nat
      BY <1>5, <1>7, <1>10, <2>1, Widths DEF Places
    <3> HIDE DEF a
    <3>2. y + j + 1 \in 1 .. a /\ y + j < size
      BY <2>1, <3>1
    <3> QED
      BY <3>2 DEF a
  <2>3. block[b][j] = Content[y + j + 1]
    BY <1>5, <2>2 DEF HoldsBlock, y
  <2> QED
    BY <1>16, <2>2, <2>3 DEF y
<1>18. ASSUME NEW j \in 0 .. x - 1 PROVE block[q][j] = d[q * BSZ + j + 1]
  <2> DEFINE z == q * BSZ
  <2>1. z \in Nat /\ off[k] = z + x
    BY <1>10, Widths
  <2> HIDE DEF z
  <2>2. z + j + 1 \in 1 .. off[k] /\ z + j < size /\ j \in Places
    <3> DEFINE a == off[k]
    <3>1. a \in Nat /\ a + n <= size /\ n \in Nat \ {0} /\ a = z + x /\ x \in 0 .. BSZ - 1
          /\ BSZ \in Nat /\ size \in Nat
      BY <1>5, <1>7, <1>10, <2>1, Widths DEF Places
    <3> HIDE DEF a
    <3>2. z + j + 1 \in 1 .. a /\ z + j < size /\ j \in 0 .. BSZ - 1
      BY <2>1, <3>1
    <3> QED
      BY <3>2 DEF a, Places
  <2>3. block[q][j] = Content[z + j + 1]
    BY <1>5, <1>10, <2>2 DEF HoldsBlock, z
  <2> QED
    BY <1>16, <2>2, <2>3 DEF z
<1>19. Shifted(Content, off, k)'
  <2>1. call'.left <= size - off[k + 1]
    BY <1>8, <1>12, <1>13
  <2>2. size - call'.left = call'.n + call'.toBlockNum * BSZ + call'.toBlockx
        /\ size - call'.left = off[k + 1]
    <3> DEFINE z == q * BSZ
    <3>1. z \in Nat /\ off[k] = z + x /\ x \in Nat
      BY <1>10, Widths DEF Places
    <3> HIDE DEF z
    <3>2. size - (size - fromx) = n + z + x /\ size - (size - fromx) = off[k + 1]
      BY <1>5, <1>7, <1>8, <1>9, <3>1
    <3> QED
      BY <1>13, <3>2 DEF z
  <2>3. Content' = Content
    BY <1>1 DEF Content
  <2> QED
    BY <1>1, <1>4, <1>5, <1>13, <1>17, <1>18, <2>1, <2>2, <2>3 DEF Shifted, d
<1>20. ShiftInv'
  <2>1. Deleting(Content, off, k)' /\ Shifted(Content, off, k)' /\ Content' = Content
    BY <1>1, <1>15, <1>19 DEF Content
  <2>2. PICK c : c = Content
    OBVIOUS
  <2>4. (\E cc, of, i : Deleting(cc, of, i) /\ Shifted(cc, of, i))'
    <3>1. Deleting(c, off, k)' /\ Shifted(c, off, k)'
      BY <2>1, <2>2 DEF Deleting, Shifted
    <3> QED
      BY <3>1
  <2>3. o \notin before'.atEnd
    BY <1>1, <1>2
  <2> QED
    BY <1>13, <1>14, <2>4, <2>3 DEF ShiftInv
<1>21. Typed'
  BY <1>1, <1>2 DEF Typed, FileTyped
<1> QED
  BY <1>1, <1>2, <1>13, <1>20, <1>21, GoesOn DEF DInv

(* A byte of the file is in one of its blocks.                             *)
LEMMA BlockBelow ==
    ASSUME FileTyped, NEW q \in Nat, NEW x \in Nat, q * BSZ + x < size
    PROVE  q \in 0 .. MaxBlocks - 1
<1> DEFINE y == q * BSZ
           m == MaxBlocks * BSZ
<1>1. y \in Nat /\ y + x < size /\ size \in Nat /\ size <= m /\ m \in Nat
  BY Widths DEF FileTyped
<1> HIDE DEF y, m
<1>2. y < m
  BY <1>1
<1>3. ~(MaxBlocks < q) /\ q # MaxBlocks
  BY <1>2, NextMultiple, Widths DEF y, m
<1> QED
  BY <1>3, Widths

(* What has been read is in blocks the cursor has been given.              *)
LEMMA ReadBelow ==
    ASSUME NEW f, FileOK(f), NEW c, NEW p \in Nat, p # 0, ReadsAt(f, p, c),
           NEW q \in Nat, q * BSZ < p
    PROVE  q < f.nBlocksSoFar
<1> DEFINE b == f.nBlocksSoFar
           y == q * BSZ
           z == b * BSZ
           v == (b - 1) * BSZ
<1>1. /\ b \in Nat /\ b >= 1 /\ p = v + f.xNextByte /\ f.xNextByte \in Nat /\ f.xNextByte <= BSZ
  BY Widths DEF FileOK, FileType, ReadsAt
<1>2. y \in Nat /\ z \in Nat /\ v \in Nat /\ v + BSZ <= z /\ y < p
  <2>1. b - 1 \in Nat
    BY <1>1
  <2>2. v + BSZ <= z
    BY <1>1, <2>1, NextMultiple
  <2> QED
    BY <1>1, <2>1, <2>2, Widths
<1> HIDE DEF y, z, v
<1>3. y < z
  BY <1>1, <1>2, Widths
<1>4. ~(b < q) /\ b # q
  BY <1>1, <1>2, <1>3, NextMultiple, Widths DEF y, z
<1> QED
  BY <1>1, <1>4

(* Directory::deletePrecedingBytes, one byte.                              *)
LEMMA ShiftStep ==
    ASSUME DInv, Shift
    PROVE  DInv' /\ UNCHANGED absVars
<1> DEFINE o == call.o
           f == dirf[o]
           g == Advanced(f)
           n == call.n
           q == call.toBlockNum
           x == call.toBlockx
           p == size - call.left
           byte == NextByte(f)
           buf == [call.localBuf EXCEPT ![x] = byte]
           full == x + 1 = BSZ
           q2 == IF full THEN q + 1 ELSE q
           x2 == IF full THEN 0 ELSE x + 1
<1>1. /\ call.phase = "shift" /\ call.left > 0
      /\ dirf' = [dirf EXCEPT ![o] = Advanced(@)]
      /\ block' = (IF full THEN [block EXCEPT ![q] = buf] ELSE block)
      /\ call' = [call EXCEPT !.left = @ - 1, !.localBuf = buf,
                              !.toBlockNum = IF full THEN @ + 1 ELSE @,
                              !.toBlockx = IF full THEN 0 ELSE @ + 1]
      /\ UNCHANGED <<size, answer, before>>
  BY DEF Shift, Full
<1>2. Typed /\ ShiftInv
  BY <1>1, PhaseCases DEF DInv
<1>3. call \in ShiftCall /\ OnCall(size) /\ o \notin before.atEnd /\ o \in Objects
  BY <1>2 DEF ShiftInv, OnCall
<1>4. PICK c, off, k : Deleting(c, off, k) /\ Shifted(c, off, k)
  BY <1>2 DEF ShiftInv
<1> DEFINE a == off[k]
           d == Without(c, a, n)
<1>5. /\ c \in Seq(Byte) /\ Len(c) = size /\ size \in Nat
      /\ a \in Nat /\ n \in Nat \ {0} /\ off[k + 1] = a + n /\ a + n <= size
  <2>1. /\ c \in Seq(Byte) /\ Len(c) = size /\ size \in Nat
        /\ off[k] \in Nat /\ call.n \in Nat \ {0} /\ off[k + 1] = off[k] + call.n
        /\ off[k + 1] <= size
    BY <1>4, DeletingIs
  <2> QED
    BY <2>1
<1>6. /\ q \in Nat /\ x \in 0 .. BSZ - 1 /\ call.left \in Nat \ {0} /\ call.localBuf \in Block
  BY <1>1, <1>3 DEF ShiftCall, Places
<1>7. /\ call.left <= size - off[k + 1] /\ p = n + q * BSZ + x
      /\ ReadsAt(f, p, c)
      /\ \A b \in Nat : b >= f.nBlocksSoFar => HoldsBlock(block, b, c)
      /\ \A b \in Nat : b < q => HoldsBlock(block, b, d)
      /\ \A j \in 0 .. x - 1 : call.localBuf[j] = d[q * BSZ + j + 1]
  BY <1>4 DEF Shifted
<1> DEFINE y == q * BSZ
<1>8. y \in Nat /\ p = n + y + x
  BY <1>6, <1>7, Widths
<1> HIDE DEF y, a
<1>9. p \in Nat /\ p < size /\ a <= y + x /\ y + x + 1 <= size - n /\ y + x < size
  <2> DEFINE l == call.left
             w == off[k + 1]
  <2>1. /\ l \in Nat \ {0} /\ l <= size - w /\ w = a + n /\ size \in Nat /\ a \in Nat
        /\ n \in Nat \ {0} /\ y \in Nat /\ x \in Nat /\ size - l = n + y + x
    BY <1>5, <1>6, <1>7, <1>8
  <2> HIDE DEF l, w, n, x
  <2>2. /\ size - l \in Nat /\ size - l < size /\ a <= y + x /\ y + x + 1 <= size - n
        /\ y + x < size
    BY <2>1
  <2> QED
    BY <2>2 DEF l
<1> HIDE DEF p
<1>92. /\ p \in Nat /\ p = n + y + x /\ n \in Nat \ {0} /\ y \in Nat /\ x \in Nat /\ a \in Nat
       /\ size \in Nat /\ Len(c) = size
  BY <1>5, <1>6, <1>8, <1>9
<1>10. FileTyped /\ FileOK(f) /\ f.open
  BY <1>2, <1>3 DEF Typed, OnCall
<1>11. byte = c[p + 1] /\ ReadsAt(g, p + 1, c)
  <2> HIDE DEF f
  <2> QED
    BY <1>5, <1>7, <1>9, <1>10, ReadsOn
<1>12. FileOK(g) /\ g.open /\ byte \in Byte /\ g.nBlocksSoFar >= f.nBlocksSoFar
  BY <1>10, AdvancedOK
<1>13. /\ d \in Seq(Byte) /\ Len(d) = size - n /\ d[y + x + 1] = byte
  <2>1. /\ d \in Seq(Byte) /\ Len(d) = Len(c) - n
        /\ \A j \in 1 .. Len(c) - n : d[j] = IF j <= a THEN c[j] ELSE c[j + n]
    <3>1. a \in Nat /\ n \in Nat /\ a + n <= Len(c) /\ c \in Seq(Byte)
      BY <1>5
    <3> HIDE DEF n
    <3> QED
      BY <3>1, WithoutIs
  <2>2. y + x + 1 \in 1 .. Len(c) - n /\ ~(y + x + 1 <= a) /\ y + x + 1 + n = p + 1
    <3> HIDE DEF n, x
    <3> QED
      BY <1>9, <1>92
  <2> HIDE DEF d, n, x
  <2> QED
    BY <1>5, <1>11, <2>1, <2>2
<1> HIDE DEF d, g, byte
<1>14. q \in 0 .. MaxBlocks - 1 /\ q < g.nBlocksSoFar
  <2>1. x \in Nat /\ q * BSZ + x < size
    BY <1>6, <1>9 DEF y
  <2>2. p + 1 \in Nat /\ p + 1 # 0 /\ y < p + 1
    <3> HIDE DEF n, x
    <3> QED
      BY <1>92
  <2> QED
    BY <1>6, <1>10, <1>11, <1>12, <2>1, <2>2, BlockBelow, ReadBelow DEF y
<1>15. buf \in Block /\ \A j \in 0 .. x : buf[j] = d[y + j + 1]
  <2>1. buf \in Block
    BY <1>6, <1>12 DEF Block, Places
  <2>2. ASSUME NEW j \in 0 .. x PROVE buf[j] = d[y + j + 1]
    <3>1. CASE j = x
      BY <1>6, <1>13, <3>1 DEF Block, Places
    <3>2. CASE j # x
      <4>1. j \in 0 .. x - 1
        BY <1>6, <2>2, <3>2
      <4>2. buf[j] = call.localBuf[j]
        BY <1>6, <3>2, <4>1 DEF Block, Places
      <4> QED
        BY <1>7, <4>1, <4>2 DEF y
    <3> QED
      BY <3>1, <3>2
  <2> QED
    BY <2>1, <2>2
<1> HIDE DEF buf
<1>16. block' \in [0 .. MaxBlocks - 1 -> Block]
       /\ \A b \in 0 .. MaxBlocks - 1 : b # q => block'[b] = block[b]
  BY <1>1, <1>10, <1>14, <1>15 DEF FileTyped
<1>17. full => block'[q] = buf
  BY <1>1, <1>10, <1>14 DEF FileTyped
<1>18. ASSUME NEW b \in Nat, b >= g.nBlocksSoFar PROVE HoldsBlock(block', b, c)
  <2> SUFFICES ASSUME NEW j \in Places, b * BSZ + j < Len(c) PROVE block'[b][j] = c[b * BSZ + j + 1]
    BY DEF HoldsBlock
  <2>1. b \in 0 .. MaxBlocks - 1
    <3>1. j \in Nat /\ b * BSZ + j < size
      BY <1>5 DEF Places
    <3> QED
      BY <1>10, <3>1, BlockBelow
  <2>2. b # q /\ b >= f.nBlocksSoFar
    BY <1>10, <1>12, <1>14, <1>18 DEF FileOK, FileType
  <2>3. block'[b] = block[b]
    BY <1>16, <2>1, <2>2
  <2>4. block[b][j] = c[b * BSZ + j + 1]
    BY <1>7, <2>2 DEF HoldsBlock
  <2> QED
    BY <2>3, <2>4
<1>19. ASSUME NEW b \in Nat, b < q PROVE HoldsBlock(block', b, d)
  <2>1. block'[b] = block[b]
    <3>1. b \in 0 .. MaxBlocks - 1 /\ b # q
      BY <1>14, <1>19, Widths
    <3> QED
      BY <1>16, <3>1
  <2>2. HoldsBlock(block, b, d)
    BY <1>7, <1>19
  <2> QED
    BY <2>1, <2>2 DEF HoldsBlock
<1>20. full => HoldsBlock(block', q, d)
  <2> SUFFICES ASSUME full, NEW j \in Places PROVE block'[q][j] = d[y + j + 1]
    BY DEF HoldsBlock, y
  <2>1. j \in 0 .. x
    BY <1>6, Widths DEF Places
  <2> QED
    BY <1>15, <1>17, <2>1
<1>21. q2 \in Nat /\ x2 \in Places /\ q2 * BSZ + x2 = y + x + 1
  <2>1. (q + 1) * BSZ = q * BSZ + BSZ
    BY <1>6, Widths
  <2> QED
    <3>1. CASE full
      <4> DEFINE y2 == (q + 1) * BSZ
      <4>1. y2 = y + BSZ /\ y \in Nat
        BY <1>92, <2>1 DEF y
      <4> HIDE DEF y2
      <4>2. q2 = q + 1 /\ x2 = 0 /\ y2 + 0 = y + x + 1
        BY <1>6, <3>1, <4>1, Widths
      <4> QED
        BY <1>6, <4>2, Widths DEF Places, y2
    <3>2. CASE ~full
      <4>1. q2 = q /\ x2 = x + 1
        BY <3>2
      <4>2. x + 1 \in 0 .. BSZ - 1 /\ y + (x + 1) = y + x + 1 /\ q * BSZ = y
        <5>1. q * BSZ = y
          BY DEF y
        <5> HIDE DEF x, q, q2, x2
        <5> QED
          BY <1>6, <1>92, <3>2, Widths, <5>1
      <4> HIDE DEF q2, x2
      <4> QED
        BY <1>6, <4>1, <4>2 DEF Places
    <3> QED
      BY <3>1, <3>2
<1>22. \A b \in Nat : b < q2 => HoldsBlock(block', b, d)
  <2> SUFFICES ASSUME NEW b \in Nat, b < q2 PROVE HoldsBlock(block', b, d)
    OBVIOUS
  <2>1. b < q \/ (full /\ b = q)
    BY <1>6
  <2> HIDE DEF full, q2
  <2> QED
    BY <1>19, <1>20, <2>1
<1>23. \A j \in 0 .. x2 - 1 : buf[j] = d[q2 * BSZ + j + 1]
  <2> SUFFICES ASSUME NEW j \in 0 .. x2 - 1 PROVE buf[j] = d[q2 * BSZ + j + 1]
    OBVIOUS
  <2>1. q2 = q /\ j \in 0 .. x
    BY <1>6
  <2> QED
    BY <1>15, <2>1 DEF y
<1>24. /\ call' \in ShiftCall /\ call'.phase = "shift" /\ call'.o = o /\ call'.in = call.in
       /\ call'.n = n /\ call'.left = call.left - 1 /\ call'.toBlockNum = q2 /\ call'.toBlockx = x2
       /\ call'.localBuf = buf
  <2>1. call' = [call EXCEPT !.left = call.left - 1, !.localBuf = buf,
                             !.toBlockNum = q2, !.toBlockx = x2]
    BY <1>1, <1>3 DEF ShiftCall
  <2>2. call.left - 1 \in Nat
    BY <1>6
  <2> HIDE DEF q2, x2
  <2> QED
    BY <1>3, <1>15, <1>21, <2>1, <2>2 DEF ShiftCall
<1>25. dirf'[o] = g /\ (\A r \in Objects \ {o} : dirf'[r] = dirf[r])
       /\ dirf' \in [Objects -> FileType] /\ \A r \in Objects : FileOK(dirf'[r])
  <2>1. g \in FileType
    BY <1>12 DEF FileOK
  <2>2. dirf' = [dirf EXCEPT ![o] = g]
    BY <1>1 DEF g
  <2>3. dirf \in [Objects -> FileType] /\ \A r \in Objects : FileOK(dirf[r])
    BY <1>2 DEF Typed
  <2> QED
    BY <1>3, <1>12, <2>1, <2>2, <2>3
<1>26. Typed'
  BY <1>1, <1>2, <1>16, <1>25 DEF Typed, FileTyped
<1>27. OnCall(size)'
  BY <1>1, <1>3, <1>12, <1>24, <1>25 DEF OnCall
<1>28. Deleting(c, off, k)'
  BY <1>1, <1>4, <1>24 DEF Deleting
<1>29. Shifted(c, off, k)'
  <2>1. call'.left <= size' - off[k + 1]
    BY <1>1, <1>5, <1>6, <1>7, <1>24
  <2>2. size' - call'.left = p + 1 /\ p + 1 = n + q2 * BSZ + x2
    <3> DEFINE y2 == q2 * BSZ
    <3>1. y2 \in Nat /\ y2 + x2 = y + x + 1 /\ x2 \in Nat
      BY <1>21, Widths DEF Places
    <3> HIDE DEF y2, x2
    <3>2. p + 1 = n + y2 + x2
      <4> HIDE DEF n, x
      <4> QED
        BY <1>92, <3>1
    <3>3. size' - call'.left = p + 1
      BY <1>1, <1>5, <1>6, <1>24 DEF p
    <3> QED
      BY <3>2, <3>3 DEF y2
  <2>3. d = Without(c, off[k], call'.n)
    BY <1>24 DEF d, a
  <2> HIDE DEF q2, x2
  <2> QED
    BY <1>11, <1>18, <1>22, <1>23, <1>24, <1>25, <2>1, <2>2, <2>3 DEF Shifted
<1>30. ShiftInv'
  <2>1. (\E cc, of, i : Deleting(cc, of, i) /\ Shifted(cc, of, i))'
    BY <1>28, <1>29
  <2>2. call'.o \notin before'.atEnd
    BY <1>1, <1>3, <1>24
  <2> QED
    BY <1>24, <1>27, <2>1, <2>2 DEF ShiftInv
<1> QED
  BY <1>1, <1>24, <1>26, <1>30, GoesOn DEF DInv
-----------------------------------------------------------------------------
(* Directory::deleteFile returns, with the last block written ...          *)
LEMMA DeleteFileFoundStep ==
    ASSUME DInv, call.phase = "shift", call.left = 0, block' = Flushed(block),
           size' = size - call.n, Returns(call.in, dirf[call.o])
    PROVE  /\ DInv' /\ call.o \in Objects
           /\ \E n \in Names : Promised!DeleteFile(call.o, n)
<1> DEFINE o == call.o
           f == dirf[o]
           n == call.n
           q == call.toBlockNum
           x == call.toBlockx
           es == before.entries
<1>1. Typed /\ ShiftInv
  BY PhaseCases DEF DInv
<1>2. call \in ShiftCall /\ OnCall(size) /\ o \notin before.atEnd /\ o \in Objects
  BY <1>1 DEF ShiftInv, OnCall
<1>3. PICK c, off, k : Deleting(c, off, k) /\ Shifted(c, off, k)
  BY <1>1 DEF ShiftInv
<1> DEFINE a == off[k]
           d == Without(c, a, n)
           y == q * BSZ
           name == es[k].name
<1>4. /\ c \in Seq(Byte) /\ Len(c) = size /\ size \in Nat /\ es \in Seq(Entry)
      /\ k \in 1 .. Len(es)
      /\ a \in Nat /\ n \in Nat \ {0} /\ a + n <= size
      /\ call.in \in Nat /\ call.in # 0 /\ name \in Names
  <2>1. /\ c \in Seq(Byte) /\ Len(c) = size /\ size \in Nat /\ before.entries \in Seq(Entry)
        /\ k \in 1 .. Len(before.entries)
        /\ off[k] \in Nat /\ call.n \in Nat \ {0} /\ off[k + 1] = off[k] + call.n
        /\ off[k + 1] <= size
        /\ call.in \in Nat /\ call.in # 0 /\ before.entries[k].name \in Names
    BY <1>3, DeletingIs
  <2> QED
    BY <2>1
<1>5. /\ Laid(c, es, off) /\ NoneBefore(es, k, name) /\ call.in = es[k].in
      /\ n = EntryLen(es[k])
  BY <1>3 DEF Deleting
<1>6. /\ q \in Nat /\ x \in 0 .. BSZ - 1 /\ call.localBuf \in Block
  BY <1>2 DEF ShiftCall, Places
<1>7. /\ size = n + y + x /\ ReadsAt(f, size, c)
      /\ \A b \in Nat : b < q => HoldsBlock(block, b, d)
      /\ \A j \in 0 .. x - 1 : call.localBuf[j] = d[y + j + 1]
  <2>1. /\ size - 0 = n + y + x /\ ReadsAt(f, size - 0, c)
        /\ \A b \in Nat : b < q => HoldsBlock(block, b, d)
        /\ \A j \in 0 .. x - 1 : call.localBuf[j] = d[y + j + 1]
    BY <1>3 DEF Shifted
  <2>2. size - 0 = size
    BY <1>4
  <2> QED
    BY <2>1, <2>2
<1>8. y \in Nat /\ x \in Nat /\ x < BSZ /\ BSZ \in Nat
  BY <1>6, Widths
<1> HIDE DEF a, y, name
<1>9. d \in Seq(Byte) /\ Len(d) = size - n
  <2>1. a \in Nat /\ n \in Nat /\ a + n <= Len(c)
    BY <1>4
  <2> HIDE DEF n
  <2> QED
    BY <1>4, <2>1, WithoutIs
<1>10. d = Without(c, off[k], EntryLen(es[k]))
  BY <1>5 DEF a
<1>11. FileTyped /\ FileOK(f) /\ f.open
  BY <1>1, <1>2 DEF Typed, OnCall
<1> HIDE DEF d, f
<1>12. size - n = y + x /\ size - n \in Nat /\ size - n < size /\ y + x < size
  <2> HIDE DEF n, x
  <2> QED
    BY <1>4, <1>7, <1>8
<1>13. q \in 0 .. MaxBlocks - 1
  <2>1. x \in Nat /\ q * BSZ + x < size
    BY <1>8, <1>12 DEF y
  <2> HIDE DEF q, x
  <2> QED
    BY <1>6, <1>11, <2>1, BlockBelow
<1>14. /\ block' \in [0 .. MaxBlocks - 1 -> Block]
       /\ \A b \in 0 .. MaxBlocks - 1 : b # q => block'[b] = block[b]
       /\ x > 0 => block'[q] = call.localBuf
  BY <1>6, <1>8, <1>11, <1>13 DEF Flushed, FileTyped
<1>15. Holds(block', d)
  <2> SUFFICES ASSUME NEW b \in Nat, NEW j \in Places, b * BSZ + j < Len(d)
               PROVE  block'[b][j] = d[b * BSZ + j + 1]
    BY DEF Holds, HoldsBlock
  <2> DEFINE z == b * BSZ
  <2>1. z \in Nat /\ j \in 0 .. BSZ - 1 /\ z + j < y + x
    BY <1>8, <1>9, <1>12 DEF Places
  <2>2. CASE b < q
    <3>1. b \in 0 .. MaxBlocks - 1 /\ b # q
      BY <1>13, <2>2, Widths
    <3>2. block'[b] = block[b] /\ HoldsBlock(block, b, d)
      BY <1>7, <1>14, <2>2, <3>1
    <3> QED
      BY <3>2 DEF HoldsBlock
  <2>3. CASE b = q
    <3>1. z = y
      BY <2>3 DEF y
    <3> HIDE DEF z, x
    <3>2. j \in 0 .. x - 1 /\ x > 0
      BY <1>8, <2>1, <3>1
    <3>3. block'[q][j] = d[y + j + 1]
      BY <1>7, <1>14, <3>2
    <3> QED
      BY <2>3, <3>1, <3>3 DEF z
  <2>4. CASE b > q
    <3>1. y + BSZ <= z
      BY <1>6, <2>4, NextMultiple DEF y
    <3> HIDE DEF z, x
    <3> QED
      BY <1>8, <2>1, <3>1
  <2> QED
    BY <1>6, <2>2, <2>3, <2>4
<1>16. Content' = d /\ size' = Len(d)
  <2>1. ContentOf(Len(d), block') = d
    BY <1>9, <1>15, ContentIs
  <2> QED
    BY <1>9, <2>1 DEF Content
<1>17. FileTyped' /\ size' <= size /\ size' \in Nat
  <2>1. size' = size - n /\ size' \in Nat /\ size' < size /\ size \in 0 .. MaxBlocks * BSZ
    BY <1>11, <1>12 DEF FileTyped
  <2>2. size' \in 0 .. MaxBlocks * BSZ /\ size' <= size
    <3> DEFINE m == MaxBlocks * BSZ
    <3>1. m \in Nat
      BY Widths
    <3> HIDE DEF m, n
    <3>2. size' \in 0 .. m /\ size' <= size
      BY <1>4, <2>1, <3>1 DEF m
    <3> QED
      BY <3>2 DEF m
  <2> QED
    BY <1>14, <2>1, <2>2 DEF FileTyped
<1>18. AtEnd(f, size')
  <2>1. AtEnd(f, size)
    BY <1>4, <1>7, <1>11, ReadToEnd
  <2> DEFINE z == f.nBlocksSoFar * BSZ
  <2>2. z \in Nat /\ size <= z /\ Exhausted(f)
    BY <1>11, <2>1, Widths DEF AtEnd, FileOK, FileType
  <2> HIDE DEF z
  <2>3. size' <= z
    BY <1>4, <1>17, <2>2
  <2> QED
    BY <2>2, <2>3 DEF AtEnd, z
<1>19. Laid(Content', RemoveAt(es, k), RemovedOff(es, off, k))
  BY <1>4, <1>5, <1>10, <1>16, LaidRemoved
<1>20. /\ DInv' /\ AbsEntries' = RemoveAt(es, k) /\ answer' = call.in
       /\ AbsAtEnd' = before.atEnd \cup {o}
  <2>1. Returns(call.in, f) /\ size \in Nat
    BY <1>4 DEF f
  <2> HIDE DEF es
  <2> QED
    BY <1>1, <1>2, <1>4, <1>11, <1>17, <1>18, <1>19, <2>1, ReturnStep
<1>21. /\ Promised!Named(name) = k /\ Promised!Found(o, name)
       /\ Promised!Number(name) = call.in
  <2>1. call.phase # "idle" /\ es[k].name = name
    BY DEF name
  <2> QED
    BY <1>2, <1>4, <1>5, <2>1, FoundIs
<1>22. Promised!DeleteFile(o, name)
  <2>1. AbsEntries = es /\ AbsAtEnd = before.atEnd
    BY DEF AbsEntries, AbsAtEnd
  <2>2. AbsEntries' = Promised!RemoveAt(AbsEntries, Promised!Named(name))
    BY <1>20, <1>21, <2>1 DEF Promised!RemoveAt, RemoveAt
  <2> QED
    BY <1>20, <1>21, <2>1, <2>2 DEF Promised!DeleteFile, AbsEntries, AbsAtEnd
<1> QED
  BY <1>2, <1>4, <1>20, <1>22

(* ... or without having found the name.                                   *)
LEMMA DeleteFileMissingStep ==
    ASSUME DInv, Looked("deleteFile"), Result = 0, Returns(0, dirf[call.o]),
           UNCHANGED <<size, block>>
    PROVE  /\ DInv' /\ call.o \in Objects
           /\ \E n \in Names : Promised!DeleteFile(call.o, n)
<1>1. /\ Typed /\ Looking /\ call.method = "deleteFile" /\ call.o \in Objects /\ call.name \in Names
      /\ FileOK(dirf[call.o]) /\ dirf[call.o].open
      /\ AbsEntries = before.entries /\ AbsAtEnd = before.atEnd
      /\ ~Promised!Found(call.o, call.name) /\ AtEnd(dirf[call.o], size)
  BY LookedIs
<1>2. PICK off : Laid(Content, before.entries, off)
  BY LookedIs
<1>3. Content' = Content /\ size \in Nat /\ OnCall(size) /\ FileTyped' /\ size' = size
  BY <1>1, BlocksHold DEF Content, Looking, Target, Typed, FileTyped
<1>4. /\ DInv' /\ AbsEntries' = before.entries /\ answer' = 0
      /\ AbsAtEnd' = before.atEnd \cup {call.o}
  <2>1. PICK f : f = dirf[call.o]
    OBVIOUS
  <2>2. /\ Laid(Content', before.entries, off) /\ size' <= size /\ 0 \in Nat
        /\ Returns(0, f) /\ FileOK(f) /\ f.open /\ AtEnd(f, size')
    BY <1>1, <1>2, <1>3, <2>1
  <2> QED
    BY <1>1, <1>3, <2>2, ReturnStep
<1>5. Promised!DeleteFile(call.o, call.name)
  BY <1>1, <1>4 DEF Promised!DeleteFile, AbsEntries, AbsAtEnd
<1> QED
  BY <1>1, <1>4, <1>5

LEMMA DeleteFileStep ==
    ASSUME DInv, DeleteFileReturns
    PROVE  DInv' /\ \E o \in Objects, n \in Names : Promised!DeleteFile(o, n)
<1>1. CASE call.phase = "shift" /\ call.left = 0 /\ block' = Flushed(block)
           /\ size' = size - call.n /\ Returns(call.in, dirf[call.o])
  BY <1>1, DeleteFileFoundStep
<1>2. CASE Looked("deleteFile") /\ Result = 0 /\ Returns(0, dirf[call.o])
           /\ UNCHANGED <<size, block>>
  BY <1>2, DeleteFileMissingStep
<1> QED
  BY <1>1, <1>2 DEF DeleteFileReturns
-----------------------------------------------------------------------------
(* Every step.                                                             *)
LEMMA StutterStep ==
    ASSUME DInv, UNCHANGED vars
    PROVE  DInv' /\ UNCHANGED absVars
<1>1. UNCHANGED <<size, block, dirf, call, answer, before>>
  BY DEF vars
<1>2. Content' = Content
  BY <1>1 DEF Content
<1>3. Typed' = Typed
  BY <1>1 DEF Typed, FileTyped
<1>4. IdleInv' = IdleInv
  BY <1>1, <1>2 DEF IdleInv
<1>5. OnCall(size)' = OnCall(size)
  BY <1>1 DEF OnCall
<1>6. LookupInv' = LookupInv
  <2>1. Looking' = Looking
    BY <1>1 DEF Looking, OnCall, Target
  <2> QED
    BY <1>1, <1>2, <2>1 DEF LookupInv, IsAtName, IsAtNumber, HasFound, Absent
<1>7. WriteInv' = WriteInv
  BY <1>1, <1>2 DEF WriteInv, OnCall, Absent
<1>8. ShiftInv' = ShiftInv
  BY <1>1, <1>5 DEF ShiftInv, Deleting, Shifted
<1>9. DInv'
  BY <1>1, <1>3, <1>4, <1>6, <1>7, <1>8 DEF DInv
<1>10. Entries' = Entries
  BY <1>1, <1>2 DEF Entries
<1> QED
  BY <1>1, <1>9, <1>10 DEF absVars, AbsEntries, AbsAtEnd, OpenFiles

LEMMA NextStep ==
    ASSUME DInv, Next
    PROVE  DInv' /\ (Promised!Next \/ UNCHANGED absVars)
<1>1. ASSUME NEW o \in Objects, NamesEnd(o) PROVE DInv' /\ Promised!Next
  BY <1>1, NamesEndStep DEF Promised!Next
<1>2. ASSUME NEW o \in Objects, NEW n \in Names, Called("iNumberOf", o, n, 0)
      PROVE  DInv' /\ UNCHANGED absVars
  BY <1>2, CalledStep
<1>3. ASSUME NEW o \in Objects, NEW n \in Names, Called("deleteFile", o, n, 0)
      PROVE  DInv' /\ UNCHANGED absVars
  BY <1>3, CalledStep
<1>4. ASSUME NEW o \in Objects, NEW n \in Names, NEW i \in Numbers,
             NoneLeftBehind(o, n, i), DiskHasRoom(n, i), Called("addLeafName", o, n, i)
      PROVE  DInv' /\ UNCHANGED absVars
  <2>1. i \in Nat
    BY DirectoryFileAssumption
  <2> QED
    BY <1>4, <2>1, CalledStep
<1>5. CASE ReadName
  BY <1>5, ReadNameStep
<1>6. CASE ReadNumber
  BY <1>6, ReadNumberStep
<1>7. CASE INumberOfReturns
  BY <1>7, INumberOfStep DEF Promised!Next
<1>8. CASE AddLeafNameAppends
  BY <1>8, AddLeafNameAppendsStep
<1>9. CASE FillLastBlock
  BY <1>9, FillLastBlockStep
<1>10. CASE AppendOneBlock
  BY <1>10, AppendOneBlockStep
<1>11. CASE AddLeafNameReturns
  BY <1>11, AddLeafNameStep DEF Promised!Next
<1>12. CASE DeleteFileShifts
  BY <1>12, DeleteFileShiftsStep
<1>13. CASE Shift
  BY <1>13, ShiftStep
<1>14. CASE DeleteFileReturns
  BY <1>14, DeleteFileStep DEF Promised!Next
<1> QED
  BY <1>1, <1>2, <1>3, <1>4, <1>5, <1>6, <1>7, <1>8, <1>9, <1>10, <1>11, <1>12, <1>13, <1>14
     DEF Next

(* No size and no count is ever negative and no buffer is read past its    *)
(* end, whichever calls are made on whichever objects: getNextByte's       *)
(* cursor, appendBytes's blocks, deletePrecedingBytes's two places.        *)
THEOREM DirectoryTyped == Spec => []TypeOK
<1>1. Init => DInv
  BY DInvInitially
<1>2. DInv /\ [Next]_vars => DInv'
  BY NextStep, StutterStep
<1>3. DInv => TypeOK
  BY DInvTyped
<1> QED
  BY <1>1, <1>2, <1>3, PTL DEF Spec

(* iNumberOf, addLeafName and deleteFile do to the entries and to the      *)
(* cursors what DirectoryEntries promises, at once when they return: the   *)
(* bytes read, appended and shifted one by one through the buffers of      *)
(* class File lose, double or move none of another entry.                  *)
THEOREM DirectoryImplements == Spec => Implements
<1>1. Init => DInv /\ Promised!Init
  BY DInvInitially DEF Promised!Init, AbsEntries, AbsAtEnd, Dots
<1>2. DInv /\ [Next]_vars => DInv' /\ [Promised!Next]_absVars
  BY NextStep, StutterStep
<1> QED
  BY <1>1, <1>2, PTL DEF Spec, Implements, Promised!Spec, absVars, AbsEntries, AbsAtEnd
=============================================================================
