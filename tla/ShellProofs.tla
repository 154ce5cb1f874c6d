----------------------------- MODULE ShellProofs -----------------------------
(***************************************************************************)
(* TypeOK and Headed of Shell, and UniqueNames of CarefulShell, for any    *)
(* number of i-nodes, names, entries and links.                            *)
(*                                                                         *)
(* Headed and UniqueNames are inductive as they are, together with the     *)
(* types: a directory comes into use only by being zeroed and given its    *)
(* "." and "..", which no command can name, and from then on its entries   *)
(* change only by one put at the end or one taken out.  What a command has *)
(* to keep, each of the Directory methods it calls keeps.                  *)
(***************************************************************************)
EXTENDS CarefulShell, SequenceTheorems, WellFoundedInduction, TLAPS

AllNames == Names \cup {".", ".."}
DirEntry == [name : AllNames, in : InodeNumbers \ {0}]
Inode == [free : BOOLEAN, type : 0 .. 3, count : 0 .. MaxCount,
          entries : Seq(DirEntry), path : Names \cup {None}]
Tables == [InodeNumbers -> Inode]

(* Of an i-node: it is a directory in use; that is i-node d, it begins as  *)
(* directories do; it has no name twice; it does not have the name n.      *)
InUse(a) == ~a.free /\ a.type = iTypeDirectory
HeadOf(a, d) ==
    Len(a.entries) >= 2 /\ a.entries[1] = Entry(".", d) /\ a.entries[2].name = ".."
Distinct(a) ==
    \A j, k \in 1 .. Len(a.entries) : a.entries[j].name = a.entries[k].name => j = k
Lacks(a, n) == \A k \in 1 .. Len(a.entries) : a.entries[k].name # n

Good(t) == t \in Tables /\ \A d \in InodeNumbers \ {0} : InUse(t[d]) => HeadOf(t[d], d)
Unique(t) == \A d \in InodeNumbers \ {0} : InUse(t[d]) => Distinct(t[d])

\* From table t to u nothing has changed but entries of directory d.
OnlyEntries(t, u, d) ==
    \A i \in InodeNumbers :
      /\ u[i].free = t[i].free /\ u[i].type = t[i].type /\ u[i].count = t[i].count
      /\ u[i].path = t[i].path /\ (i # d => u[i] = t[i])
\* Nothing has changed but entries, and i-nodes that have been freed.
EntriesAndBits(t, u) ==
    \A i \in InodeNumbers :
      (t[i].free => u[i].free) /\ u[i].type = t[i].type /\ u[i].count = t[i].count
-----------------------------------------------------------------------------
LEMMA LeastNumber ==
    ASSUME NEW S \in SUBSET Nat, S # {}
    PROVE  Min(S) \in S /\ \A y \in S : Min(S) <= y
<1>1. PICK x \in S : \A y \in S : <<y, x>> \notin OpToRel(<, Nat)
  BY NatLessThanWellFounded, WFMin
<1>2. \A y \in S : ~(y < x)
  BY <1>1 DEF OpToRel
<1>3. \E z \in S : \A y \in S : z <= y
  BY <1>2
<1> QED
  BY <1>3, Zenon DEF Min

LEMMA GreatestNumber ==
    ASSUME NEW m \in Nat, NEW S \in SUBSET (1 .. m), S # {}
    PROVE  Max(S) \in S
<1> DEFINE T == {y \in Nat : \E x \in S : x = m - y}
<1>1. T \in SUBSET Nat /\ T # {}
  <2>1. PICK x \in S : TRUE
    OBVIOUS
  <2>2. m - x \in T
    <3>1. m - x \in Nat /\ x = m - (m - x)
      OBVIOUS
    <3> QED
      BY <3>1
  <2> QED
    BY <2>2
<1>2. Min(T) \in T /\ \A y \in T : Min(T) <= y
  BY <1>1, LeastNumber
<1>3. PICK x \in S : x = m - Min(T)
  BY <1>2
<1>4. \A y \in S : x >= y
  <2> SUFFICES ASSUME NEW y \in S PROVE x >= y
    OBVIOUS
  <2>1. m - y \in T
    <3>1. m - y \in Nat /\ y = m - (m - y)
      OBVIOUS
    <3> QED
      BY <3>1
  <2>2. Min(T) <= m - y /\ Min(T) \in Nat
    BY <1>2, <2>1
  <2> QED
    BY <1>3, <2>2
<1>5. \E z \in S : \A y \in S : z >= y
  BY <1>4
<1> QED
  BY <1>5, Zenon DEF Max

LEMMA NumbersTyped ==
    /\ NInodes \in Nat /\ InodeNumbers \subseteq Nat /\ 0 \in InodeNumbers /\ Root \in InodeNumbers
    /\ Root # 0 /\ MaxCount \in Nat
    /\ "." \notin Names /\ ".." \notin Names /\ None \notin Names
  BY NamesAssumption, BoundsAssumption DEF InodeNumbers, Root, Names

LEMMA NumberLess == \A i \in InodeNumbers : i \in Nat /\ i < NInodes
  BY NamesAssumption DEF InodeNumbers

LEMMA EntryTyped ==
    ASSUME NEW n \in AllNames, NEW in \in InodeNumbers \ {0}
    PROVE  Entry(n, in) \in DirEntry /\ Entry(n, in).name = n /\ Entry(n, in).in = in
  BY DEF Entry, DirEntry

(* Entries are looked up from the first. *)
LEMMA FirstIs ==
    ASSUME NEW t \in Tables, NEW d \in InodeNumbers, NEW n
    PROVE  LET k == FirstNamed(t, d, n)
               e == t[d].entries
           IN  /\ k \in 0 .. Len(e)
               /\ k = 0 => Lacks(t[d], n)
               /\ k # 0 => e[k].name = n
<1> DEFINE e == t[d].entries
           I == {i \in 1 .. Len(e) : e[i].name = n}
<1>1. e \in Seq(DirEntry) /\ Len(e) \in Nat
  BY DEF Tables, Inode
<1>2. FirstNamed(t, d, n) = IF I # {} THEN Min(I) ELSE 0
  BY DEF FirstNamed, SelectInSeq
<1>3. I \in SUBSET Nat
  OBVIOUS
<1>4. I # {} => Min(I) \in I
  BY <1>3, LeastNumber
<1>5. /\ I = {} => Lacks(t[d], n)
      /\ \A i \in I : i \in 1 .. Len(e) /\ e[i].name = n
  BY DEF Lacks
<1> HIDE DEF I
<1>6. /\ FirstNamed(t, d, n) \in 0 .. Len(e)
      /\ FirstNamed(t, d, n) = 0 => I = {}
      /\ FirstNamed(t, d, n) # 0 => e[FirstNamed(t, d, n)].name = n
  BY <1>1, <1>2, <1>4, <1>5
<1> QED
  BY <1>5, <1>6

LEMMA INumberIs ==
    ASSUME NEW t \in Tables, NEW d \in InodeNumbers, NEW n, NEW a \in BOOLEAN
    PROVE  LET in == INumberOf(t, d, a, n)
           IN  /\ in \in InodeNumbers
               /\ in = 0 /\ ~a => Lacks(t[d], n)
               /\ in # 0 => ~a /\ in = INumberOf(t, d, FALSE, n)
<1> DEFINE k == FirstNamed(t, d, n)
           e == t[d].entries
<1>1. e \in Seq(DirEntry) /\ Len(e) \in Nat
  BY DEF Tables, Inode
<1>2. /\ k \in 0 .. Len(e)
      /\ k = 0 => Lacks(t[d], n)
  BY FirstIs
<1>3. k # 0 => e[k].in \in InodeNumbers \ {0}
  <2> SUFFICES ASSUME k # 0 PROVE e[k].in \in InodeNumbers \ {0}
    OBVIOUS
  <2> HIDE DEF k, e
  <2>1. k \in 1 .. Len(e)
    BY <1>1, <1>2
  <2>2. e[k] \in DirEntry
    BY <1>1, <2>1, ElementOfSeq
  <2> QED
    BY <2>2 DEF DirEntry
<1>4. INumberOf(t, d, a, n) = IF a \/ k = 0 THEN 0 ELSE e[k].in
  BY DEF INumberOf
<1>5. INumberOf(t, d, FALSE, n) = IF k = 0 THEN 0 ELSE e[k].in
  BY DEF INumberOf
<1> HIDE DEF k, e
<1> QED
  BY <1>2, <1>3, <1>4, <1>5, NumbersTyped

LEMMA PointerIs ==
    ASSUME NEW t \in Tables, NEW d \in InodeNumbers, NEW n
    PROVE  DirectoryPointer(t, d, n) \in InodeNumbers
<1> DEFINE e == t[d].entries
           I == {i \in 1 .. Len(e) : e[i].name = n /\ t[e[i].in].type = iTypeDirectory}
           k == IF I # {} THEN Max(I) ELSE 0
<1>1. e \in Seq(DirEntry) /\ Len(e) \in Nat
  BY DEF Tables, Inode
<1>2. DirectoryPointer(t, d, n) = IF k = 0 THEN 0 ELSE e[k].in
  BY DEF DirectoryPointer, SelectLastInSeq
<1>3. I \in SUBSET (1 .. Len(e))
  OBVIOUS
<1> HIDE DEF I
<1>4. k # 0 => k \in 1 .. Len(e)
  BY <1>1, <1>3, GreatestNumber
<1>5. k # 0 => e[k] \in DirEntry
  BY <1>1, <1>4, ElementOfSeq
<1> HIDE DEF k
<1> QED
  BY <1>2, <1>5, NumbersTyped DEF DirEntry
-----------------------------------------------------------------------------
(* An entry is put at the end ... *)
LEMMA Appending ==
    ASSUME NEW a \in Inode, NEW e \in DirEntry, NEW b, b = [a EXCEPT !.entries = Append(@, e)]
    PROVE  /\ b \in Inode
           /\ b.free = a.free /\ b.type = a.type /\ b.count = a.count /\ b.path = a.path
           /\ \A d : HeadOf(a, d) => HeadOf(b, d)
           /\ Distinct(a) /\ Lacks(a, e.name) => Distinct(b)
<1> DEFINE s == a.entries
           m == Len(s)
<1>1. s \in Seq(DirEntry) /\ m \in Nat
  BY DEF Inode
<1>2. /\ Append(s, e) \in Seq(DirEntry) /\ Len(Append(s, e)) = m + 1
      /\ \A i \in 1 .. m + 1 : Append(s, e)[i] = IF i = m + 1 THEN e ELSE s[i]
  BY <1>1, AppendProperties
<1>3. /\ b \in Inode /\ b.entries = Append(s, e)
      /\ b.free = a.free /\ b.type = a.type /\ b.count = a.count /\ b.path = a.path
  BY <1>2 DEF Inode
<1> DEFINE r == b.entries
<1>4. Len(r) = m + 1 /\ \A i \in 1 .. m + 1 : r[i] = IF i = m + 1 THEN e ELSE s[i]
  BY <1>2, <1>3
<1>5. ASSUME NEW d, HeadOf(a, d) PROVE HeadOf(b, d)
  <2>1. m >= 2 /\ s[1] = Entry(".", d) /\ s[2].name = ".."
    BY <1>5 DEF HeadOf
  <2> HIDE DEF m, s, r
  <2>2. Len(r) >= 2 /\ r[1] = s[1] /\ r[2] = s[2]
    BY <1>1, <1>4, <2>1
  <2> QED
    BY <2>1, <2>2 DEF HeadOf, r
<1>6. ASSUME Distinct(a), Lacks(a, e.name) PROVE Distinct(b)
  <2>1. /\ \A j, k \in 1 .. m : s[j].name = s[k].name => j = k
        /\ \A k \in 1 .. m : s[k].name # e.name
    BY <1>6 DEF Distinct, Lacks
  <2> HIDE DEF m, s, r
  <2>2. \A j, k \in 1 .. Len(r) : r[j].name = r[k].name => j = k
    <3> SUFFICES ASSUME NEW j \in 1 .. m + 1, NEW k \in 1 .. m + 1, r[j].name = r[k].name
                 PROVE  j = k
      BY <1>4
    <3>1. j = m + 1 \/ j \in 1 .. m
      BY <1>1
    <3>2. k = m + 1 \/ k \in 1 .. m
      BY <1>1
    <3>3. /\ j \in 1 .. m => r[j] = s[j]
          /\ k \in 1 .. m => r[k] = s[k]
          /\ j = m + 1 => r[j] = e
          /\ k = m + 1 => r[k] = e
      BY <1>1, <1>4
    <3> QED
      BY <2>1, <3>1, <3>2, <3>3
  <2> QED
    BY <2>2 DEF Distinct, r
<1> QED
  BY <1>3, <1>5, <1>6

\* The entries left when entry k is taken out.
LEMMA RemovedIs ==
    ASSUME NEW s \in Seq(DirEntry), NEW k \in 1 .. Len(s), NEW r, r = Without(s, k)
    PROVE  /\ r \in Seq(DirEntry) /\ Len(r) = Len(s) - 1
           /\ \A i \in 1 .. Len(s) - 1 : r[i] = IF i < k THEN s[i] ELSE s[i + 1]
<1> DEFINE m == Len(s)
           x == SubSeq(s, 1, k - 1)
           y == SubSeq(s, k + 1, m)
<1>1. m \in Nat /\ k \in Nat /\ 1 <= k /\ k <= m
  OBVIOUS
<1>2. \A i \in 1 .. m : s[i] \in DirEntry
  BY <1>1, ElementOfSeq
<1> HIDE DEF m
<1>3. /\ x \in Seq(DirEntry) /\ Len(x) = k - 1
      /\ \A i \in 1 .. k - 1 : x[i] = s[i]
  <2>1. 1 \in Int /\ k - 1 \in Int /\ \A i \in 1 .. k - 1 : s[i] \in DirEntry
    BY <1>1, <1>2
  <2>2. /\ x \in Seq(DirEntry) /\ Len(x) = (IF 1 <= k - 1 THEN k - 1 - 1 + 1 ELSE 0)
        /\ \A i \in 1 .. k - 1 - 1 + 1 : x[i] = s[1 + i - 1]
    BY <2>1, SubSeqProperties
  <2> HIDE DEF x
  <2> QED
    BY <1>1, <2>2
<1>4. /\ y \in Seq(DirEntry) /\ Len(y) = m - k
      /\ \A i \in 1 .. m - k : y[i] = s[k + i]
  <2>1. k + 1 \in Int /\ m \in Int /\ \A i \in k + 1 .. m : s[i] \in DirEntry
    BY <1>1, <1>2
  <2>2. /\ y \in Seq(DirEntry) /\ Len(y) = (IF k + 1 <= m THEN m - (k + 1) + 1 ELSE 0)
        /\ \A i \in 1 .. m - (k + 1) + 1 : y[i] = s[(k + 1) + i - 1]
    BY <2>1, SubSeqProperties
  <2> HIDE DEF y
  <2> QED
    BY <1>1, <2>2
<1>5. /\ x \o y \in Seq(DirEntry) /\ Len(x \o y) = m - 1
      /\ \A i \in 1 .. m - 1 : (x \o y)[i] = IF i < k THEN s[i] ELSE s[i + 1]
  <2>1. /\ x \o y \in Seq(DirEntry) /\ Len(x \o y) = Len(x) + Len(y)
        /\ \A i \in 1 .. Len(x) + Len(y) : (x \o y)[i] = IF i <= Len(x) THEN x[i] ELSE y[i - Len(x)]
    BY <1>3, <1>4, ConcatProperties
  <2> HIDE DEF x, y
  <2>2. Len(x) + Len(y) = m - 1
    BY <1>1, <1>3, <1>4
  <2>3. ASSUME NEW i \in 1 .. m - 1 PROVE (x \o y)[i] = IF i < k THEN s[i] ELSE s[i + 1]
    <3>1. CASE i < k
      <4>1. i \in 1 .. k - 1 /\ i <= Len(x)
        BY <1>1, <1>3, <3>1
      <4> QED
        BY <1>3, <2>1, <2>2, <3>1, <4>1
    <3>2. CASE ~(i < k)
      <4>1. ~(i <= Len(x)) /\ i - Len(x) \in 1 .. m - k /\ k + (i - Len(x)) = i + 1
        BY <1>1, <1>3, <3>2
      <4>2. (x \o y)[i] = y[i - Len(x)]
        BY <2>1, <2>2, <4>1
      <4> QED
        BY <1>4, <3>2, <4>1, <4>2
    <3> QED
      BY <3>1, <3>2
  <2> QED
    BY <2>1, <2>2, <2>3
<1>6. r = x \o y
  BY DEF Without, RemoveAt, m
<1> HIDE DEF x, y
<1> QED
  BY <1>5, <1>6 DEF m

(* ... or one that is not "." or ".." is taken out. *)
LEMMA Removing ==
    ASSUME NEW a \in Inode, NEW k \in 1 .. Len(a.entries),
           NEW b, b = [a EXCEPT !.entries = Without(@, k)]
    PROVE  /\ b \in Inode
           /\ b.free = a.free /\ b.type = a.type /\ b.count = a.count /\ b.path = a.path
           /\ a.entries[k].name \notin {".", ".."} => \A d : HeadOf(a, d) => HeadOf(b, d)
           /\ Distinct(a) => Distinct(b) /\ Lacks(b, a.entries[k].name)
           /\ \A n : Lacks(a, n) => Lacks(b, n)
<1> DEFINE s == a.entries
           m == Len(s)
<1>1. s \in Seq(DirEntry) /\ m \in Nat /\ k \in Nat /\ 1 <= k /\ k <= m
  BY DEF Inode
<1> DEFINE r == b.entries
<1>2. /\ Without(s, k) \in Seq(DirEntry) /\ Len(Without(s, k)) = m - 1
      /\ \A i \in 1 .. m - 1 : Without(s, k)[i] = IF i < k THEN s[i] ELSE s[i + 1]
  BY <1>1, RemovedIs
<1> HIDE DEF s, m
<1>6. /\ b \in Inode /\ r = Without(s, k)
      /\ b.free = a.free /\ b.type = a.type /\ b.count = a.count /\ b.path = a.path
  BY <1>2 DEF Inode, s
<1>7. Len(r) = m - 1 /\ \A i \in 1 .. m - 1 : r[i] = IF i < k THEN s[i] ELSE s[i + 1]
  BY <1>2, <1>6
<1>8. ASSUME s[k].name \notin {".", ".."}, NEW d, HeadOf(a, d) PROVE HeadOf(b, d)
  <2>1. m >= 2 /\ s[1] = Entry(".", d) /\ s[2].name = ".."
    BY <1>8 DEF HeadOf, s, m
  <2>2. k # 1 /\ k # 2
    BY <1>8, <2>1 DEF Entry
  <2> HIDE DEF r
  <2>3. 1 \in 1 .. m - 1 /\ 2 \in 1 .. m - 1 /\ 1 < k /\ 2 < k
    BY <1>1, <2>2
  <2>4. Len(r) >= 2 /\ r[1] = s[1] /\ r[2] = s[2]
    BY <1>1, <1>7, <2>3
  <2> QED
    BY <2>1, <2>4 DEF HeadOf, r
<1>9. ASSUME Distinct(a) PROVE Distinct(b) /\ Lacks(b, s[k].name)
  <2>1. \A i, j \in 1 .. m : s[j].name = s[i].name => j = i
    BY <1>9 DEF Distinct, s, m
  <2> DEFINE g(i) == IF i < k THEN i ELSE i + 1
  <2> HIDE DEF r
  <2>2. \A i \in 1 .. m - 1 : g(i) \in 1 .. m /\ g(i) # k /\ r[i] = s[g(i)]
    BY <1>1, <1>7
  <2>3. \A i, j \in 1 .. m - 1 : g(i) = g(j) => i = j
    BY <1>1
  <2> HIDE DEF g
  <2>4. \A i, j \in 1 .. Len(r) : r[i].name = r[j].name => i = j
    BY <1>7, <2>1, <2>2, <2>3
  <2>5. \A i \in 1 .. Len(r) : r[i].name # s[k].name
    BY <1>1, <1>7, <2>1, <2>2
  <2> QED
    BY <2>4, <2>5 DEF Distinct, Lacks, r
<1>10. ASSUME NEW n, Lacks(a, n) PROVE Lacks(b, n)
  <2>1. \A i \in 1 .. m : s[i].name # n
    BY <1>10 DEF Lacks, s, m
  <2> HIDE DEF r
  <2>2. ASSUME NEW i \in 1 .. Len(r) PROVE r[i].name # n
    <3>1. i \in 1 .. m - 1 /\ i \in 1 .. m /\ i + 1 \in 1 .. m
      BY <1>1, <1>7
    <3> QED
      BY <1>7, <2>1, <3>1
  <2> QED
    BY <2>2 DEF Lacks, r
<1> QED
  BY <1>6, <1>8, <1>9, <1>10 DEF s
-----------------------------------------------------------------------------
(* What the methods of Directory keep.  Most of them change nothing but    *)
(* the entries of one directory, by one.                                   *)
LEMMA OneChanged ==
    ASSUME NEW t, Good(t), NEW d \in InodeNumbers, NEW b \in Inode,
           d # 0 /\ InUse(b) => HeadOf(b, d),
           NEW u, u = [t EXCEPT ![d] = b]
    PROVE  /\ Good(u)
           /\ Unique(t) /\ (d # 0 /\ InUse(b) => Distinct(b)) => Unique(u)
<1>1. t \in Tables /\ u \in Tables /\ \A i \in InodeNumbers : u[i] = IF i = d THEN b ELSE t[i]
  BY DEF Good, Tables
<1>2. \A i \in InodeNumbers \ {0} : InUse(u[i]) => HeadOf(u[i], i)
  BY <1>1 DEF Good
<1>3. Unique(t) /\ (d # 0 /\ InUse(b) => Distinct(b)) => Unique(u)
  BY <1>1 DEF Unique
<1> QED
  BY <1>1, <1>2, <1>3 DEF Good

LEMMA AddLeafNameKeeps ==
    ASSUME NEW t, Good(t), NEW d \in InodeNumbers, NEW n \in AllNames, NEW in \in InodeNumbers,
           NEW a \in BOOLEAN,
           NEW u, u = AddLeafName(t, d, a, n, in)
    PROVE  /\ Good(u)
           /\ ~a => (Unique(t) => Unique(u))
           /\ (d # 0 /\ InUse(t[d]) => Lacks(t[d], n)) => (Unique(t) => Unique(u))
           /\ OnlyEntries(t, u, d)
<1> DEFINE b == [t[d] EXCEPT !.entries = Append(@, Entry(n, in))]
<1>1. t \in Tables /\ t[d] \in Inode /\ (\A i \in InodeNumbers : t[i] \in Inode)
  BY DEF Good, Tables
<1>2. CASE in = 0 \/ INumberOf(t, d, a, n) # 0
  <2>1. u = t
    BY <1>2 DEF AddLeafName
  <2> QED
    BY <1>1, <2>1 DEF OnlyEntries
<1>3. CASE ~(in = 0 \/ INumberOf(t, d, a, n) # 0)
  <2>1. u = [t EXCEPT ![d] = b]
    BY <1>1, <1>3 DEF AddLeafName, Tables
  <2>2. Entry(n, in) \in DirEntry /\ Entry(n, in).name = n
    BY <1>3, EntryTyped
  <2>3. /\ b \in Inode
        /\ b.free = t[d].free /\ b.type = t[d].type /\ b.count = t[d].count /\ b.path = t[d].path
        /\ \A i : HeadOf(t[d], i) => HeadOf(b, i)
        /\ Distinct(t[d]) /\ Lacks(t[d], n) => Distinct(b)
    BY <1>1, <2>2, Appending
  <2>4. ~a => Lacks(t[d], n)
    BY <1>1, <1>3, INumberIs
  <2> HIDE DEF b
  <2>5. InUse(b) = InUse(t[d])
    BY <2>3 DEF InUse
  <2>6. /\ Good(u)
        /\ Unique(t) /\ (d # 0 /\ InUse(b) => Distinct(b)) => Unique(u)
    <3>1. d # 0 /\ InUse(b) => HeadOf(b, d)
      BY <2>3, <2>5 DEF Good
    <3> QED
      BY <2>1, <2>3, <3>1, OneChanged
  <2>7. \A i \in InodeNumbers : u[i] = IF i = d THEN b ELSE t[i]
    BY <1>1, <2>1 DEF Tables
  <2>8. OnlyEntries(t, u, d)
    BY <2>3, <2>7 DEF OnlyEntries
  <2>9. ASSUME ~a \/ (d # 0 /\ InUse(t[d]) => Lacks(t[d], n)), Unique(t)
        PROVE  Unique(u)
    BY <2>3, <2>4, <2>5, <2>6, <2>9 DEF Unique
  <2> QED
    BY <2>6, <2>8, <2>9
<1> QED
  BY <1>2, <1>3

LEMMA DeleteFileKeeps ==
    ASSUME NEW t, Good(t), NEW d \in InodeNumbers, NEW n \in Names, NEW flag \in BOOLEAN,
           NEW u, u = DeleteFile(t, d, n, flag)
    PROVE  /\ Good(u) /\ (Unique(t) => Unique(u))
           /\ Distinct(t[d]) => Lacks(u[d], n)
           /\ \A m : Lacks(t[d], m) => Lacks(u[d], m)
           /\ EntriesAndBits(t, u)
<1> DEFINE k == FirstNamed(t, d, n)
           in == t[d].entries[k].in
           b == [t[d] EXCEPT !.entries = Without(@, k)]
           r == [t EXCEPT ![d] = b]
<1>1. t \in Tables /\ t[d] \in Inode /\ (\A i \in InodeNumbers : t[i] \in Inode)
      /\ t[d].entries \in Seq(DirEntry)
  BY DEF Good, Tables, Inode
<1>2. /\ k \in 0 .. Len(t[d].entries) /\ (k = 0 => Lacks(t[d], n))
      /\ (k # 0 => t[d].entries[k].name = n)
  BY <1>1, FirstIs
<1>3. u = IF k = 0 THEN t ELSE IF flag THEN [r EXCEPT ![in].free = TRUE] ELSE r
  BY <1>1 DEF DeleteFile, SetFree, Tables
<1>4. CASE k = 0
  BY <1>1, <1>2, <1>3, <1>4 DEF EntriesAndBits
<1>5. CASE k # 0
  <2> HIDE DEF k, in
  <2>1. k \in 1 .. Len(t[d].entries)
    BY <1>1, <1>2, <1>5
  <2>2. in \in InodeNumbers
    <3>1. t[d].entries[k] \in DirEntry
      BY <1>1, <2>1, ElementOfSeq
    <3> QED
      BY <3>1 DEF DirEntry, in
  <2>3. n \notin {".", ".."}
    BY NumbersTyped
  <2>4. /\ b \in Inode
        /\ b.free = t[d].free /\ b.type = t[d].type /\ b.count = t[d].count /\ b.path = t[d].path
        /\ \A i : HeadOf(t[d], i) => HeadOf(b, i)
        /\ Distinct(t[d]) => Distinct(b) /\ Lacks(b, n)
        /\ \A m : Lacks(t[d], m) => Lacks(b, m)
    BY <1>1, <1>2, <1>5, <2>1, <2>3, Removing
  <2> HIDE DEF b
  <2>5. InUse(b) = InUse(t[d])
    BY <2>4 DEF InUse
  <2>6. Good(r) /\ (Unique(t) => Unique(r))
    <3>1. Unique(t) => (d # 0 /\ InUse(b) => Distinct(b))
      BY <2>4, <2>5 DEF Unique
    <3>2. d # 0 /\ InUse(b) => HeadOf(b, d)
      BY <2>4, <2>5 DEF Good
    <3>3. Good(r) /\ (Unique(t) /\ (d # 0 /\ InUse(b) => Distinct(b)) => Unique(r))
      BY <2>4, <3>2, OneChanged
    <3> QED
      BY <3>1, <3>3
  <2>7. /\ \A i \in InodeNumbers : r[i] = IF i = d THEN b ELSE t[i]
        /\ r \in Tables
    BY <1>1, <2>6 DEF Good, Tables
  <2> HIDE DEF r
  <2>8. /\ \A i \in InodeNumbers :
             /\ r[i].free => u[i].free
             /\ u[i].type = r[i].type /\ u[i].count = r[i].count /\ u[i].path = r[i].path
             /\ u[i].entries = r[i].entries
        /\ u \in Tables
    <3>1. CASE flag
      <4>1. u = [r EXCEPT ![in].free = TRUE]
        BY <1>3, <1>5, <3>1
      <4> QED
        <5> DEFINE c == [r[in] EXCEPT !.free = TRUE]
        <5>1. c \in Inode /\ c.free /\ c.type = r[in].type /\ c.count = r[in].count
              /\ c.path = r[in].path /\ c.entries = r[in].entries
          <6>1. r[in] \in Inode
            BY <2>2, <2>7 DEF Tables
          <6> QED
            BY <6>1 DEF Inode
        <5>2. u = [r EXCEPT ![in] = c]
          BY <2>2, <2>7, <4>1 DEF Tables
        <5> HIDE DEF c
        <5>3. u \in Tables /\ \A i \in InodeNumbers : u[i] = IF i = in THEN c ELSE r[i]
          BY <2>2, <2>7, <5>1, <5>2 DEF Tables
        <5> QED
          BY <5>1, <5>3
    <3>2. CASE ~flag
      <4>1. u = r
        BY <1>3, <1>5, <3>2
      <4> QED
        BY <2>7, <3>2, <4>1 DEF Tables, Inode
    <3> QED
      BY <3>1, <3>2
  <2>9. Good(u) /\ (Unique(t) => Unique(u))
    <3>1. \A i \in InodeNumbers : InUse(u[i]) => InUse(r[i])
      BY <2>8 DEF InUse
    <3>2. \A i \in InodeNumbers : HeadOf(r[i], i) => HeadOf(u[i], i)
      BY <2>8 DEF HeadOf
    <3>3. \A i \in InodeNumbers : Distinct(r[i]) => Distinct(u[i])
      BY <2>8 DEF Distinct
    <3> QED
      BY <2>6, <2>8, <3>1, <3>2, <3>3 DEF Good, Unique
  <2>10. /\ Distinct(t[d]) => Lacks(u[d], n)
         /\ \A m : Lacks(t[d], m) => Lacks(u[d], m)
    BY <2>4, <2>7, <2>8, SMTT(20) DEF Lacks
  <2>11. EntriesAndBits(t, u)
    <3> SUFFICES ASSUME NEW i \in InodeNumbers
                 PROVE  /\ t[i].free => u[i].free
                        /\ u[i].type = t[i].type /\ u[i].count = t[i].count
      BY DEF EntriesAndBits
    <3>1. r[i].free = t[i].free /\ r[i].type = t[i].type /\ r[i].count = t[i].count
      BY <2>4, <2>7
    <3> QED
      BY <2>8, <3>1
  <2> QED
    BY <2>9, <2>10, <2>11
<1> QED
  BY <1>4, <1>5
LEMMA FreeIs ==
    ASSUME NEW t \in Tables
    PROVE  GetFree(t) \in InodeNumbers /\ (GetFree(t) # 0 => t[GetFree(t)].free)
<1> DEFINE S == {i \in InodeNumbers \ {0} : t[i].free}
<1>1. S \in SUBSET Nat /\ 0 \in InodeNumbers
  BY NumbersTyped
<1>2. S # {} => Min(S) \in S
  BY <1>1, LeastNumber
<1>3. GetFree(t) = IF S = {} THEN 0 ELSE Min(S)
  BY DEF GetFree
<1> QED
  BY <1>1, <1>2, <1>3

\* An i-node that is taken is zeroed, and has then no directory's type.
LEMMA ZeroedKeeps ==
    ASSUME NEW t, Good(t), NEW in \in InodeNumbers
    PROVE  /\ Good(Zeroed(t, in)) /\ (Unique(t) => Unique(Zeroed(t, in)))
           /\ \A i \in InodeNumbers : Zeroed(t, in)[i] = IF i = in THEN ZeroInode ELSE t[i]
<1>1. ZeroInode \in Inode /\ ~InUse(ZeroInode)
  BY NumbersTyped DEF ZeroInode, Inode, InUse, iTypeDirectory
<1>2. Zeroed(t, in) = [t EXCEPT ![in] = ZeroInode] /\ t \in Tables
  BY DEF Zeroed, Good
<1>3. \A i \in InodeNumbers : Zeroed(t, in)[i] = IF i = in THEN ZeroInode ELSE t[i]
  BY <1>2 DEF Tables
<1> QED
  BY <1>1, <1>2, <1>3, OneChanged

\* What becomes a file or a soft link may have any count and path.
LEMMA OtherTypeKeeps ==
    ASSUME NEW t, Good(t), NEW in \in InodeNumbers, NEW b \in Inode, b.type # iTypeDirectory
    PROVE  Good([t EXCEPT ![in] = b]) /\ (Unique(t) => Unique([t EXCEPT ![in] = b]))
<1>1. ~InUse(b)
  BY DEF InUse
<1> QED
  BY <1>1, OneChanged

\* Fields of one i-node are changed.
LEMMA FieldsIs ==
    ASSUME NEW t \in Tables, NEW i \in InodeNumbers, NEW s
    PROVE  /\ [t EXCEPT ![i].entries = s] = [t EXCEPT ![i] = [t[i] EXCEPT !.entries = s]]
           /\ [t EXCEPT ![i].type = iTypeDirectory, ![i].free = FALSE]
                = [t EXCEPT ![i] = [t[i] EXCEPT !.type = iTypeDirectory, !.free = FALSE]]
  BY DEF Tables, Inode

\* A sequence that got one more element at its end.
LEMMA AppendedIs ==
    ASSUME NEW s \in Seq(DirEntry), NEW e \in DirEntry, NEW m \in Nat, Len(s) = m,
           NEW r, r = Append(s, e)
    PROVE  /\ r \in Seq(DirEntry) /\ Len(r) = m + 1 /\ r[m + 1] = e
           /\ \A i \in 1 .. m : r[i] = s[i]
  OBVIOUS

(* A new directory, in an i-node that was zeroed, begins as it should. *)
LEMMA MakeDirectoryIs ==
    ASSUME NEW t \in Tables, NEW in \in InodeNumbers \ {0}, NEW p \in InodeNumbers \ {0},
           t[in].entries = <<>>
    PROVE  \E b \in Inode : /\ MakeDirectory(t, in, p) = [t EXCEPT ![in] = b]
                            /\ HeadOf(b, in) /\ Distinct(b)
                            /\ Len(b.entries) = 2 /\ b.entries[2] = Entry("..", p)
                            /\ b.type = iTypeDirectory /\ ~b.free
<1> DEFINE e == Entry(".", in)
           f == Entry("..", p)
           s1 == Append(<<>>, e)
           s2 == Append(s1, f)
           a0 == [t[in] EXCEPT !.type = iTypeDirectory, !.free = FALSE]
           a1 == [a0 EXCEPT !.entries = s1]
           b == [a1 EXCEPT !.entries = s2]
           t0 == [t EXCEPT ![in] = a0]
           t1 == [t EXCEPT ![in] = a1]
           t2 == [t EXCEPT ![in] = b]
<1>1. e \in DirEntry /\ f \in DirEntry /\ e.name = "." /\ f.name = ".."
  BY EntryTyped DEF AllNames
<1> HIDE DEF e, f
<1>2. <<>> \in Seq(DirEntry) /\ Len(<<>>) = 0
  OBVIOUS
<1>3. s1 \in Seq(DirEntry) /\ Len(s1) = 1 /\ s1[1] = e
  BY <1>1, <1>2, AppendProperties
<1> HIDE DEF s1
<1>4. s2 \in Seq(DirEntry) /\ Len(s2) = 2 /\ s2[1] = e /\ s2[2] = f
  <2>1. s2 = Append(s1, f) /\ 1 \in Nat /\ 1 + 1 = 2 /\ 1 \in 1 .. 1
    OBVIOUS
  <2> HIDE DEF s2
  <2>2. /\ s2 \in Seq(DirEntry) /\ Len(s2) = 1 + 1 /\ s2[1 + 1] = f
        /\ \A i \in 1 .. 1 : s2[i] = s1[i]
    BY <1>1, <1>3, <2>1, AppendedIs
  <2> QED
    BY <1>3, <2>1, <2>2
<1> HIDE DEF s2
<1>5. t[in] \in Inode
  BY DEF Tables
<1>6. a0 \in Inode /\ a0.entries = <<>> /\ a0.type = iTypeDirectory /\ ~a0.free
  <2>1. iTypeDirectory \in 0 .. 3 /\ FALSE \in BOOLEAN
    BY DEF iTypeDirectory
  <2> QED
    BY <1>5, <2>1 DEF Inode
<1> HIDE DEF a0
<1>7. a1 \in Inode /\ a1.entries = s1 /\ a1.type = iTypeDirectory /\ ~a1.free
  BY <1>3, <1>6 DEF Inode
<1> HIDE DEF a1
<1>8. b \in Inode /\ b.entries = s2 /\ b.type = iTypeDirectory /\ ~b.free
  BY <1>4, <1>7 DEF Inode
<1> HIDE DEF b
<1>9. t0 \in Tables /\ t0[in] = a0 /\ t1 \in Tables /\ t1[in] = a1
  BY <1>6, <1>7 DEF Tables
<1>10. [t EXCEPT ![in].type = iTypeDirectory, ![in].free = FALSE] = t0
  BY FieldsIs DEF a0
<1>11. AddLeafName(t0, in, FALSE, ".", in) = t1
  <2> HIDE DEF t0, t1
  <2>1. FirstNamed(t0, in, ".") \in 0 .. Len(t0[in].entries)
    BY <1>9, FirstIs
  <2>2. INumberOf(t0, in, FALSE, ".") = 0
    BY <1>2, <1>6, <1>9, <2>1 DEF INumberOf
  <2>3. AddLeafName(t0, in, FALSE, ".", in) = [t0 EXCEPT ![in].entries = s1]
    BY <1>6, <1>9, <2>2 DEF AddLeafName, e, s1, Tables
  <2>4. [t0 EXCEPT ![in].entries = s1] = [t0 EXCEPT ![in] = a1]
    BY <1>9, FieldsIs DEF a1
  <2>5. [t0 EXCEPT ![in] = a1] = t1
    BY DEF t0, t1, Tables
  <2> QED
    BY <2>3, <2>4, <2>5
<1>12. AddLeafName(t1, in, FALSE, "..", p) = t2
  <2> HIDE DEF t1, t2
  <2>1. /\ FirstNamed(t1, in, "..") \in 0 .. 1
        /\ FirstNamed(t1, in, "..") # 0 => s1[FirstNamed(t1, in, "..")].name = ".."
    BY <1>3, <1>7, <1>9, FirstIs
  <2>2. FirstNamed(t1, in, "..") # 1
    BY <1>1, <1>3, <2>1
  <2>3. INumberOf(t1, in, FALSE, "..") = 0
    BY <2>1, <2>2 DEF INumberOf
  <2>4. AddLeafName(t1, in, FALSE, "..", p) = [t1 EXCEPT ![in].entries = s2]
    BY <1>7, <1>9, <2>3 DEF AddLeafName, f, s2, Tables
  <2>5. [t1 EXCEPT ![in].entries = s2] = [t1 EXCEPT ![in] = b]
    BY <1>9, FieldsIs DEF b
  <2>6. [t1 EXCEPT ![in] = b] = t2
    BY DEF t1, t2, Tables
  <2> QED
    BY <2>4, <2>5, <2>6
<1>13. MakeDirectory(t, in, p) = t2
  BY <1>10, <1>11, <1>12 DEF MakeDirectory
<1>14. HeadOf(b, in)
  <2>1. b.entries[1] = Entry(".", in)
    BY <1>4, <1>8 DEF e
  <2>2. Len(b.entries) >= 2
    <3>1. Len(b.entries) = 2
      BY <1>4, <1>8
    <3> QED
      BY <3>1
  <2>3. b.entries[2].name = ".."
    BY <1>1, <1>4, <1>8
  <2> QED
    BY <2>1, <2>2, <2>3 DEF HeadOf
<1>15. Distinct(b)
  <2>1. \A j \in 1 .. 2 : j = 1 \/ j = 2
    OBVIOUS
  <2> QED
    BY <1>1, <1>4, <1>8, <2>1 DEF Distinct
<1>16. Len(b.entries) = 2 /\ b.entries[2] = Entry("..", p)
  BY <1>4, <1>8 DEF f
<1> QED
  BY <1>8, <1>13, <1>14, <1>15, <1>16

\* A name that addLeafName() looks for first.
LEMMA AddNewLeafNameKeeps ==
    ASSUME NEW t, Good(t), NEW d \in InodeNumbers, NEW n \in AllNames, NEW in \in InodeNumbers,
           NEW u, u = AddLeafName(t, d, FALSE, n, in)
    PROVE  Good(u) /\ (Unique(t) => Unique(u)) /\ OnlyEntries(t, u, d)
<1>1. PICK a \in BOOLEAN : ~a /\ u = AddLeafName(t, d, a, n, in)
  OBVIOUS
<1>2. Unique(t) => Unique(u)
  BY <1>1, AddLeafNameKeeps
<1> QED
  BY <1>1, <1>2, AddLeafNameKeeps

LEMMA CreateNewFileKeeps ==
    ASSUME NEW t, Good(t), NEW d \in InodeNumbers, NEW n \in Names, NEW dirFlag \in BOOLEAN,
           dirFlag => d # 0 /\ ~t[d].free
    PROVE  LET u == CreateNewFile(t, d, n, dirFlag)
           IN  Good(u) /\ (Unique(t) => Unique(u))
<1> DEFINE in == GetFree(t)
           z == Zeroed(t, in)
           named == AddLeafName(z, d, FALSE, n, in)
           typed == IF dirFlag THEN MakeDirectory(named, in, d)
                    ELSE [named EXCEPT ![in].type = iTypeOrdinary]
           c == [typed[in] EXCEPT !.count = 0]
           u == CreateNewFile(t, d, n, dirFlag)
<1>1. CASE in = 0
  <2>1. u = t
    BY <1>1 DEF CreateNewFile
  <2> QED
    BY <2>1
<1>2. CASE in # 0
  <2>1. u = [typed EXCEPT ![in].count = 0]
    BY <1>2 DEF CreateNewFile
  <2>2. in \in InodeNumbers \ {0} /\ t[in].free /\ n \in AllNames /\ FALSE \in BOOLEAN
    BY <1>2, FreeIs DEF Good, AllNames
  <2> HIDE DEF in
  <2>3. Good(z) /\ (Unique(t) => Unique(z)) /\ z[in] = ZeroInode
    BY <2>2, ZeroedKeeps
  <2> HIDE DEF z
  <2>4. /\ Good(named) /\ (Unique(z) => Unique(named))
        /\ in # d => named[in] = z[in]
    <3>1. Good(named) /\ (Unique(z) => Unique(named)) /\ OnlyEntries(z, named, d)
      BY <2>2, <2>3, AddNewLeafNameKeeps
    <3> QED
      BY <2>2, <3>1 DEF OnlyEntries
  <2>5. named \in Tables /\ named[in] \in Inode
    BY <2>2, <2>4 DEF Good, Tables
  <2> HIDE DEF named
  <2>6. CASE dirFlag
    <3>1. d # in /\ d \in InodeNumbers \ {0}
      BY <2>2, <2>6
    <3>2. named[in].entries = <<>>
      BY <2>3, <2>4, <3>1 DEF ZeroInode
    <3>3. PICK b \in Inode : /\ MakeDirectory(named, in, d) = [named EXCEPT ![in] = b]
                             /\ HeadOf(b, in) /\ Distinct(b)
      BY <2>2, <2>5, <3>1, <3>2, MakeDirectoryIs
    <3> DEFINE e == [b EXCEPT !.count = 0]
    <3>4. e \in Inode /\ e.entries = b.entries
      BY NumbersTyped DEF Inode
    <3>5. u = [named EXCEPT ![in] = e]
      BY <2>1, <2>2, <2>5, <2>6, <3>3 DEF Tables
    <3> HIDE DEF e
    <3>6. HeadOf(e, in) /\ Distinct(e)
      BY <3>3, <3>4 DEF HeadOf, Distinct
    <3> HIDE DEF u
    <3>7. Good(u) /\ (Unique(named) => Unique(u))
      BY <2>2, <2>4, <3>4, <3>5, <3>6, OneChanged
    <3> QED
      BY <2>3, <2>4, <3>7 DEF u
  <2>7. CASE ~dirFlag
    <3> DEFINE e == [named[in] EXCEPT !.type = iTypeOrdinary, !.count = 0]
    <3>1. e \in Inode /\ e.type # iTypeDirectory
      <4>1. iTypeOrdinary \in 0 .. 3 /\ 0 \in 0 .. MaxCount /\ iTypeOrdinary # iTypeDirectory
        BY NumbersTyped DEF iTypeOrdinary, iTypeDirectory
      <4> QED
        BY <2>5, <4>1 DEF Inode
    <3>2. u = [named EXCEPT ![in] = e]
      BY <2>1, <2>2, <2>5, <2>7 DEF Tables, Inode
    <3> HIDE DEF e, u
    <3>3. Good(u) /\ (Unique(named) => Unique(u))
      BY <2>2, <2>4, <3>1, <3>2, OtherTypeKeeps
    <3> QED
      BY <2>3, <2>4, <3>3 DEF u
  <2> QED
    BY <2>6, <2>7
<1> QED
  BY <1>1, <1>2

LEMMA CreateFileKeeps ==
    ASSUME NEW t, Good(t), NEW d \in InodeNumbers, NEW n \in Names, NEW dirFlag \in BOOLEAN,
           dirFlag => d # 0 /\ ~t[d].free
    PROVE  LET u == CreateFile(t, d, n, dirFlag)
           IN  Good(u) /\ (Unique(t) => Unique(u))
<1>1. CASE INumberOf(t, d, FALSE, n) # 0
  BY <1>1 DEF CreateFile
<1>2. CASE INumberOf(t, d, FALSE, n) = 0
  <2>1. CreateFile(t, d, n, dirFlag) = CreateNewFile(t, d, n, dirFlag)
    BY <1>2 DEF CreateFile
  <2> QED
    BY <2>1, CreateNewFileKeeps
<1> QED
  BY <1>1, <1>2

LEMMA CreateHardLinkKeeps ==
    ASSUME NEW t, Good(t), NEW d \in InodeNumbers, NEW n \in Names, NEW in \in InodeNumbers,
           t[in].count < MaxCount
    PROVE  LET u == CreateHardLink(t, d, n, in)
           IN  Good(u) /\ (Unique(t) => Unique(u))
<1> DEFINE v == AddLeafName(t, d, FALSE, n, in)
           b == [v[in] EXCEPT !.count = @ + 1, !.type = iTypeOrdinary]
           u == CreateHardLink(t, d, n, in)
<1>1. Good(v) /\ (Unique(t) => Unique(v)) /\ v[in].count = t[in].count
  <2>1. n \in AllNames /\ FALSE \in BOOLEAN
    BY DEF AllNames
  <2>2. Good(v) /\ (Unique(t) => Unique(v)) /\ OnlyEntries(t, v, d)
    BY <2>1, AddNewLeafNameKeeps
  <2> HIDE DEF v
  <2> QED
    BY <2>2 DEF OnlyEntries
<1>2. v \in Tables /\ v[in] \in Inode
  BY <1>1 DEF Good, Tables
<1>3. u = [v EXCEPT ![in].count = @ + 1, ![in].type = iTypeOrdinary]
  BY DEF CreateHardLink
<1> HIDE DEF v
<1>4. b \in Inode /\ b.type # iTypeDirectory
  <2>1. iTypeOrdinary \in 0 .. 3 /\ iTypeOrdinary # iTypeDirectory
    BY DEF iTypeOrdinary, iTypeDirectory
  <2>2. v[in].count \in Nat /\ v[in].count + 1 \in 0 .. MaxCount
    BY <1>1, <1>2, NumbersTyped DEF Inode
  <2> QED
    BY <1>2, <2>1, <2>2 DEF Inode
<1>5. u = [v EXCEPT ![in] = b]
  BY <1>2, <1>3 DEF Tables, Inode
<1> HIDE DEF b, u
<1>6. Good(u) /\ (Unique(v) => Unique(u))
  BY <1>1, <1>4, <1>5, OtherTypeKeeps
<1> QED
  BY <1>1, <1>6 DEF u

(* A soft link's i-node may have got "." and ".." as a directory does. *)
LEMMA CreateSoftLinkKeeps ==
    ASSUME NEW t, Good(t), NEW d \in InodeNumbers, NEW n \in Names, NEW dirFlag \in BOOLEAN,
           dirFlag => d # 0 /\ ~t[d].free,
           NEW path \in Names \cup {None}
    PROVE  LET u == CreateSoftLink(t, d, n, dirFlag, path)
           IN  Good(u) /\ (Unique(t) => Unique(u))
<1> DEFINE in == GetFree(t)
           z == Zeroed(t, in)
           named == AddLeafName(z, d, FALSE, n, in)
           dotted == IF dirFlag THEN MakeDirectory(named, in, d) ELSE named
           u == CreateSoftLink(t, d, n, dirFlag, path)
<1>1. CASE in = 0
  <2>1. u = t
    BY <1>1 DEF CreateSoftLink
  <2> QED
    BY <2>1
<1>2. CASE in # 0
  <2>1. u = [dotted EXCEPT ![in].type = iTypeSoftLink, ![in].count = 0, ![in].path = path]
    BY <1>2 DEF CreateSoftLink
  <2>2. in \in InodeNumbers \ {0} /\ t[in].free /\ n \in AllNames /\ FALSE \in BOOLEAN
    BY <1>2, FreeIs DEF Good, AllNames
  <2> HIDE DEF in
  <2>3. Good(z) /\ (Unique(t) => Unique(z)) /\ z[in] = ZeroInode
    BY <2>2, ZeroedKeeps
  <2> HIDE DEF z
  <2>4. /\ Good(named) /\ (Unique(z) => Unique(named))
        /\ in # d => named[in] = z[in]
    <3>1. Good(named) /\ (Unique(z) => Unique(named)) /\ OnlyEntries(z, named, d)
      BY <2>2, <2>3, AddNewLeafNameKeeps
    <3> QED
      BY <2>2, <3>1 DEF OnlyEntries
  <2>5. named \in Tables /\ named[in] \in Inode
    BY <2>2, <2>4 DEF Good, Tables
  <2> HIDE DEF named
  <2>6. \E b \in Inode : dotted = [named EXCEPT ![in] = b]
    <3>1. CASE dirFlag
      <4>1. d # in /\ d \in InodeNumbers \ {0}
        BY <2>2, <3>1
      <4>2. named[in].entries = <<>>
        BY <2>3, <2>4, <4>1 DEF ZeroInode
      <4> QED
        BY <2>2, <2>5, <3>1, <4>1, <4>2, MakeDirectoryIs
    <3>2. CASE ~dirFlag
      <4>1. dotted = [named EXCEPT ![in] = named[in]]
        BY <2>2, <2>5, <3>2 DEF Tables
      <4> QED
        BY <2>5, <4>1
    <3> QED
      BY <3>1, <3>2
  <2>7. PICK b \in Inode : dotted = [named EXCEPT ![in] = b]
    BY <2>6
  <2> HIDE DEF dotted
  <2> DEFINE e == [b EXCEPT !.type = iTypeSoftLink, !.count = 0, !.path = path]
  <2>8. e \in Inode /\ e.type # iTypeDirectory
    <3>1. iTypeSoftLink \in 0 .. 3 /\ 0 \in 0 .. MaxCount /\ iTypeSoftLink # iTypeDirectory
      BY NumbersTyped DEF iTypeSoftLink, iTypeDirectory
    <3> QED
      BY <3>1 DEF Inode
  <2>9. u = [named EXCEPT ![in] = e]
    BY <2>1, <2>2, <2>5, <2>7 DEF Tables, Inode
  <2> HIDE DEF e, u
  <2>10. Good(u) /\ (Unique(named) => Unique(u))
    BY <2>2, <2>4, <2>8, <2>9, OtherTypeKeeps
  <2> QED
    BY <2>3, <2>4, <2>10 DEF u
<1> QED
  BY <1>1, <1>2

\* The count of an i-node is no part of what makes a table good.
LEMMA CountedKeeps ==
    ASSUME NEW t, Good(t), NEW i \in InodeNumbers, NEW c \in 0 .. MaxCount
    PROVE  LET u == [t EXCEPT ![i].count = c]
           IN  Good(u) /\ (Unique(t) => Unique(u))
<1> DEFINE b == [t[i] EXCEPT !.count = c]
           u == [t EXCEPT ![i].count = c]
<1>1. t \in Tables /\ t[i] \in Inode
  BY DEF Good, Tables
<1>2. /\ b \in Inode /\ b.free = t[i].free /\ b.type = t[i].type /\ b.entries = t[i].entries
      /\ u = [t EXCEPT ![i] = b]
  BY <1>1 DEF Tables, Inode
<1> HIDE DEF b, u
<1>3. i # 0 /\ InUse(b) => HeadOf(b, i)
  <2>1. (InUse(b) => InUse(t[i])) /\ (HeadOf(t[i], i) => HeadOf(b, i))
    BY <1>2 DEF InUse, HeadOf
  <2> QED
    BY <2>1 DEF Good
<1>4. Unique(t) => (i # 0 /\ InUse(b) => Distinct(b))
  BY <1>2 DEF Unique, InUse, Distinct
<1>5. Good(u) /\ (Unique(t) /\ (i # 0 /\ InUse(b) => Distinct(b)) => Unique(u))
  BY <1>2, <1>3, OneChanged
<1> QED
  BY <1>4, <1>5 DEF u

LEMMA CopySoftLinkKeeps ==
    ASSUME NEW t, Good(t), NEW d \in InodeNumbers, NEW from \in Names, NEW to \in Names
    PROVE  LET u == CopySoftLink(t, d, from, to)
           IN  Good(u) /\ (Unique(t) => Unique(u))
<1> DEFINE in == INumberOf(t, d, FALSE, from)
           linked == CreateSoftLink(t, d, to, FALSE, t[in].path)
           g == GetFree(t)
           u == CopySoftLink(t, d, from, to)
<1>1. t \in Tables /\ FALSE \in BOOLEAN
  BY DEF Good
<1>2. in \in InodeNumbers /\ g \in InodeNumbers
  BY <1>1, INumberIs, FreeIs
<1>3. u = IF in = 0 THEN t ELSE [linked EXCEPT ![g].count = linked[in].count]
  BY DEF CopySoftLink
<1> HIDE DEF in, g, u
<1>4. t[in].path \in Names \cup {None}
  BY <1>1, <1>2 DEF Tables, Inode
<1>5. Good(linked) /\ (Unique(t) => Unique(linked))
  BY <1>1, <1>4, CreateSoftLinkKeeps
<1> HIDE DEF linked
<1>6. linked[in].count \in 0 .. MaxCount
  BY <1>2, <1>5 DEF Good, Tables, Inode
<1>7. /\ Good([linked EXCEPT ![g].count = linked[in].count])
      /\ Unique(linked) => Unique([linked EXCEPT ![g].count = linked[in].count])
  BY <1>2, <1>5, <1>6, CountedKeeps
<1> QED
  BY <1>3, <1>5, <1>7 DEF u

LEMMA FirstChildIs ==
    ASSUME NEW t \in Tables, NEW d \in InodeNumbers
    PROVE  LET k == FirstChild(t, d)
               e == t[d].entries
           IN  k \in 0 .. Len(e) /\ (k # 0 => e[k].name \notin {".", ".."})
<1> DEFINE e == t[d].entries
           I == {i \in 1 .. Len(e) : e[i].name \notin {".", ".."}}
<1>1. e \in Seq(DirEntry) /\ Len(e) \in Nat
  BY DEF Tables, Inode
<1>2. FirstChild(t, d) = IF I # {} THEN Min(I) ELSE 0
  BY DEF FirstChild, SelectInSeq
<1>3. I \in SUBSET Nat
  OBVIOUS
<1>4. I # {} => Min(I) \in I
  BY <1>3, LeastNumber
<1>5. \A i \in I : i \in 1 .. Len(e) /\ e[i].name \notin {".", ".."}
  OBVIOUS
<1> HIDE DEF I
<1> QED
  BY <1>1, <1>2, <1>4, <1>5

(* rmRecursion() takes one entry out of some directories and frees i-nodes. *)
LEMMA RmRecursionKeeps ==
    ASSUME NEW t, Good(t), NEW d
    PROVE  LET u == RmRecursion(t, d)
           IN  Good(u) /\ (Unique(t) => Unique(u))
<1> DEFINE emptied == Emptied(t, d)
           gone == Gone(t, d)
           u == RmRecursion(t, d)
<1>1. t \in Tables
  BY DEF Good
<1>2. u = [i \in InodeNumbers |->
             [t[i] EXCEPT !.free = (@ \/ i \in gone),
                          !.entries = IF i \in emptied
                                      THEN Without(@, FirstChild(t, i)) ELSE @]]
  BY DEF RmRecursion
<1>3. \A i \in emptied : FirstChild(t, i) # 0
  BY DEF Emptied
<1> HIDE DEF emptied, gone
<1>4. ASSUME NEW i \in InodeNumbers
      PROVE  /\ u[i] \in Inode
             /\ InUse(u[i]) => InUse(t[i])
             /\ HeadOf(t[i], i) => HeadOf(u[i], i)
             /\ Distinct(t[i]) => Distinct(u[i])
  <2> DEFINE a == t[i]
             k == FirstChild(t, i)
             s == IF i \in emptied THEN Without(a.entries, k) ELSE a.entries
             b == [a EXCEPT !.entries = Without(@, k)]
             c == u[i]
  <2>1. a \in Inode
    BY <1>1 DEF Tables
  <2>2. c = [a EXCEPT !.free = (a.free \/ i \in gone), !.entries = s]
    BY <1>2, <2>1 DEF Inode
  <2>3. k \in 0 .. Len(a.entries) /\ (k # 0 => a.entries[k].name \notin {".", ".."})
    BY <1>1, FirstChildIs
  <2>4. CASE i \in emptied
    <3>1. k # 0
      BY <1>3, <2>4
    <3> HIDE DEF a, k
    <3>2. a.entries \in Seq(DirEntry)
      BY <2>1 DEF Inode
    <3>3. k \in 1 .. Len(a.entries)
      BY <2>3, <3>1, <3>2
    <3>4. /\ b \in Inode
          /\ \A x : HeadOf(a, x) => HeadOf(b, x)
          /\ Distinct(a) => Distinct(b)
      BY <2>1, <2>3, <3>1, <3>3, Removing
    <3>5. s = b.entries
      BY <2>1, <2>4 DEF Inode
    <3> HIDE DEF b, s, c
    <3>6. s \in Seq(DirEntry)
      BY <3>4, <3>5 DEF Inode
    <3>7. c \in Inode /\ c.entries = b.entries /\ c.type = a.type /\ (~c.free => ~a.free)
      BY <2>1, <2>2, <3>5, <3>6 DEF Inode
    <3>8. (HeadOf(a, i) => HeadOf(c, i)) /\ (Distinct(a) => Distinct(c))
      BY <3>4, <3>7 DEF HeadOf, Distinct
    <3> QED
      BY <3>7, <3>8 DEF InUse, a, c
  <2>5. CASE i \notin emptied
    <3> HIDE DEF a, c
    <3>1. s = a.entries
      BY <2>5
    <3>2. c \in Inode /\ c.entries = a.entries /\ c.type = a.type /\ (~c.free => ~a.free)
      BY <2>1, <2>2, <3>1 DEF Inode
    <3>3. (HeadOf(a, i) => HeadOf(c, i)) /\ (Distinct(a) => Distinct(c))
      BY <3>2 DEF HeadOf, Distinct
    <3> QED
      BY <3>2, <3>3 DEF InUse, a, c
  <2> QED
    BY <2>4, <2>5
<1>5. u \in Tables
  BY <1>2, <1>4 DEF Tables
<1> HIDE DEF u
<1> QED
  BY <1>4, <1>5 DEF Good, Unique, u
-----------------------------------------------------------------------------
LEMMA NewTableIs == Good(NewTable) /\ Unique(NewTable)
<1> DEFINE z == ZeroInode
           f == FreeInode
           r == [ZeroInode EXCEPT !.type = iTypeDirectory, !.entries = Dots(Root, Root)]
           e == Entry(".", Root)
           g == Entry("..", Root)
<1>1. e \in DirEntry /\ g \in DirEntry /\ e.name = "." /\ g.name = ".."
  <2>1. "." \in AllNames /\ ".." \in AllNames /\ Root \in InodeNumbers \ {0}
    BY NumbersTyped DEF AllNames
  <2> QED
    BY <2>1, EntryTyped
<1>2. Dots(Root, Root) = <<e, g>>
  BY DEF Dots
<1> HIDE DEF e, g
<1>3. Dots(Root, Root) \in Seq(DirEntry) /\ Len(Dots(Root, Root)) = 2
      /\ Dots(Root, Root)[1] = e /\ Dots(Root, Root)[2] = g
  BY <1>1, <1>2
<1>4. z \in Inode /\ ~InUse(z)
  BY NumbersTyped DEF ZeroInode, Inode, InUse, iTypeDirectory
<1>5. /\ f \in Inode /\ ~InUse(f)
      /\ r \in Inode /\ r.entries = Dots(Root, Root)
  <2> DEFINE q == Dots(Root, Root)
  <2>1. f = [z EXCEPT !.free = TRUE] /\ r = [z EXCEPT !.type = iTypeDirectory, !.entries = q]
    BY DEF FreeInode
  <2>2. TRUE \in BOOLEAN /\ iTypeDirectory \in 0 .. 3
    BY DEF iTypeDirectory
  <2> HIDE DEF z, f, r, q
  <2>3. f \in Inode /\ f.free
    BY <1>4, <2>1, <2>2 DEF Inode
  <2>4. r \in Inode /\ r.entries = q
    BY <1>3, <1>4, <2>1, <2>2 DEF Inode, q
  <2> QED
    BY <2>3, <2>4 DEF InUse, q
<1>6. HeadOf(r, Root)
  <2>1. Len(r.entries) = 2 /\ r.entries[1] = e /\ r.entries[2] = g
    BY <1>3, <1>5
  <2> HIDE DEF r
  <2> QED
    BY <1>1, <2>1 DEF HeadOf, e
<1>7. Distinct(r)
  <2>1. Len(r.entries) = 2 /\ r.entries[1] = e /\ r.entries[2] = g
    BY <1>3, <1>5
  <2> HIDE DEF r
  <2>2. \A j \in 1 .. 2 : j = 1 \/ j = 2
    OBVIOUS
  <2> QED
    BY <1>1, <2>1, <2>2 DEF Distinct
<1>8. \A i \in InodeNumbers : NewTable[i] = IF i = 0 THEN z ELSE IF i = Root THEN r ELSE f
  <2> HIDE DEF z, f, r
  <2>1. NewTable = [i \in InodeNumbers |-> CASE i = 0 -> z [] i = Root -> r [] OTHER -> f]
    BY DEF NewTable, z, f, r
  <2> QED
    BY <2>1, NumbersTyped
<1>9. NewTable = [i \in InodeNumbers |-> NewTable[i]]
  BY DEF NewTable
<1> HIDE DEF z, f, r
<1>10. NewTable \in Tables
  BY <1>4, <1>5, <1>8, <1>9 DEF Tables
<1>11. \A i \in InodeNumbers : InUse(NewTable[i]) => i = Root /\ NewTable[i] = r
  BY <1>4, <1>5, <1>8
<1>12. Good(NewTable)
  BY <1>6, <1>10, <1>11 DEF Good
<1>13. Unique(NewTable)
  BY <1>7, <1>11 DEF Unique
<1> QED
  BY <1>12, <1>13
-----------------------------------------------------------------------------
(* The inductive invariant, and what a command keeps. *)
IInv ==
    /\ Good(tab) /\ wd \in InodeNumbers
    /\ atEnd \in BOOLEAN /\ crashed \in BOOLEAN /\ refreed \in BOOLEAN
Kept == IInv' /\ (Unique(tab) => Unique(tab'))

LEMMA InitTyped == Init => IInv /\ Unique(tab)
  BY NewTableIs, NumbersTyped DEF Init, IInv, NoVolume

LEMMA StutterKept == IInv /\ UNCHANGED vars => Kept
  BY DEF IInv, Kept, vars, Good, Unique

LEMMA CrashKept == IInv /\ Crash => Kept
  BY DEF IInv, Kept, Crash, Good, Unique

LEMMA BecomesKept ==
    ASSUME IInv, NEW t, Becomes(t), Good(t), Unique(tab) => Unique(t)
    PROVE  Kept
  BY DEF IInv, Kept, Becomes

LEMMA FreesKept == ASSUME IInv, NEW S, Frees(S) PROVE refreed' \in BOOLEAN
  BY DEF IInv, Frees

LEMMA FreeingKept ==
    ASSUME IInv, NEW t, NEW S, BecomesFreeing(t, S), Good(t), Unique(tab) => Unique(t)
    PROVE  Kept
<1>1. refreed' \in BOOLEAN
  BY FreesKept DEF BecomesFreeing
<1> QED
  BY <1>1 DEF IInv, Kept, BecomesFreeing

LEMMA RunningIs == IInv /\ Running => wd \in InodeNumbers \ {0} /\ InUse(tab[wd])
  BY DEF IInv, Running, NoVolume, InUse

LEMMA FoundIs ==
    ASSUME IInv, NEW n
    PROVE  InWd(n) \in InodeNumbers /\ (InWd(n) # 0 => InWd(n) = INumberOf(tab, wd, FALSE, n))
  BY INumberIs DEF IInv, InWd, Good

LEMMA MakeFVKept == IInv /\ DoMakeFV => Kept
  BY NewTableIs, NumbersTyped DEF IInv, Kept, DoMakeFV

LEMMA InvokeCmdKept == ASSUME IInv, NEW c, InvokeCmd(c) PROVE Kept
  BY StutterKept, CrashKept DEF InvokeCmd

LEMMA MkDirKept == ASSUME IInv, Running, NEW n \in Names, DoMkDir(n) PROVE Kept
<1> DEFINE u == CreateFile(tab, wd, n, TRUE)
<1>1. Good(u) /\ (Unique(tab) => Unique(u))
  <2>1. TRUE \in BOOLEAN /\ wd # 0 /\ ~tab[wd].free /\ wd \in InodeNumbers /\ Good(tab)
    BY RunningIs DEF InUse, IInv
  <2> QED
    BY <2>1, CreateFileKeeps
<1>2. Becomes(tab) \/ Becomes(u)
  BY DEF DoMkDir
<1> HIDE DEF u
<1> QED
  BY <1>1, <1>2, BecomesKept DEF IInv

LEMMA UnlinkKeeps ==
    ASSUME IInv, NEW n \in Names, NEW in \in InodeNumbers
    PROVE  Good(Unlink(n, in)) /\ (Unique(tab) => Unique(Unlink(n, in)))
<1> DEFINE v == DeleteFile(tab, wd, n, FALSE)
           w == DeleteFile(tab, wd, n, TRUE)
<1>1. Good(tab) /\ wd \in InodeNumbers /\ TRUE \in BOOLEAN /\ FALSE \in BOOLEAN
  BY DEF IInv
<1>2. /\ Good(v) /\ (Unique(tab) => Unique(v)) /\ EntriesAndBits(tab, v)
      /\ Good(w) /\ (Unique(tab) => Unique(w))
  BY <1>1, DeleteFileKeeps
<1> HIDE DEF v, w
<1>3. CASE tab[in].count # 0
  <2>1. Unlink(n, in) = [v EXCEPT ![in].count = v[in].count - 1]
    BY <1>3 DEF Unlink, v
  <2>2. v[in].count - 1 \in 0 .. MaxCount
    <3>1. v[in].count = tab[in].count
      BY <1>2 DEF EntriesAndBits
    <3>2. tab[in].count \in 0 .. MaxCount
      BY <1>1 DEF Good, Tables, Inode
    <3> QED
      BY <1>3, <3>1, <3>2, NumbersTyped
  <2>3. /\ Good([v EXCEPT ![in].count = v[in].count - 1])
        /\ Unique(v) => Unique([v EXCEPT ![in].count = v[in].count - 1])
    BY <1>2, <2>2, CountedKeeps
  <2> QED
    BY <1>2, <2>1, <2>3
<1>4. CASE tab[in].count = 0
  <2>1. Unlink(n, in) = w
    BY <1>4 DEF Unlink, w
  <2> QED
    BY <1>2, <2>1
<1> QED
  BY <1>3, <1>4

LEMMA RmKept == ASSUME IInv, NEW n \in Names, DoRm(n) PROVE Kept
<1> DEFINE u == Unlink(n, InWd(n))
           w == DeleteFile(tab, wd, n, TRUE)
<1>1. Good(u) /\ (Unique(tab) => Unique(u))
  BY FoundIs, UnlinkKeeps
<1>2. Good(w) /\ (Unique(tab) => Unique(w))
  <2>1. Good(tab) /\ wd \in InodeNumbers /\ TRUE \in BOOLEAN
    BY DEF IInv
  <2> QED
    BY <2>1, DeleteFileKeeps
<1>3. Becomes(tab) \/ (\E S : BecomesFreeing(u, S)) \/ (\E S : BecomesFreeing(w, S))
  BY DEF DoRm
<1> HIDE DEF u, w
<1> QED
  BY <1>1, <1>2, <1>3, BecomesKept, FreeingKept DEF IInv

LEMMA CopyToKept == ASSUME IInv, NEW n \in Names, DoCopyTo(n) PROVE Kept
<1> DEFINE v == DeleteFile(tab, Root, n, TRUE)
           u == CreateNewFile(v, Root, n, FALSE)
<1>1. Good(tab) /\ Root \in InodeNumbers /\ TRUE \in BOOLEAN /\ FALSE \in BOOLEAN
  BY NumbersTyped DEF IInv
<1>2. Good(v) /\ (Unique(tab) => Unique(v))
  BY <1>1, DeleteFileKeeps
<1> HIDE DEF v
<1>3. Good(u) /\ (Unique(v) => Unique(u))
  BY <1>1, <1>2, CreateNewFileKeeps
<1>4. /\ tab' = u /\ atEnd' = atEnd /\ wd' = wd /\ crashed' = crashed
      /\ refreed' \in BOOLEAN
  BY FreesKept DEF DoCopyTo, Write33File, v
<1> HIDE DEF u
<1> QED
  BY <1>2, <1>3, <1>4 DEF IInv, Kept

LEMMA Copy33Kept == ASSUME IInv, NEW s \in Names, NEW d \in Names, DoCopy33(s, d) PROVE Kept
<1> DEFINE v == DeleteFile(tab, Root, d, TRUE)
           u == CreateFile(v, Root, d, FALSE)
           w == CopySoftLink(tab, wd, s, d)
<1>1. Good(tab) /\ Root \in InodeNumbers /\ wd \in InodeNumbers
      /\ TRUE \in BOOLEAN /\ FALSE \in BOOLEAN
  BY NumbersTyped DEF IInv
<1>2. Good(v) /\ (Unique(tab) => Unique(v))
  BY <1>1, DeleteFileKeeps
<1> HIDE DEF v
<1>3. Good(u) /\ (Unique(v) => Unique(u))
  BY <1>1, <1>2, CreateFileKeeps
<1>4. Good(w) /\ (Unique(tab) => Unique(w))
  BY <1>1, CopySoftLinkKeeps
<1>5. Becomes(w) \/ \E S : BecomesFreeing(tab, S) \/ BecomesFreeing(u, S)
  BY DEF DoCopy33, Copy33File, v
<1> HIDE DEF u, w
<1> QED
  BY <1>1, <1>2, <1>3, <1>4, <1>5, BecomesKept, FreeingKept

LEMMA LnKept == ASSUME IInv, NEW o \in Names, NEW n \in Names, DoLn(o, n) PROVE Kept
<1> DEFINE in == INumberOf(tab, wd, FALSE, o)
           ok == InWd(n) = 0 /\ in # 0 /\ {o, n} \subseteq Dotted
           u == CreateHardLink(tab, wd, n, in)
<1>1. Good(tab) /\ wd \in InodeNumbers /\ FALSE \in BOOLEAN /\ tab \in Tables
  BY DEF IInv, Good
<1>2. in \in InodeNumbers
  BY <1>1, INumberIs
<1>3. (ok => tab[in].count < MaxCount) /\ Becomes(IF ok THEN u ELSE tab)
  BY DEF DoLn
<1> HIDE DEF in, ok, u
<1>4. ok => Good(u) /\ (Unique(tab) => Unique(u))
  BY <1>1, <1>2, <1>3, CreateHardLinkKeeps DEF u
<1> QED
  BY <1>1, <1>3, <1>4, BecomesKept

LEMMA LnSKept ==
    ASSUME IInv, Running, NEW o \in Names, NEW n \in Names, DoLnS(o, n)
    PROVE  Kept
<1> DEFINE u == CreateSoftLink(tab, wd, n, o \in Plain, o)
<1>1. Good(tab) /\ wd \in InodeNumbers /\ wd # 0 /\ ~tab[wd].free /\ o \in Names \cup {None}
  BY RunningIs DEF IInv, InUse
<1>2. (o \in Plain) \in BOOLEAN
  OBVIOUS
<1>3. Good(u) /\ (Unique(tab) => Unique(u))
  BY <1>1, <1>2, CreateSoftLinkKeeps
<1>4. Becomes(tab) \/ Becomes(u)
  BY DEF DoLnS
<1> HIDE DEF u
<1> QED
  BY <1>1, <1>3, <1>4, BecomesKept

LEMMA LnPathKept ==
    ASSUME IInv, NEW d \in Plain, NEW f \in Dotted, DoLnPath(d, f)
    PROVE  Kept
<1> DEFINE p == DirectoryPointer(tab, wd, d)
           current == IF InWd(d) = 0 THEN wd ELSE p
           in == INumberOf(tab, current, FALSE, f)
<1>1. Good(tab) /\ wd \in InodeNumbers /\ FALSE \in BOOLEAN /\ tab \in Tables /\ f \in Names
  BY DEF IInv, Good, Names
<1>2. current \in InodeNumbers
  BY <1>1, PointerIs
<1> HIDE DEF p, current
<1>3. in \in InodeNumbers
  BY <1>1, <1>2, INumberIs
<1>4. \/ Crash
      \/ \E i \in IF in # 0 THEN {in} ELSE InodeNumbers :
           tab[i].count < MaxCount /\ Becomes(CreateHardLink(tab, wd, f, i))
  BY DEF DoLnPath, p, current
<1> HIDE DEF in
<1>5. ASSUME NEW i \in InodeNumbers, tab[i].count < MaxCount,
             Becomes(CreateHardLink(tab, wd, f, i))
      PROVE  Kept
  <2>1. /\ Good(CreateHardLink(tab, wd, f, i))
        /\ Unique(tab) => Unique(CreateHardLink(tab, wd, f, i))
    BY <1>1, <1>5, CreateHardLinkKeeps
  <2> QED
    BY <1>5, <2>1, BecomesKept
<1> QED
  BY <1>3, <1>4, <1>5, CrashKept

LEMMA ChDirKept == ASSUME IInv, NEW n, DoChDir(n) PROVE Kept
<1> DEFINE name == IF tab[InWd(n)].type = iTypeSoftLink THEN tab[InWd(n)].path ELSE n
           p == DirectoryPointer(tab, wd, name)
<1>1. tab \in Tables /\ wd \in InodeNumbers
  BY DEF IInv, Good
<1>2. \/ Becomes(tab)
      \/ Crash
      \/ wd' = p /\ atEnd' = FALSE /\ UNCHANGED <<tab, crashed, refreed>>
  BY DEF DoChDir
<1> HIDE DEF name
<1>3. p \in InodeNumbers
  BY <1>1, PointerIs
<1> HIDE DEF p
<1> QED
  BY <1>2, <1>3, CrashKept DEF IInv, Kept, Becomes

LEMMA RmRecursionKept == ASSUME IInv, NEW n \in Names, DoRmRecursion(n) PROVE Kept
<1> DEFINE v == RmRecursion(tab, DirectoryPointer(tab, wd, n))
           u == DeleteFile(v, wd, n, TRUE)
<1>1. Good(tab) /\ wd \in InodeNumbers /\ TRUE \in BOOLEAN
  BY DEF IInv
<1>2. Good(v) /\ (Unique(tab) => Unique(v))
  BY <1>1, RmRecursionKeeps
<1> HIDE DEF v
<1>3. Good(u) /\ (Unique(v) => Unique(u))
  BY <1>1, <1>2, DeleteFileKeeps
<1>4. \/ Becomes(tab)
      \/ Crash
      \/ /\ tab' = u /\ atEnd' = TRUE /\ wd' = wd /\ crashed' = crashed
         /\ refreed' \in BOOLEAN
  BY FreesKept DEF DoRmRecursion, v
<1> HIDE DEF u
<1> QED
  BY <1>2, <1>3, <1>4, CrashKept DEF IInv, Kept, Becomes

LEMMA LookersKept ==
    ASSUME IInv, NEW n, DoInodeFile \/ DoPwd \/ DoLsRecursion(n)
    PROVE  Kept
<1>1. Becomes(tab) \/ Crash \/ UNCHANGED vars
  BY DEF DoInodeFile, DoPwd, DoLsRecursion
<1> QED
  BY <1>1, CrashKept, StutterKept DEF IInv, Kept, Becomes
-----------------------------------------------------------------------------
(* mv appends where it does not look: what it leaves is good, and keeps the *)
(* names apart where the new one was not there.                             *)
LEMMA RenamedKeeps ==
    ASSUME IInv, Running, NEW s \in Names, NEW d \in Names, NEW in \in InodeNumbers
    PROVE  LET u == Renamed(s, d, in)
           IN  /\ Good(u)
               /\ (d = s \/ INumberOf(tab, wd, FALSE, d) = 0) => (Unique(tab) => Unique(u))
<1> DEFINE v == DeleteFile(tab, wd, s, FALSE)
           u == AddLeafName(v, wd, TRUE, d, in)
<1>1. Good(tab) /\ wd \in InodeNumbers /\ wd # 0 /\ tab \in Tables /\ InUse(tab[wd])
      /\ TRUE \in BOOLEAN /\ FALSE \in BOOLEAN /\ d \in AllNames
  BY RunningIs DEF IInv, Good, AllNames
<1>2. /\ Good(v) /\ (Unique(tab) => Unique(v))
      /\ Distinct(tab[wd]) => Lacks(v[wd], s)
      /\ \A m : Lacks(tab[wd], m) => Lacks(v[wd], m)
  BY <1>1, DeleteFileKeeps
<1> HIDE DEF v
<1>3. Good(u) /\ (Lacks(v[wd], d) => (Unique(v) => Unique(u)))
  <2>1. Good(u)
    BY <1>1, <1>2, AddLeafNameKeeps
  <2>2. ASSUME Lacks(v[wd], d), Unique(v) PROVE Unique(u)
    BY <1>1, <1>2, <2>2, AddLeafNameKeeps
  <2> QED
    BY <2>1, <2>2
<1>4. ASSUME d = s \/ INumberOf(tab, wd, FALSE, d) = 0, Unique(tab) PROVE Lacks(v[wd], d)
  <2>1. Distinct(tab[wd])
    <3>1. wd \in InodeNumbers \ {0}
      BY <1>1
    <3> QED
      BY <1>1, <1>4, <3>1 DEF Unique
  <2>2. INumberOf(tab, wd, FALSE, d) = 0 => Lacks(tab[wd], d)
    BY <1>1, INumberIs
  <2> QED
    BY <1>2, <1>4, <2>1, <2>2
<1>5. u = Renamed(s, d, in)
  BY DEF Renamed, v
<1> HIDE DEF u
<1> QED
  BY <1>2, <1>3, <1>4, <1>5

LEMMA PutIntoKeeps ==
    ASSUME NEW t, Good(t), NEW p \in InodeNumbers, NEW s \in Names, NEW in \in InodeNumbers,
           NEW there
    PROVE  LET u == PutInto(t, p, s, in, there)
           IN  Good(u) /\ (Unique(t) => Unique(u))
<1> DEFINE v == DeleteFile(t, p, s, TRUE)
           u == AddLeafName(v, p, TRUE, s, in)
           w == AddLeafName(t, p, FALSE, s, in)
<1>1. TRUE \in BOOLEAN /\ FALSE \in BOOLEAN /\ s \in AllNames
  BY DEF AllNames
<1>2. /\ Good(v) /\ (Unique(t) => Unique(v))
      /\ Distinct(t[p]) => Lacks(v[p], s)
      /\ EntriesAndBits(t, v)
  BY <1>1, DeleteFileKeeps
<1>3. Good(w) /\ (Unique(t) => Unique(w))
  BY <1>1, AddNewLeafNameKeeps
<1>4. PutInto(t, p, s, in, there) = IF there = 0 THEN w ELSE u
  BY DEF PutInto
<1> HIDE DEF v, w
<1>5. Good(u) /\ ((p # 0 /\ InUse(v[p]) => Lacks(v[p], s)) => (Unique(v) => Unique(u)))
  BY <1>1, <1>2, AddLeafNameKeeps
<1> HIDE DEF u
<1>6. ASSUME Unique(t), p # 0, InUse(v[p]) PROVE Lacks(v[p], s)
  <2>1. InUse(t[p])
    BY <1>2, <1>6 DEF EntriesAndBits, InUse
  <2> QED
    BY <1>2, <1>6, <2>1 DEF Unique
<1>7. Good(u) /\ (Unique(t) => Unique(u))
  BY <1>2, <1>5, <1>6
<1> QED
  BY <1>3, <1>4, <1>7

LEMMA MvKept ==
    ASSUME IInv, Running, NEW s \in Names, NEW d \in Names, DoMv(s, d)
    PROVE  IInv' /\ (CarefulMv(s, d) => Kept)
<1> DEFINE in == InWd(s)
           isLink == tab[in].type = iTypeSoftLink
           p == DirectoryPointer(tab, wd, d)
           there == INumberOf(tab, p, FALSE, s)
           cut == DeleteFile(tab, wd, s, FALSE)
           two == AddLeafName(cut, p, FALSE, s, in)
           once == PutInto(cut, p, s, in, there)
           twice == PutInto(two, p, s, in, there)
           u == Renamed(s, d, in)
<1>1. Good(tab) /\ tab \in Tables /\ wd \in InodeNumbers /\ FALSE \in BOOLEAN /\ s \in AllNames
  BY DEF IInv, Good, AllNames
<1>2. in \in InodeNumbers /\ p \in InodeNumbers
  BY <1>1, FoundIs, PointerIs
<1>3. /\ in # 0 => in = INumberOf(tab, wd, FALSE, s)
      /\ Good(u)
      /\ (d = s \/ INumberOf(tab, wd, FALSE, d) = 0) => (Unique(tab) => Unique(u))
  <2>1. in # 0 => in = INumberOf(tab, wd, FALSE, s)
    BY FoundIs
  <2> HIDE DEF in
  <2> QED
    BY <1>2, <2>1, RenamedKeeps
<1>4. \/ Becomes(tab)
      \/ Crash
      \/ \E S : BecomesFreeing(once, S)
      \/ \E S : BecomesFreeing(twice, S)
      \/ in # 0 /\ (isLink \/ (s \in Dotted /\ d \in Dotted)) /\ Becomes(u)
  BY DEF DoMv, Puts
<1> HIDE DEF in, p, there
<1>5. Good(cut) /\ (Unique(tab) => Unique(cut))
  BY <1>1, DeleteFileKeeps
<1> HIDE DEF cut
<1>6. Good(two) /\ (Unique(cut) => Unique(two))
  BY <1>1, <1>2, <1>5, AddNewLeafNameKeeps
<1> HIDE DEF two
<1>7. Good(once) /\ (Unique(cut) => Unique(once)) /\ Good(twice) /\ (Unique(two) => Unique(twice))
  BY <1>2, <1>5, <1>6, PutIntoKeeps
<1> HIDE DEF once, twice, u
<1>8. CASE Becomes(tab)
  BY <1>1, <1>8, BecomesKept DEF Kept
<1>9. CASE Crash
  BY <1>9, CrashKept DEF Kept
<1>10. CASE \E S : BecomesFreeing(once, S)
  BY <1>5, <1>7, <1>10, FreeingKept DEF Kept
<1>11. CASE \E S : BecomesFreeing(twice, S)
  BY <1>5, <1>6, <1>7, <1>11, FreeingKept DEF Kept
<1>12. CASE in # 0 /\ (isLink \/ (s \in Dotted /\ d \in Dotted)) /\ Becomes(u)
  <2>1. IInv'
    BY <1>3, <1>12 DEF IInv, Becomes
  <2>2. CarefulMv(s, d) => d = s \/ INumberOf(tab, wd, FALSE, d) = 0
    BY <1>3, <1>12 DEF CarefulMv, Here, TypeOf
  <2> QED
    BY <1>3, <1>12, <2>1, <2>2 DEF Kept, Becomes
<1> QED
  BY <1>4, <1>8, <1>9, <1>10, <1>11, <1>12
-----------------------------------------------------------------------------
LEMMA StepKept == IInv /\ [Next]_vars => IInv'
<1> SUFFICES ASSUME IInv, [Next]_vars PROVE IInv'
  OBVIOUS
<1>1. CASE DoMakeFV
  BY <1>1, MakeFVKept DEF Kept
<1>2. CASE \E c \in DOMAIN globalsNeeded : InvokeCmd(c)
  BY <1>2, InvokeCmdKept DEF Kept
<1>3. CASE Running /\ \E n \in Names : DoRm(n) \/ DoRmRecursion(n) \/ DoLsRecursion(n)
  BY <1>3, RmKept, RmRecursionKept, LookersKept DEF Kept
<1>4. CASE Running /\ (DoInodeFile \/ DoPwd)
  BY <1>4, LookersKept DEF Kept
<1>5. CASE Running /\ \E n \in Names \cup {".."} : DoChDir(n)
  BY <1>5, ChDirKept DEF Kept
<1>6. CASE Running /\ Room /\ \E n \in Names : DoMkDir(n) \/ DoCopyTo(n)
  BY <1>6, MkDirKept, CopyToKept DEF Kept
<1>7. CASE Running /\ Room /\ \E s, d \in Names :
             DoCopy33(s, d) \/ DoMv(s, d) \/ DoLn(s, d) \/ DoLnS(s, d)
  BY <1>7, Copy33Kept, MvKept, LnKept, LnSKept DEF Kept
<1>8. CASE Running /\ Room /\ \E d \in Plain, f \in Dotted : DoLnPath(d, f)
  BY <1>8, LnPathKept DEF Kept
<1>9. CASE UNCHANGED vars
  BY <1>9, StutterKept DEF Kept
<1> QED
  BY <1>1, <1>2, <1>3, <1>4, <1>5, <1>6, <1>7, <1>8, <1>9 DEF Next

LEMMA CarefulStepKept == IInv /\ [CarefulNext]_vars => Kept
<1> SUFFICES ASSUME IInv, [CarefulNext]_vars PROVE Kept
  OBVIOUS
<1>1. CASE DoMakeFV
  BY <1>1, MakeFVKept
<1>2. CASE \E c \in DOMAIN globalsNeeded : CarefulInvoke(c) /\ InvokeCmd(c)
  BY <1>2, InvokeCmdKept
<1>3. CASE Running /\ \E n \in Names : \/ CarefulRm(n) /\ DoRm(n)
                                       \/ CarefulRmRecursion(n) /\ DoRmRecursion(n)
                                       \/ CarefulLsRecursion(n) /\ DoLsRecursion(n)
  BY <1>3, RmKept, RmRecursionKept, LookersKept
<1>4. CASE Running /\ (DoInodeFile \/ DoPwd)
  BY <1>4, LookersKept
<1>5. CASE Running /\ \E n \in Names \cup {".."} : CarefulChDir(n) /\ DoChDir(n)
  BY <1>5, ChDirKept
<1>6. CASE Running /\ Room /\ \E n \in Names :
             DoMkDir(n) \/ (Replaceable(Root, n) /\ DoCopyTo(n))
  BY <1>6, MkDirKept, CopyToKept
<1>7. CASE Running /\ Room /\ \E s, d \in Names :
             \/ CarefulCopy33(s, d) /\ DoCopy33(s, d)
             \/ CarefulMv(s, d) /\ DoMv(s, d)
             \/ CarefulLn(s, d) /\ DoLn(s, d)
             \/ CursorClosed /\ DoLnS(s, d)
  BY <1>7, Copy33Kept, MvKept, LnKept, LnSKept
<1>8. CASE Running /\ Room /\ \E d \in Plain, f \in Dotted : CarefulLnPath(d, f) /\ DoLnPath(d, f)
  BY <1>8, LnPathKept
<1>9. CASE UNCHANGED vars
  BY <1>9, StutterKept
<1> QED
  BY <1>1, <1>2, <1>3, <1>4, <1>5, <1>6, <1>7, <1>8, <1>9 DEF CarefulNext

LEMMA Invariant == Spec => []IInv
<1>1. Init => IInv
  BY InitTyped
<1> QED
  BY <1>1, StepKept, PTL DEF Spec

(* Until setFree() is called for an i-node that is not in use, and while    *)
(* the disk has room, an i-node has one of the types there are, a link      *)
(* count, entries with a name and an i-node number that is not 0, whatever  *)
(* is typed, and the working directory is an i-node number: no command of   *)
(* shell.cpp stores what iNumberOf() returns for "not there".               *)
THEOREM ShellTyped == Spec => []TypeOK
<1>1. IInv => TypeOK
  BY DEF IInv, Good, TypeOK, Tables, Inode, DirEntry, AllNames
<1> QED
  BY <1>1, Invariant, PTL

(* Until setFree() is called for an i-node that is not in use, and while    *)
(* the disk has room, every directory in use begins with "." for itself and *)
(* with "..", whatever is typed: what pwd, rm -fr, lsRecursion and          *)
(* findEntries count on.                                                    *)
THEOREM DirectoriesHeaded == Spec => []Headed
<1>1. IInv => Headed
  BY DEF IInv, Good, Headed, LiveDirectories, Live, InUse, HeadOf
<1> QED
  BY <1>1, Invariant, PTL

(* Of one who types with care, mv onto another's name being the one thing   *)
(* that matters here, no directory ever holds a name twice, although mv     *)
(* appends where addLeafName() did not look.                                *)
THEOREM NamesUnique == CarefulSpec => []UniqueNames
<1>1. Init => IInv /\ Unique(tab)
  BY InitTyped
<1>2. IInv /\ Unique(tab) /\ [CarefulNext]_vars => (IInv /\ Unique(tab))'
  BY CarefulStepKept DEF Kept
<1>3. IInv /\ Unique(tab) => UniqueNames
  <2> SUFFICES ASSUME IInv, Unique(tab), NEW d \in LiveDirectories
               PROVE  \A j, k \in DOMAIN tab[d].entries :
                        tab[d].entries[j].name = tab[d].entries[k].name => j = k
    BY DEF UniqueNames
  <2>1. d \in InodeNumbers \ {0} /\ InUse(tab[d])
    BY DEF LiveDirectories, Live, InUse
  <2>2. tab[d].entries \in Seq(DirEntry)
    BY <2>1 DEF IInv, Good, Tables, Inode
  <2>3. DOMAIN tab[d].entries = 1 .. Len(tab[d].entries)
    BY <2>2
  <2> QED
    BY <2>1, <2>3 DEF Unique, Distinct
<1> QED
  BY <1>1, <1>2, <1>3, PTL DEF CarefulSpec
=============================================================================
