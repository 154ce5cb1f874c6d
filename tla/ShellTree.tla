------------------------------ MODULE ShellTree ------------------------------
(***************************************************************************)
(* LinkCounts, DirectoryTree and NoCrash of CarefulShell and FreedInUse of *)
(* Shell, for any number of i-nodes, names, entries and links.             *)
(*                                                                         *)
(* Each command is seen as a change of the set of links, triples of a      *)
(* directory, a name and the i-node it names there.  Tree says of that set *)
(* what the properties say of the entries, and one thing more: that the    *)
(* directories have a rank, one more than their parent's.  It bounds the   *)
(* way up to the root and the way down from a directory, and with them the *)
(* recursions.                                                             *)
(***************************************************************************)
EXTENDS ShellProofs, FiniteSetTheorems

\* Of an i-node: one of its entries is n, for i-node i.
Holds(a, n, i) == \E k \in 1 .. Len(a.entries) : a.entries[k] = Entry(n, i)

Taken(t) == {i \in InodeNumbers \ {0} : ~t[i].free}
Dirs(t) == {d \in InodeNumbers \ {0} : InUse(t[d])}
Triples == InodeNumbers \X Names \X InodeNumbers
Named(t) == {l \in Triples : ~t[l[1]].free /\ Holds(t[l[1]], l[2], l[3])}
To(t, i) == {l \in Named(t) : l[3] = i}
Parent(t, d) == t[d].entries[2].in
Wanted(t, i) == IF i \in Dirs(t) THEN 1 ELSE t[i].count + 1

(* The root is there, is its own parent and has no name.  Only directories *)
(* have names in them, of i-nodes that are taken, which have as many as    *)
(* they should.  A directory's parent is a directory with a name for it.   *)
(* No taken i-node but a file has a second name, and i-node 0 is nothing.  *)
Rooted(t) == Root \in Dirs(t) /\ Parent(t, Root) = Root /\ To(t, Root) = {}
Pointing(t) == \A l \in Named(t) : l[1] \in Dirs(t) /\ l[3] \in Taken(t)
Counted(t) ==
    \A i \in Taken(t) \ {Root} :
      IsFiniteSet(To(t, i)) /\ Cardinality(To(t, i)) = Wanted(t, i)
Parented(t) ==
    \A d \in Dirs(t) \ {Root} :
      Parent(t, d) \in Dirs(t) /\ \E n \in Names : <<Parent(t, d), n, d>> \in Named(t)
Single(t) == \A i \in Taken(t) : t[i].type = iTypeSoftLink => t[i].count = 0
Nothing(t) == t[0].type = 0 /\ ~t[0].free

IsRank(t, r) ==
    /\ r \in [InodeNumbers -> Nat] /\ r[Root] = 0
    /\ \A d \in Dirs(t) \ {Root} : r[d] = r[Parent(t, d)] + 1
Ranked(t) == \E r \in [InodeNumbers -> Nat] : IsRank(t, r)

Tree(t) ==
    /\ Good(t) /\ Unique(t)
    /\ Rooted(t) /\ Pointing(t) /\ Counted(t) /\ Parented(t) /\ Single(t) /\ Nothing(t)
    /\ Ranked(t)
-----------------------------------------------------------------------------
\* The entries an i-node has, and its first two.
LEMMA EntriesAre ==
    ASSUME NEW t, Good(t), NEW d \in InodeNumbers
    PROVE  /\ t[d] \in Inode /\ t[d].entries \in Seq(DirEntry) /\ Len(t[d].entries) \in Nat
           /\ \A k \in 1 .. Len(t[d].entries) : t[d].entries[k] \in DirEntry
<1>1. t[d] \in Inode
  BY DEF Good, Tables
<1>2. t[d].entries \in Seq(DirEntry)
  BY <1>1 DEF Inode
<1> QED
  BY <1>1, <1>2, ElementOfSeq

LEMMA EntryEquals ==
    ASSUME NEW e \in DirEntry
    PROVE  \A n, i : e = Entry(n, i) <=> e.name = n /\ e.in = i
  BY DEF DirEntry, Entry

LEMMA HeadIs ==
    ASSUME NEW t, Good(t), NEW d \in Dirs(t)
    PROVE  /\ d \in InodeNumbers \ {0} /\ InUse(t[d]) /\ d \in Taken(t)
           /\ Len(t[d].entries) >= 2
           /\ t[d].entries[1] = Entry(".", d) /\ t[d].entries[2] = Entry("..", Parent(t, d))
           /\ Holds(t[d], ".", d) /\ Holds(t[d], "..", Parent(t, d))
           /\ Parent(t, d) \in InodeNumbers \ {0}
<1>1. d \in InodeNumbers \ {0} /\ InUse(t[d]) /\ d \in Taken(t)
  BY DEF Dirs, Taken, InUse
<1>2. HeadOf(t[d], d)
  BY <1>1 DEF Good
<1> DEFINE e == t[d].entries
<1>3. Len(e) \in Nat /\ \A k \in 1 .. Len(e) : e[k] \in DirEntry
  BY <1>1, EntriesAre
<1>4. Len(e) >= 2 /\ e[1] = Entry(".", d) /\ e[2].name = ".."
  BY <1>2 DEF HeadOf
<1> HIDE DEF e
<1>5. 1 \in 1 .. Len(e) /\ 2 \in 1 .. Len(e)
  BY <1>3, <1>4
<1>6. e[2] \in DirEntry /\ e[2].in \in InodeNumbers \ {0}
  BY <1>3, <1>5 DEF DirEntry
<1>7. e[2] = Entry("..", e[2].in)
  BY <1>4, <1>6, EntryEquals
<1> QED
  BY <1>1, <1>4, <1>5, <1>6, <1>7 DEF Holds, Parent, e

(* A lookup from the head finds the one entry of its name. *)
LEMMA LookupIs ==
    ASSUME NEW t, Good(t), NEW d \in InodeNumbers, NEW n
    PROVE  LET i == INumberOf(t, d, FALSE, n)
           IN  /\ i \in InodeNumbers
               /\ i # 0 => Holds(t[d], n, i)
               /\ i = 0 => Lacks(t[d], n) /\ \A j : ~Holds(t[d], n, j)
               /\ Distinct(t[d]) => \A j : Holds(t[d], n, j) => j = i
<1> DEFINE e == t[d].entries
           k == FirstNamed(t, d, n)
           i == INumberOf(t, d, FALSE, n)
<1>1. t \in Tables /\ FALSE \in BOOLEAN
  BY DEF Good
<1>2. Len(e) \in Nat /\ \A m \in 1 .. Len(e) : e[m] \in DirEntry
  BY EntriesAre
<1>3. k \in 0 .. Len(e) /\ (k # 0 => e[k].name = n)
  BY <1>1, FirstIs
<1>4. i = IF k = 0 THEN 0 ELSE e[k].in
  BY DEF INumberOf
<1>5. i \in InodeNumbers /\ (i = 0 => Lacks(t[d], n))
  BY <1>1, INumberIs
<1>6. Lacks(t[d], n) => \A j : ~Holds(t[d], n, j)
  <2> SUFFICES ASSUME Lacks(t[d], n), NEW j, NEW m \in 1 .. Len(e), e[m] = Entry(n, j) PROVE FALSE
    BY DEF Holds
  <2>1. e[m].name = n
    BY DEF Entry
  <2> QED
    BY <2>1 DEF Lacks
<1>7. Distinct(t[d]) => \A p, q \in 1 .. Len(e) : e[p].name = e[q].name => p = q
  BY DEF Distinct
<1> HIDE DEF k, i
<1>8. i # 0 => k \in 1 .. Len(e) /\ e[k] = Entry(n, i)
  <2> SUFFICES ASSUME i # 0 PROVE k \in 1 .. Len(e) /\ e[k] = Entry(n, i)
    OBVIOUS
  <2>1. k # 0 /\ k \in 1 .. Len(e)
    BY <1>2, <1>3, <1>4
  <2>2. e[k] \in DirEntry
    BY <1>2, <2>1
  <2> QED
    BY <1>3, <1>4, <2>1, <2>2, EntryEquals
<1>9. ASSUME Distinct(t[d]), NEW j, Holds(t[d], n, j) PROVE j = i
  <2>1. PICK m \in 1 .. Len(e) : e[m] = Entry(n, j)
    BY <1>9 DEF Holds
  <2>2. e[m].name = n /\ e[m].in = j
    BY <2>1 DEF Entry
  <2>3. i # 0
    BY <1>5, <1>6, <1>9
  <2>4. k \in 1 .. Len(e) /\ e[k].name = n
    BY <1>3, <1>8, <2>3
  <2>5. m = k
    BY <1>7, <1>9, <2>2, <2>4
  <2> QED
    BY <1>4, <2>2, <2>4, <2>5
<1>10. i # 0 => Holds(t[d], n, i)
  BY <1>8 DEF Holds
<1> QED
  BY <1>5, <1>6, <1>9, <1>10 DEF i

(* The last of those that are directories is the one. *)
LEMMA PointerFinds ==
    ASSUME NEW t, Good(t), NEW d \in InodeNumbers, NEW n, Distinct(t[d])
    PROVE  LET i == INumberOf(t, d, FALSE, n)
           IN  DirectoryPointer(t, d, n) = IF t[i].type = iTypeDirectory /\ i # 0 THEN i ELSE 0
<1> DEFINE e == t[d].entries
           I == {m \in 1 .. Len(e) : e[m].name = n /\ t[e[m].in].type = iTypeDirectory}
           k == IF I # {} THEN Max(I) ELSE 0
           i == INumberOf(t, d, FALSE, n)
<1>1. Len(e) \in Nat /\ \A m \in 1 .. Len(e) : e[m] \in DirEntry
  BY EntriesAre
<1>2. DirectoryPointer(t, d, n) = IF k = 0 THEN 0 ELSE e[k].in
  BY DEF DirectoryPointer, SelectLastInSeq
<1>3. I # {} => Max(I) \in I
  <2>1. I \in SUBSET (1 .. Len(e))
    OBVIOUS
  <2> QED
    BY <1>1, <2>1, GreatestNumber
<1>4. \A m \in I : m \in 1 .. Len(e) /\ Holds(t[d], n, e[m].in) /\ t[e[m].in].type = iTypeDirectory
  <2> SUFFICES ASSUME NEW m \in I PROVE Holds(t[d], n, e[m].in)
    OBVIOUS
  <2>1. m \in 1 .. Len(e) /\ e[m] \in DirEntry /\ e[m].name = n
    BY <1>1
  <2>2. e[m] = Entry(n, e[m].in)
    BY <2>1, EntryEquals
  <2> QED
    BY <2>1, <2>2 DEF Holds
<1>5. /\ i # 0 => Holds(t[d], n, i)
      /\ \A j : Holds(t[d], n, j) => j = i
      /\ i = 0 => \A j : ~Holds(t[d], n, j)
  BY LookupIs
<1>6. ASSUME Holds(t[d], n, i), t[i].type = iTypeDirectory PROVE I # {}
  <2>1. PICK m \in 1 .. Len(e) : e[m] = Entry(n, i)
    BY <1>6 DEF Holds
  <2>2. e[m].name = n /\ e[m].in = i
    BY <2>1 DEF Entry
  <2>3. t[e[m].in].type = iTypeDirectory
    BY <1>6, <2>2
  <2> HIDE DEF e, i
  <2> QED
    BY <2>2, <2>3
<1>7. \A m \in I : e[m].in = i /\ i # 0 /\ t[i].type = iTypeDirectory
  BY <1>4, <1>5
<1>8. \A m \in I : m # 0
  BY <1>1
<1> HIDE DEF I, i, e
<1>9. CASE I = {}
  <2>1. ~(i # 0 /\ t[i].type = iTypeDirectory)
    BY <1>5, <1>6, <1>9
  <2> QED
    BY <1>2, <1>9, <2>1 DEF i
<1>10. CASE I # {}
  <2>1. k \in I /\ k # 0
    BY <1>3, <1>8, <1>10
  <2>2. e[k].in = i /\ i # 0 /\ t[i].type = iTypeDirectory
    BY <1>7, <2>1
  <2> QED
    BY <1>2, <2>1, <2>2 DEF i
<1> QED
  BY <1>9, <1>10
-----------------------------------------------------------------------------
(* An entry is put at the end, or one with a name that can be typed is     *)
(* taken out: what an i-node then holds.                                   *)
LEMMA AppendingHolds ==
    ASSUME NEW a \in Inode, NEW m \in AllNames, NEW j \in InodeNumbers \ {0},
           NEW b, b.entries = Append(a.entries, Entry(m, j))
    PROVE  /\ \A n, i : Holds(b, n, i) <=> Holds(a, n, i) \/ (n = m /\ i = j)
           /\ Len(a.entries) >= 2 => b.entries[2] = a.entries[2]
<1> DEFINE s == a.entries
           r == b.entries
           c == Len(s)
<1>1. s \in Seq(DirEntry) /\ c \in Nat
  BY DEF Inode
<1>2. Entry(m, j) \in DirEntry /\ Entry(m, j).name = m /\ Entry(m, j).in = j
  BY EntryTyped
<1>3. /\ Len(r) = c + 1 /\ r[c + 1] = Entry(m, j)
      /\ \A i \in 1 .. c : r[i] = s[i]
  BY <1>1, <1>2, AppendedIs
<1>4. ASSUME NEW n, NEW i, Holds(b, n, i) PROVE Holds(a, n, i) \/ (n = m /\ i = j)
  <2>1. PICK k \in 1 .. Len(r) : r[k] = Entry(n, i)
    BY <1>4 DEF Holds
  <2> HIDE DEF r, s, c
  <2>2. k \in 1 .. c \/ k = c + 1
    BY <1>1, <1>3
  <2>3. CASE k \in 1 .. c
    BY <1>3, <2>1, <2>3 DEF Holds, s, c
  <2>4. CASE k = c + 1
    BY <1>3, <2>1, <2>4 DEF Entry
  <2> QED
    BY <2>2, <2>3, <2>4
<1>5. ASSUME NEW n, NEW i, Holds(a, n, i) PROVE Holds(b, n, i)
  <2>1. PICK k \in 1 .. c : s[k] = Entry(n, i)
    BY <1>5 DEF Holds
  <2> HIDE DEF r, s, c
  <2>2. k \in 1 .. Len(r) /\ r[k] = Entry(n, i)
    BY <1>1, <1>3, <2>1
  <2> QED
    BY <2>2 DEF Holds, r
<1>6. Holds(b, m, j)
  <2> HIDE DEF r, s, c
  <2>1. c + 1 \in 1 .. Len(r)
    BY <1>1, <1>3
  <2> QED
    BY <1>3, <2>1 DEF Holds, r
<1>7. c >= 2 => r[2] = s[2]
  <2> HIDE DEF r, s
  <2> QED
    BY <1>1, <1>3
<1> QED
  BY <1>4, <1>5, <1>6, <1>7

LEMMA RemovingHolds ==
    ASSUME NEW a \in Inode, Distinct(a), NEW k \in 1 .. Len(a.entries),
           NEW b, b.entries = Without(a.entries, k)
    PROVE  /\ \A n, i : Holds(b, n, i) <=> Holds(a, n, i) /\ n # a.entries[k].name
           /\ k > 2 => b.entries[2] = a.entries[2]
<1> DEFINE s == a.entries
           r == b.entries
           c == Len(s)
<1>1. s \in Seq(DirEntry) /\ c \in Nat /\ k \in 1 .. c
  BY DEF Inode
<1>2. \A p, q \in 1 .. c : s[p].name = s[q].name => p = q
  BY DEF Distinct
<1>3. /\ Len(r) = c - 1
      /\ \A i \in 1 .. c - 1 : r[i] = IF i < k THEN s[i] ELSE s[i + 1]
  BY <1>1, RemovedIs
<1>4. ASSUME NEW n, NEW i, Holds(b, n, i) PROVE Holds(a, n, i) /\ n # s[k].name
  <2>1. PICK p \in 1 .. Len(r) : r[p] = Entry(n, i)
    BY <1>4 DEF Holds
  <2> HIDE DEF r, s, c
  <2>2. PICK q \in 1 .. c : q # k /\ r[p] = s[q]
    <3>1. p \in 1 .. c /\ p + 1 \in 1 .. c
      BY <1>1, <1>3
    <3>2. CASE p < k
      BY <1>1, <1>3, <3>1, <3>2
    <3>3. CASE ~(p < k)
      <4>1. p + 1 # k /\ r[p] = s[p + 1]
        BY <1>1, <1>3, <3>3
      <4> QED
        BY <3>1, <4>1
    <3> QED
      BY <3>2, <3>3
  <2>3. s[q].name # s[k].name
    BY <1>1, <1>2, <2>2
  <2>4. s[q] = Entry(n, i) /\ s[q].name = n
    BY <2>1, <2>2 DEF Entry
  <2> QED
    BY <2>3, <2>4 DEF Holds, s, c
<1>5. ASSUME NEW n, NEW i, Holds(a, n, i), n # s[k].name PROVE Holds(b, n, i)
  <2>1. PICK q \in 1 .. c : s[q] = Entry(n, i)
    BY <1>5 DEF Holds
  <2>2. s[q].name = n
    BY <2>1 DEF Entry
  <2> HIDE DEF r, s, c
  <2>3. q # k
    BY <1>5, <2>2
  <2>4. PICK p \in 1 .. Len(r) : r[p] = s[q]
    <3>1. CASE q < k
      <4>1. q \in 1 .. c - 1
        BY <1>1, <3>1
      <4> QED
        BY <1>3, <3>1, <4>1
    <3>2. CASE q > k
      <4>1. q - 1 \in 1 .. c - 1 /\ ~(q - 1 < k) /\ q - 1 + 1 = q
        BY <1>1, <3>2
      <4> QED
        BY <1>3, <4>1
    <3> QED
      BY <1>1, <2>3, <3>1, <3>2
  <2> QED
    BY <2>1, <2>4 DEF Holds, r
<1>6. k > 2 => r[2] = s[2]
  <2> HIDE DEF r, s, c
  <2> SUFFICES ASSUME k > 2 PROVE r[2] = s[2]
    OBVIOUS
  <2>1. 2 \in 1 .. c - 1 /\ 2 < k
    BY <1>1
  <2> QED
    BY <1>3, <2>1
<1> QED
  BY <1>4, <1>5, <1>6
-----------------------------------------------------------------------------
(* What has been named d, n, in, or no longer is.                          *)
SameInodes(t, u) ==
    \A i \in InodeNumbers : u[i].free = t[i].free /\ u[i].type = t[i].type /\ u[i].count = t[i].count
SameParents(t, u) == \A x \in Dirs(u) : Parent(u, x) = Parent(t, x)
SameOthers(t, u, d) == \A i \in InodeNumbers \ {d} : u[i] = t[i]

\* The calls whose flags are constants.
Look(t, d, n) == INumberOf(t, d, FALSE, n)
Unname(t, d, n) == DeleteFile(t, d, n, FALSE)
Erase(t, d, n) == DeleteFile(t, d, n, TRUE)

Linked(t, u, d, n, in) ==
    /\ SameInodes(t, u) /\ SameParents(t, u) /\ SameOthers(t, u, d)
    /\ Named(u) = Named(t) \cup {<<d, n, in>>}
Unlinked(t, u, d, n, in) ==
    /\ SameInodes(t, u) /\ SameParents(t, u) /\ SameOthers(t, u, d)
    /\ Named(u) = Named(t) \ {<<d, n, in>>}
Freed(t, u, i) ==
    /\ Taken(u) = Taken(t) \ {i} /\ Dirs(u) = Dirs(t) \ {i}
    /\ \A l : l \in Named(u) <=> l \in Named(t) /\ l[1] # i
    /\ \A x \in InodeNumbers : /\ u[x].type = t[x].type /\ u[x].count = t[x].count
                               /\ u[x].entries = t[x].entries
                               /\ u[x].free = (t[x].free \/ x = i)

LEMMA SameSets ==
    ASSUME NEW t, NEW u, SameInodes(t, u)
    PROVE  Taken(u) = Taken(t) /\ Dirs(u) = Dirs(t)
  BY DEF SameInodes, Taken, Dirs, InUse

LEMMA NamedIs ==
    ASSUME NEW t, NEW x \in InodeNumbers, NEW n \in Names, NEW i \in InodeNumbers
    PROVE  <<x, n, i>> \in Named(t) <=> ~t[x].free /\ Holds(t[x], n, i)
  BY DEF Named, Triples

LEMMA LinkAdded ==
    ASSUME NEW t, Good(t), Unique(t), NEW d \in Dirs(t), NEW n \in Names,
           NEW in \in InodeNumbers \ {0}, NEW a \in BOOLEAN, Look(t, d, n) = 0,
           NEW u, u = AddLeafName(t, d, a, n, in)
    PROVE  Good(u) /\ Unique(u) /\ Linked(t, u, d, n, in)
<1>1. /\ d \in InodeNumbers \ {0} /\ InUse(t[d]) /\ Len(t[d].entries) >= 2 /\ t[d] \in Inode
      /\ n \in AllNames /\ t \in Tables /\ d \in InodeNumbers /\ in \in InodeNumbers
  BY HeadIs, EntriesAre DEF AllNames, Good
<1>2. INumberOf(t, d, a, n) = 0
  BY <1>1, INumberIs DEF Look
<1>3. Lacks(t[d], n)
  BY <1>1, LookupIs DEF Look
<1>4. Good(u)
  BY <1>1, AddLeafNameKeeps
<1>5. Unique(u)
  BY <1>1, <1>3, AddLeafNameKeeps
<1>6. OnlyEntries(t, u, d)
  BY <1>1, AddLeafNameKeeps
<1>7. u[d].entries = Append(t[d].entries, Entry(n, in))
  BY <1>1, <1>2 DEF AddLeafName, Tables, Inode
<1>8. /\ \A m, i : Holds(u[d], m, i) <=> Holds(t[d], m, i) \/ (m = n /\ i = in)
      /\ u[d].entries[2] = t[d].entries[2]
  BY <1>1, <1>7, AppendingHolds, SMTT(20)
<1>9. SameInodes(t, u) /\ \A i \in InodeNumbers \ {d} : u[i] = t[i]
  BY <1>6 DEF OnlyEntries, SameInodes
<1>10. SameParents(t, u)
  BY <1>8, <1>9 DEF SameParents, Parent, Dirs
<1>11. Named(u) = Named(t) \cup {<<d, n, in>>}
  <2>1. ASSUME NEW l \in Triples PROVE l \in Named(u) <=> l \in Named(t) \/ l = <<d, n, in>>
    <3>1. PICK x \in InodeNumbers, m \in Names, i \in InodeNumbers : l = <<x, m, i>>
      BY DEF Triples
    <3>2. u[x].free = t[x].free /\ t[x].free \in BOOLEAN
      BY <1>1, <1>9 DEF SameInodes, Tables, Inode
    <3>3. Holds(u[x], m, i) <=> Holds(t[x], m, i) \/ (x = d /\ m = n /\ i = in)
      BY <1>8, <1>9
    <3>4. x = d => ~t[x].free
      BY <1>1 DEF InUse
    <3> QED
      BY <3>1, <3>2, <3>3, <3>4, NamedIs
  <2>2. <<d, n, in>> \in Triples
    BY <1>1 DEF Triples
  <2>3. Named(u) \subseteq Triples /\ Named(t) \subseteq Triples
    BY DEF Named
  <2> QED
    BY <2>1, <2>2, <2>3
<1> QED
  BY <1>4, <1>5, <1>9, <1>10, <1>11 DEF Linked, SameOthers
-----------------------------------------------------------------------------
(* What is reached in n steps from the first, when every step stays within *)
(* a set: how the recursions of Directory are followed.                    *)
LEMMA Counting ==
    ASSUME NEW n \in Nat, NEW S, 0 \in S, \A j \in 1 .. n : j - 1 \in S => j \in S
    PROVE  \A j \in 0 .. n : j \in S
<1> DEFINE B == {j \in 0 .. n : j \notin S}
           m == Min(B)
<1> SUFFICES ASSUME B # {} PROVE FALSE
  OBVIOUS
<1>1. B \in SUBSET Nat
  OBVIOUS
<1>2. m \in B /\ \A y \in B : m <= y
  BY <1>1, LeastNumber
<1> HIDE DEF m
<1>3. m \in 1 .. n /\ m - 1 \in 0 .. n /\ ~(m <= m - 1)
  BY <1>2
<1> QED
  BY <1>2, <1>3

IsIterate(f, D, g, x, n) ==
    f \in [0 .. n -> D] /\ f[0] = x /\ \A j \in 1 .. n : f[j] = g[f[j - 1]]
LEMMA Iterates ==
    ASSUME NEW D, NEW g \in [D -> D], NEW x \in D, NEW n \in Nat
    PROVE  \E f : IsIterate(f, D, g, x, n)
<1> DEFINE Has(k) == \E f \in [0 .. k -> D] : f[0] = x /\ \A j \in 1 .. k : f[j] = g[f[j - 1]]
           S == {k \in Nat : Has(k)}
<1>1. Has(0)
  <2> DEFINE h == [j \in 0 .. 0 |-> x]
  <2>1. h \in [0 .. 0 -> D]
    OBVIOUS
  <2>2. h[0] = x /\ 1 .. 0 = {}
    OBVIOUS
  <2> HIDE DEF h
  <2> QED
    BY <2>1, <2>2
<1>2. ASSUME NEW k \in Nat, Has(k) PROVE Has(k + 1)
  <2>1. PICK f \in [0 .. k -> D] : f[0] = x /\ \A j \in 1 .. k : f[j] = g[f[j - 1]]
    BY <1>2
  <2> DEFINE h == [j \in 0 .. k + 1 |-> IF j = k + 1 THEN g[f[k]] ELSE f[j]]
  <2>2. h \in [0 .. k + 1 -> D]
    BY <2>1
  <2>3. h[0] = x /\ \A j \in 1 .. k + 1 : h[j] = g[h[j - 1]]
    BY <2>1
  <2> HIDE DEF h
  <2> QED
    BY <2>2, <2>3
<1> HIDE DEF Has
<1>3. ASSUME NEW j \in 1 .. n, j - 1 \in S PROVE j \in S
  <2>1. j - 1 \in Nat /\ j - 1 + 1 = j /\ j \in Nat
    OBVIOUS
  <2>2. Has(j - 1 + 1)
    BY <1>2, <1>3, <2>1
  <2> QED
    BY <2>1, <2>2
<1>4. 0 \in S
  BY <1>1
<1> HIDE DEF S
<1>5. n \in S
  BY <1>3, <1>4, Counting
<1> QED
  BY <1>5 DEF S, Has, IsIterate

LEMMA StaysIn ==
    ASSUME NEW D, NEW n \in Nat, NEW c, c[0] \in D,
           \A j \in 1 .. n : c[j - 1] \in D => c[j] \in D
    PROVE  \A j \in 0 .. n : c[j] \in D
<1> DEFINE S == {j \in 0 .. n : c[j] \in D}
<1>1. 0 \in S
  OBVIOUS
<1>2. ASSUME NEW j \in 1 .. n, j - 1 \in S PROVE j \in S
  BY <1>2
<1> HIDE DEF S
<1>3. \A j \in 0 .. n : j \in S
  BY <1>1, <1>2, Counting
<1> QED
  BY <1>3 DEF S

LEMMA DownTyped ==
    ASSUME NEW t, Good(t), NEW x \in InodeNumbers
    PROVE  /\ Up(t, x) \in InodeNumbers /\ Down(t, x) \in InodeNumbers
           /\ Subdirectories(t, x) \in SUBSET InodeNumbers
<1>1. t \in Tables /\ 0 \in InodeNumbers /\ Root \in InodeNumbers
  BY NumbersTyped DEF Good
<1>2. \A n : DirectoryPointer(t, x, n) \in InodeNumbers
  BY <1>1, PointerIs
<1> QED
  BY <1>1, <1>2 DEF Up, Down, Subdirectories

LEMMA AscentIs ==
    ASSUME NEW t, Good(t), NEW d \in InodeNumbers
    PROVE  \E f : /\ f[0] = d
                  /\ \A j \in 0 .. NInodes : f[j] \in InodeNumbers
                  /\ \A j \in 1 .. NInodes : f[j] = Up(t, f[j - 1])
                  /\ PwdReturns(t, d) <=> f[NInodes] = Root
<1> DEFINE g == [x \in InodeNumbers |-> Up(t, x)]
           Is(f) == f = [j \in 0 .. NInodes |-> IF j = 0 THEN d ELSE Up(t, f[j - 1])]
           c == CHOOSE f : Is(f)
<1>1. NInodes \in Nat /\ \A x \in InodeNumbers : Up(t, x) \in InodeNumbers
  BY DownTyped, NumbersTyped
<1>2. \E f : Is(f)
  <2>1. g \in [InodeNumbers -> InodeNumbers] /\ \A x \in InodeNumbers : g[x] = Up(t, x)
    BY <1>1
  <2> HIDE DEF g, Is
  <2>2. PICK f : IsIterate(f, InodeNumbers, g, d, NInodes)
    BY <1>1, <2>1, Iterates
  <2>3. ASSUME NEW j \in 0 .. NInodes PROVE f[j] = IF j = 0 THEN d ELSE Up(t, f[j - 1])
    <3>1. j = 0 \/ (j \in 1 .. NInodes /\ j - 1 \in 0 .. NInodes)
      BY <1>1
    <3> QED
      BY <2>1, <2>2, <3>1 DEF IsIterate
  <2>4. f = [j \in 0 .. NInodes |-> f[j]]
    BY <2>2 DEF IsIterate
  <2>5. Is(f)
    BY <2>3, <2>4 DEF Is
  <2> QED
    BY <2>5
<1>3. PwdReturns(t, d) <=> c[NInodes] = Root
  BY DEF PwdReturns
<1>4. Is(c)
  <2> HIDE DEF Is
  <2> QED
    BY <1>2
<1> HIDE DEF c
<1>5. c[0] = d /\ \A j \in 1 .. NInodes : c[j] = Up(t, c[j - 1])
  BY <1>1, <1>4
<1>6. \A j \in 0 .. NInodes : c[j] \in InodeNumbers
  BY <1>1, <1>5, StaysIn
<1> QED
  BY <1>3, <1>5, <1>6

LEMMA DescentIs ==
    ASSUME NEW t, Good(t), NEW d \in InodeNumbers
    PROVE  LET f == Descent(t, d)
           IN  /\ f[0] = d
               /\ \A j \in 0 .. NInodes : f[j] \in InodeNumbers
               /\ \A j \in 1 .. NInodes : f[j] = Down(t, f[j - 1])
<1> DEFINE g == [x \in InodeNumbers |-> Down(t, x)]
           Is(f) == f = [j \in 0 .. NInodes |-> IF j = 0 THEN d ELSE Down(t, f[j - 1])]
           c == CHOOSE f : Is(f)
<1>1. NInodes \in Nat /\ \A x \in InodeNumbers : Down(t, x) \in InodeNumbers
  BY DownTyped, NumbersTyped
<1>2. \E f : Is(f)
  <2>1. g \in [InodeNumbers -> InodeNumbers] /\ \A x \in InodeNumbers : g[x] = Down(t, x)
    BY <1>1
  <2> HIDE DEF g, Is
  <2>2. PICK f : IsIterate(f, InodeNumbers, g, d, NInodes)
    BY <1>1, <2>1, Iterates
  <2>3. ASSUME NEW j \in 0 .. NInodes PROVE f[j] = IF j = 0 THEN d ELSE Down(t, f[j - 1])
    <3>1. j = 0 \/ (j \in 1 .. NInodes /\ j - 1 \in 0 .. NInodes)
      BY <1>1
    <3> QED
      BY <2>1, <2>2, <3>1 DEF IsIterate
  <2>4. f = [j \in 0 .. NInodes |-> f[j]]
    BY <2>2 DEF IsIterate
  <2>5. Is(f)
    BY <2>3, <2>4 DEF Is
  <2> QED
    BY <2>5
<1>3. Descent(t, d) = c
  BY DEF Descent
<1>4. Is(c)
  <2> HIDE DEF Is
  <2> QED
    BY <1>2
<1> HIDE DEF c
<1>5. c[0] = d /\ \A j \in 1 .. NInodes : c[j] = Down(t, c[j - 1])
  BY <1>1, <1>4
<1>6. \A j \in 0 .. NInodes : c[j] \in InodeNumbers
  BY <1>1, <1>5, StaysIn
<1> QED
  BY <1>3, <1>5, <1>6

LEMMA ListingIs ==
    ASSUME NEW t, Good(t), NEW d \in InodeNumbers
    PROVE  \E f : /\ f[0] = {d}
                  /\ \A j \in 0 .. NInodes : f[j] \in SUBSET InodeNumbers
                  /\ \A j \in 1 .. NInodes :
                       \A y \in f[j] : \E x \in f[j - 1] : y \in Subdirectories(t, x)
                  /\ EndlessListing(t, d) <=> f[NInodes] # {}
<1> DEFINE Next1(X) == UNION {Subdirectories(t, x) : x \in X}
           g == [X \in SUBSET InodeNumbers |-> Next1(X)]
           Is(f) == f = [j \in 0 .. NInodes |-> IF j = 0 THEN {d} ELSE Next1(f[j - 1])]
           c == CHOOSE f : Is(f)
<1>1. /\ NInodes \in Nat
      /\ \A X \in SUBSET InodeNumbers : Next1(X) \in SUBSET InodeNumbers
  BY DownTyped, NumbersTyped
<1>2. \E f : Is(f)
  <2>1. /\ g \in [SUBSET InodeNumbers -> SUBSET InodeNumbers]
        /\ \A X \in SUBSET InodeNumbers : g[X] = Next1(X)
    BY <1>1
  <2> HIDE DEF g, Is, Next1
  <2>2. {d} \in SUBSET InodeNumbers
    OBVIOUS
  <2>3. PICK f : IsIterate(f, SUBSET InodeNumbers, g, {d}, NInodes)
    BY <1>1, <2>1, <2>2, Iterates
  <2>4. ASSUME NEW j \in 0 .. NInodes PROVE f[j] = IF j = 0 THEN {d} ELSE Next1(f[j - 1])
    <3>1. j = 0 \/ (j \in 1 .. NInodes /\ j - 1 \in 0 .. NInodes)
      BY <1>1
    <3> QED
      BY <2>1, <2>3, <3>1 DEF IsIterate
  <2>5. f = [j \in 0 .. NInodes |-> f[j]]
    BY <2>3 DEF IsIterate
  <2>6. Is(f)
    BY <2>4, <2>5 DEF Is
  <2> QED
    BY <2>6
<1>3. EndlessListing(t, d) <=> c[NInodes] # {}
  BY DEF EndlessListing
<1>4. Is(c)
  <2> HIDE DEF Is
  <2> QED
    BY <1>2
<1> HIDE DEF c
<1>5. c[0] = {d} /\ \A j \in 1 .. NInodes : c[j] = Next1(c[j - 1])
  <2>1. \A j \in 0 .. NInodes : c[j] = IF j = 0 THEN {d} ELSE Next1(c[j - 1])
    BY <1>4
  <2> HIDE DEF Next1
  <2> QED
    BY <1>1, <2>1
<1> HIDE DEF Next1
<1>6. \A j \in 0 .. NInodes : c[j] \in SUBSET InodeNumbers
  <2>1. c[0] \in SUBSET InodeNumbers
    BY <1>5
  <2>2. \A j \in 1 .. NInodes :
          c[j - 1] \in SUBSET InodeNumbers => c[j] \in SUBSET InodeNumbers
    BY <1>1, <1>5
  <2> QED
    BY <1>1, <2>1, <2>2, StaysIn
<1> QED
  BY <1>3, <1>5, <1>6 DEF Next1
-----------------------------------------------------------------------------
(* An i-node with no second name has one; a directory has it in its parent. *)
LEMMA OneLink ==
    ASSUME NEW t, Tree(t), NEW i \in Taken(t) \ {Root}, Wanted(t, i) = 1
    PROVE  \A l \in To(t, i) : To(t, i) = {l}
<1>1. IsFiniteSet(To(t, i)) /\ Cardinality(To(t, i)) = 1
  BY DEF Tree, Counted
<1>2. \E x : To(t, i) = {x}
  BY <1>1, FS_Singleton
<1> QED
  BY <1>2

LEMMA ChildIs ==
    ASSUME NEW t, Tree(t), NEW d \in InodeNumbers, NEW n \in Names, NEW c \in InodeNumbers,
           <<d, n, c>> \in Named(t), t[c].type = iTypeDirectory
    PROVE  /\ d \in Dirs(t) /\ c \in Dirs(t) \ {Root} /\ Parent(t, c) = d
           /\ To(t, c) = {<<d, n, c>>}
<1>1. d \in Dirs(t) /\ c \in Taken(t) /\ <<d, n, c>> \in To(t, c)
  BY DEF Tree, Pointing, To
<1>2. c \in Dirs(t) /\ c # Root
  BY <1>1 DEF Tree, Rooted, Taken, Dirs, InUse
<1>3. Wanted(t, c) = 1
  BY <1>2 DEF Wanted
<1>4. To(t, c) = {<<d, n, c>>}
  BY <1>1, <1>2, <1>3, OneLink
<1>5. PICK m \in Names : <<Parent(t, c), m, c>> \in Named(t)
  BY <1>2 DEF Tree, Parented
<1>6. <<Parent(t, c), m, c>> \in To(t, c)
  BY <1>5 DEF To
<1> QED
  BY <1>1, <1>2, <1>4, <1>6

(* The lookups of the recursions: up to the parent, down to a child. *)
LEMMA UpIs ==
    ASSUME NEW t, Tree(t), NEW d \in Dirs(t)
    PROVE  Up(t, d) = Parent(t, d) /\ Parent(t, d) \in Dirs(t)
<1>1. /\ d \in InodeNumbers \ {0} /\ InUse(t[d]) /\ Len(t[d].entries) >= 2 /\ Good(t)
      /\ t[d].entries[2] = Entry("..", Parent(t, d)) /\ Holds(t[d], "..", Parent(t, d))
      /\ Len(t[d].entries) \in Nat
  BY HeadIs, EntriesAre DEF Tree
<1>2. Distinct(t[d])
  BY <1>1 DEF Tree, Unique
<1>3. Parent(t, d) \in Dirs(t)
  BY DEF Tree, Rooted, Parented
<1>4. Parent(t, d) # 0 /\ t[Parent(t, d)].type = iTypeDirectory
  BY <1>3 DEF Dirs, InUse
<1>5. INumberOf(t, d, FALSE, "..") = Parent(t, d)
  BY <1>1, <1>2, LookupIs
<1>6. DirectoryPointer(t, d, "..") = Parent(t, d)
  BY <1>1, <1>2, <1>4, <1>5, PointerFinds
<1>7. t[d].entries[2].name = ".." /\ ~(Len(t[d].entries) < 2) /\ d # 0
  BY <1>1 DEF Entry
<1>8. d = Root => Parent(t, d) = Root
  BY DEF Tree, Rooted
<1> QED
  BY <1>3, <1>6, <1>7, <1>8 DEF Up

\* An entry that is neither "." nor ".." is a link.
LEMMA EntryNamed ==
    ASSUME NEW t, Tree(t), NEW d \in Dirs(t), NEW k \in 1 .. Len(t[d].entries),
           t[d].entries[k].name \notin {".", ".."}
    PROVE  LET e == t[d].entries[k]
           IN  e.name \in Names /\ e.in \in InodeNumbers /\ <<d, e.name, e.in>> \in Named(t)
<1> DEFINE e == t[d].entries[k]
<1>1. d \in InodeNumbers /\ InUse(t[d]) /\ Good(t)
  BY DEF Tree, Dirs
<1>2. e \in DirEntry
  BY <1>1, EntriesAre
<1>3. e.name \in Names /\ e.in \in InodeNumbers
  BY <1>2 DEF DirEntry, AllNames
<1>4. e = Entry(e.name, e.in)
  BY <1>2, EntryEquals
<1>5. Holds(t[d], e.name, e.in)
  BY <1>4 DEF Holds
<1> QED
  BY <1>1, <1>3, <1>5, NamedIs DEF InUse

\* The name of a link is found where it is.
LEMMA NamedFound ==
    ASSUME NEW t, Tree(t), NEW d \in Dirs(t), NEW n \in Names, NEW i \in InodeNumbers,
           <<d, n, i>> \in Named(t)
    PROVE  /\ INumberOf(t, d, FALSE, n) = i /\ i \in Taken(t)
           /\ DirectoryPointer(t, d, n) = IF t[i].type = iTypeDirectory THEN i ELSE 0
<1>1. d \in InodeNumbers \ {0} /\ InUse(t[d]) /\ Good(t) /\ Distinct(t[d])
  BY DEF Tree, Dirs, Unique
<1>2. Holds(t[d], n, i) /\ i \in Taken(t) /\ i # 0
  BY <1>1, NamedIs DEF Tree, Pointing, Taken
<1>3. INumberOf(t, d, FALSE, n) = i
  BY <1>1, <1>2, LookupIs
<1> QED
  BY <1>1, <1>2, <1>3, PointerFinds

LEMMA DownIs ==
    ASSUME NEW t, Tree(t), NEW d \in Dirs(t)
    PROVE  LET k == FirstChild(t, d)
               e == t[d].entries[k]
           IN  /\ k # 0 => /\ k \in 1 .. Len(t[d].entries) /\ e.name \in Names
                           /\ e.in \in InodeNumbers /\ <<d, e.name, e.in>> \in Named(t)
               /\ Down(t, d) = IF k # 0 /\ t[e.in].type = iTypeDirectory THEN e.in ELSE 0
<1> DEFINE k == FirstChild(t, d)
           e == t[d].entries[k]
<1>1. d \in InodeNumbers \ {0} /\ t \in Tables /\ Len(t[d].entries) \in Nat
  BY EntriesAre DEF Tree, Dirs, Good
<1>2. k \in 0 .. Len(t[d].entries) /\ (k # 0 => e.name \notin {".", ".."})
  BY <1>1, FirstChildIs
<1>3. Down(t, d) = IF k = 0 THEN 0
                   ELSE IF t[e.in].type = iTypeDirectory THEN DirectoryPointer(t, d, e.name) ELSE 0
  BY <1>1 DEF Down
<1> HIDE DEF k
<1>4. CASE k = 0
  BY <1>3, <1>4 DEF k
<1>5. CASE k # 0
  <2>1. k \in 1 .. Len(t[d].entries)
    BY <1>1, <1>2, <1>5
  <2>2. e.name \in Names /\ e.in \in InodeNumbers /\ <<d, e.name, e.in>> \in Named(t)
    BY <1>2, <1>5, <2>1, EntryNamed
  <2>3. DirectoryPointer(t, d, e.name) = IF t[e.in].type = iTypeDirectory THEN e.in ELSE 0
    BY <2>2, NamedFound
  <2> QED
    BY <1>3, <1>5, <2>1, <2>2, <2>3 DEF k
<1> QED
  BY <1>4, <1>5

LEMMA SubdirectoryIs ==
    ASSUME NEW t, Tree(t), NEW d \in Dirs(t), NEW y \in Subdirectories(t, d)
    PROVE  y \in Dirs(t) \ {Root} /\ Parent(t, y) = d
<1> DEFINE s == t[d].entries
<1>1. PICK x \in ToSet(s) : /\ x.name \notin {".", ".."} /\ t[x.in].type = iTypeDirectory
                            /\ y = DirectoryPointer(t, d, x.name)
  BY DEF Subdirectories
<1>2. d \in InodeNumbers /\ Good(t)
  BY DEF Tree, Dirs
<1>3. PICK k \in 1 .. Len(s) : x = s[k]
  BY <1>1, <1>2, EntriesAre DEF ToSet
<1>4. x.name \in Names /\ x.in \in InodeNumbers /\ <<d, x.name, x.in>> \in Named(t)
  BY <1>1, <1>3, EntryNamed
<1>5. y = x.in
  BY <1>1, <1>4, NamedFound
<1> QED
  BY <1>1, <1>2, <1>4, <1>5, ChildIs
-----------------------------------------------------------------------------
(* No rank reaches the number of i-nodes: on the way up from a directory   *)
(* every rank below its own is met, by a different i-node.                 *)
LEMMA RankBound ==
    ASSUME NEW t, Tree(t), NEW r, IsRank(t, r), NEW d \in Dirs(t)
    PROVE  r[d] \in Nat /\ r[d] < NInodes
<1> DEFINE g == [x \in Dirs(t) |-> Parent(t, x)]
           n == r[d]
<1>1. /\ \A x \in Dirs(t) : r[x] \in Nat /\ x \in InodeNumbers
      /\ r[Root] = 0
      /\ \A x \in Dirs(t) \ {Root} : r[x] = r[Parent(t, x)] + 1
  BY DEF IsRank, Dirs
<1>2. g \in [Dirs(t) -> Dirs(t)] /\ \A x \in Dirs(t) : g[x] = Parent(t, x)
  BY UpIs
<1> HIDE DEF g
<1>3. n \in Nat
  BY <1>1
<1> HIDE DEF n
<1>4. PICK f : IsIterate(f, Dirs(t), g, d, n)
  BY <1>2, <1>3, Iterates
<1>5. f \in [0 .. n -> Dirs(t)] /\ f[0] = d /\ \A j \in 1 .. n : f[j] = Parent(t, f[j - 1])
  <2>1. \A j \in 1 .. n : j - 1 \in 0 .. n
    BY <1>3
  <2> QED
    BY <1>2, <1>4, <2>1 DEF IsIterate
<1> DEFINE S == {j \in 0 .. n : r[f[j]] = n - j}
<1>6. 0 \in S
  BY <1>3, <1>5 DEF n
<1>7. ASSUME NEW j \in 1 .. n, j - 1 \in S PROVE j \in S
  <2>1. j - 1 \in 0 .. n /\ j \in 0 .. n /\ f[j - 1] \in Dirs(t) /\ r[f[j - 1]] = n - (j - 1)
    BY <1>3, <1>5, <1>7
  <2>2. f[j - 1] # Root
    BY <1>1, <1>3, <2>1
  <2>3. n - (j - 1) = r[Parent(t, f[j - 1])] + 1
    BY <1>1, <2>1, <2>2
  <2>4. f[j] = Parent(t, f[j - 1]) /\ f[j] \in Dirs(t)
    BY <1>5, <2>1
  <2>5. r[f[j]] \in Nat
    BY <1>1, <2>4
  <2>6. n - (j - 1) = r[f[j]] + 1
    BY <2>3, <2>4
  <2>7. r[f[j]] = n - j
    BY <1>3, <2>1, <2>5, <2>6
  <2> QED
    BY <2>1, <2>7
<1> HIDE DEF S
<1>8. \A j \in 0 .. n : j \in S
  BY <1>3, <1>6, <1>7, Counting
<1>9. \A x, y \in 0 .. n : f[x] = f[y] => x = y
  <2> SUFFICES ASSUME NEW x \in 0 .. n, NEW y \in 0 .. n, f[x] = f[y] PROVE x = y
    OBVIOUS
  <2>1. r[f[x]] = n - x /\ r[f[y]] = n - y
    BY <1>8 DEF S
  <2>2. n - x = n - y
    BY <2>1
  <2> QED
    BY <1>3, <2>2
<1>10. IsFiniteSet(0 .. n) /\ Cardinality(0 .. n) = n + 1
  <2>1. 0 \in Int /\ n \in Int /\ ~(0 > n) /\ n - 0 + 1 = n + 1
    BY <1>3
  <2>2. /\ IsFiniteSet(0 .. n)
        /\ Cardinality(0 .. n) = IF 0 > n THEN 0 ELSE n - 0 + 1
    BY <2>1, FS_Interval
  <2> QED
    BY <2>1, <2>2
<1>11. IsFiniteSet(InodeNumbers) /\ Cardinality(InodeNumbers) = NInodes
  <2> DEFINE m == NInodes - 1
  <2>1. NInodes \in Nat /\ 2 <= NInodes
    BY NamesAssumption
  <2>2. 0 \in Int /\ m \in Int /\ ~(0 > m) /\ m - 0 + 1 = NInodes /\ InodeNumbers = 0 .. m
    BY <2>1 DEF InodeNumbers
  <2> HIDE DEF m
  <2>3. /\ IsFiniteSet(0 .. m)
        /\ Cardinality(0 .. m) = IF 0 > m THEN 0 ELSE m - 0 + 1
    BY <2>2, FS_Interval
  <2> QED
    BY <2>2, <2>3
<1>12. f \in [0 .. n -> InodeNumbers]
  BY <1>1, <1>5
<1>13. ~(Cardinality(InodeNumbers) < Cardinality(0 .. n))
  <2>1. SUFFICES ASSUME Cardinality(InodeNumbers) < Cardinality(0 .. n) PROVE FALSE
    OBVIOUS
  <2>2. \E x, y \in 0 .. n : x # y /\ f[x] = f[y]
    BY <1>10, <1>11, <1>12, <2>1, FS_PigeonHole
  <2> QED
    BY <1>9, <2>2
<1>14. NInodes \in Nat
  BY NumbersTyped
<1>15. n < NInodes
  BY <1>3, <1>10, <1>11, <1>13, <1>14
<1> QED
  BY <1>3, <1>15 DEF n

(* So pwd reaches the root from every directory, *)
LEMMA PwdEnds == ASSUME NEW t, Tree(t), NEW d \in Dirs(t) PROVE PwdReturns(t, d)
<1>1. PICK r \in [InodeNumbers -> Nat] : IsRank(t, r)
  BY DEF Tree, Ranked
<1>2. d \in InodeNumbers /\ Good(t) /\ NInodes \in Nat /\ Root \in Dirs(t)
  BY NumbersTyped DEF Tree, Dirs, Rooted
<1>3. PICK f : /\ f[0] = d
               /\ \A j \in 1 .. NInodes : f[j] = Up(t, f[j - 1])
               /\ PwdReturns(t, d) <=> f[NInodes] = Root
  BY <1>2, AscentIs
<1>4. \A x \in Dirs(t) : r[x] \in Nat
  BY <1>1 DEF Dirs
<1> DEFINE S == {j \in 0 .. NInodes :
                   f[j] = Root \/ (f[j] \in Dirs(t) /\ r[f[j]] + j = r[d])}
<1>5. 0 \in S
  BY <1>2, <1>3, <1>4
<1>6. ASSUME NEW j \in 1 .. NInodes, j - 1 \in S PROVE j \in S
  <2>1. j \in 0 .. NInodes /\ f[j] = Up(t, f[j - 1])
    BY <1>2, <1>3
  <2>2. CASE f[j - 1] = Root
    BY <2>1, <2>2 DEF Up
  <2>3. CASE f[j - 1] # Root
    <3>1. f[j - 1] \in Dirs(t) /\ r[f[j - 1]] + (j - 1) = r[d]
      BY <1>6, <2>3
    <3>2. f[j] = Parent(t, f[j - 1]) /\ f[j] \in Dirs(t)
      BY <2>1, <3>1, UpIs
    <3>3. r[f[j - 1]] = r[f[j]] + 1
      BY <1>1, <2>3, <3>1, <3>2 DEF IsRank
    <3>4. r[f[j]] \in Nat /\ r[f[j - 1]] \in Nat /\ r[d] \in Nat
      BY <1>4, <3>1, <3>2
    <3>5. r[f[j]] + j = r[d]
      BY <3>1, <3>3, <3>4
    <3> QED
      BY <2>1, <3>2, <3>5
  <2> QED
    BY <2>2, <2>3
<1> HIDE DEF S
<1>7. \A j \in 0 .. NInodes : j \in S
  BY <1>2, <1>5, <1>6, Counting
<1>8. NInodes \in S
  BY <1>2, <1>7
<1>9. r[d] \in Nat /\ r[d] < NInodes
  BY <1>1, RankBound
<1>10. ASSUME f[NInodes] \in Dirs(t), r[f[NInodes]] + NInodes = r[d] PROVE FALSE
  <2>1. r[f[NInodes]] \in Nat
    BY <1>4, <1>10
  <2> QED
    BY <1>2, <1>9, <1>10, <2>1
<1> QED
  BY <1>3, <1>8, <1>10 DEF S

(* rm -fr enters directories further and further from the root, *)
LEMMA DescentEnds ==
    ASSUME NEW t, Tree(t), NEW r, IsRank(t, r), NEW d \in Dirs(t)
    PROVE  LET f == Descent(t, d)
           IN  /\ ~EndlessDescent(t, d)
               /\ \A j \in 0 .. NInodes : f[j] # 0 => f[j] \in Dirs(t) /\ r[f[j]] = r[d] + j
<1> DEFINE f == Descent(t, d)
<1>1. d \in InodeNumbers /\ Good(t) /\ NInodes \in Nat /\ d # 0
  BY NumbersTyped DEF Tree, Dirs
<1>2. f[0] = d /\ \A j \in 1 .. NInodes : f[j] = Down(t, f[j - 1])
  BY <1>1, DescentIs
<1>3. \A x \in Dirs(t) : r[x] \in Nat
  BY DEF Dirs, IsRank
<1> HIDE DEF f
<1> DEFINE S == {j \in 0 .. NInodes : f[j] # 0 => f[j] \in Dirs(t) /\ r[f[j]] = r[d] + j}
<1>4. 0 \in S
  BY <1>1, <1>2, <1>3
<1>5. ASSUME NEW j \in 1 .. NInodes, j - 1 \in S PROVE j \in S
  <2>1. j \in 0 .. NInodes /\ f[j] = Down(t, f[j - 1])
    BY <1>1, <1>2
  <2>2. CASE f[j - 1] = 0
    BY <2>1, <2>2 DEF Down
  <2>3. CASE f[j - 1] # 0
    <3>1. f[j - 1] \in Dirs(t) /\ r[f[j - 1]] = r[d] + (j - 1)
      BY <1>5, <2>3
    <3> DEFINE x == f[j - 1]
               e == t[x].entries[FirstChild(t, x)]
    <3>2. ASSUME f[j] # 0 PROVE f[j] \in Dirs(t) /\ r[f[j]] = r[d] + j
      <4>1. /\ e.name \in Names /\ e.in \in InodeNumbers /\ <<x, e.name, e.in>> \in Named(t)
            /\ f[j] = e.in /\ t[e.in].type = iTypeDirectory
        BY <2>1, <3>1, <3>2, DownIs
      <4>2. x \in InodeNumbers
        BY <3>1 DEF Dirs
      <4>3. f[j] \in Dirs(t) \ {Root} /\ Parent(t, f[j]) = x
        BY <4>1, <4>2, ChildIs, SMTT(20), ZenonT(40)
      <4>4. r[f[j]] = r[x] + 1
        BY <4>3 DEF IsRank
      <4>5. r[x] + 1 = r[d] + j
        BY <1>3, <3>1
      <4> QED
        BY <4>3, <4>4, <4>5
    <3> QED
      BY <2>1, <3>2
  <2> QED
    BY <2>2, <2>3
<1> HIDE DEF S
<1>6. \A j \in 0 .. NInodes : j \in S
  BY <1>1, <1>4, <1>5, Counting
<1>7. f[NInodes] = 0
  <2> SUFFICES ASSUME f[NInodes] # 0 PROVE FALSE
    OBVIOUS
  <2>1. NInodes \in S
    BY <1>1, <1>6
  <2>2. f[NInodes] \in Dirs(t) /\ r[f[NInodes]] = r[d] + NInodes
    BY <2>1 DEF S
  <2>3. r[f[NInodes]] < NInodes
    BY <2>2, RankBound
  <2> QED
    BY <1>1, <1>3, <2>2, <2>3
<1> QED
  BY <1>6, <1>7 DEF S, f, EndlessDescent

(* and ls -lR lists such. *)
LEMMA ListingEnds ==
    ASSUME NEW t, Tree(t), NEW d \in Dirs(t)
    PROVE  ~EndlessListing(t, d)
<1>1. PICK r \in [InodeNumbers -> Nat] : IsRank(t, r)
  BY DEF Tree, Ranked
<1>2. d \in InodeNumbers /\ Good(t) /\ NInodes \in Nat
  BY NumbersTyped DEF Tree, Dirs
<1>3. PICK f : /\ f[0] = {d}
               /\ \A j \in 1 .. NInodes :
                    \A y \in f[j] : \E x \in f[j - 1] : y \in Subdirectories(t, x)
               /\ EndlessListing(t, d) <=> f[NInodes] # {}
  BY <1>2, ListingIs
<1>4. \A x \in Dirs(t) : r[x] \in Nat
  BY <1>1 DEF Dirs
<1> DEFINE S == {j \in 0 .. NInodes : \A y \in f[j] : y \in Dirs(t) /\ j <= r[y]}
<1>5. 0 \in S
  BY <1>2, <1>3, <1>4
<1>6. ASSUME NEW j \in 1 .. NInodes, j - 1 \in S PROVE j \in S
  <2>1. j \in 0 .. NInodes
    BY <1>2
  <2>2. ASSUME NEW y \in f[j] PROVE y \in Dirs(t) /\ j <= r[y]
    <3>1. PICK x \in f[j - 1] : y \in Subdirectories(t, x)
      BY <1>3
    <3>2. x \in Dirs(t) /\ j - 1 <= r[x]
      BY <1>6
    <3>3. y \in Dirs(t) \ {Root} /\ Parent(t, y) = x
      BY <3>1, <3>2, SubdirectoryIs
    <3>4. r[y] = r[x] + 1
      BY <1>1, <3>3 DEF IsRank
    <3> QED
      BY <1>4, <3>2, <3>3, <3>4
  <2> QED
    BY <2>1, <2>2
<1> HIDE DEF S
<1>7. \A j \in 0 .. NInodes : j \in S
  BY <1>2, <1>5, <1>6, Counting
<1>8. f[NInodes] = {}
  <2> SUFFICES ASSUME NEW y \in f[NInodes] PROVE FALSE
    OBVIOUS
  <2>1. NInodes \in S
    BY <1>2, <1>7
  <2>2. y \in Dirs(t) /\ NInodes <= r[y]
    BY <2>1 DEF S
  <2>3. r[y] \in Nat /\ r[y] < NInodes
    BY <1>1, <2>2, RankBound
  <2> QED
    BY <1>2, <2>2, <2>3
<1> QED
  BY <1>3, <1>8
-----------------------------------------------------------------------------
(* Three changes of the links keep a tree one.  The names of one i-node,   *)
(* no directory, are changed along with its count. *)
SameCounts(t, u, S) == \A j \in S : u[j].count = t[j].count

LEMMA TreeRelinked ==
    ASSUME NEW t, Tree(t), NEW i \in Taken(t) \ Dirs(t),
           NEW u, Good(u), Unique(u), Single(u), Nothing(u),
           Taken(u) = Taken(t), Dirs(u) = Dirs(t), SameParents(t, u),
           SameCounts(t, u, Taken(t) \ {i}),
           \A l : l[3] # i => (l \in Named(u) <=> l \in Named(t)),
           \A l \in To(u, i) : l[1] \in Dirs(t),
           IsFiniteSet(To(u, i)), Cardinality(To(u, i)) = u[i].count + 1
    PROVE  Tree(u)
<1>1. \A j : j # i => To(u, j) = To(t, j)
  BY DEF To
<1>2. i # Root
  BY DEF Tree, Rooted
<1>3. Rooted(u)
  BY <1>1, <1>2 DEF Tree, Rooted, SameParents
<1>4. Pointing(u)
  <2> SUFFICES ASSUME NEW l \in Named(u) PROVE l[1] \in Dirs(u) /\ l[3] \in Taken(u)
    BY DEF Pointing
  <2>1. CASE l[3] = i
    BY <2>1 DEF To
  <2>2. CASE l[3] # i
    BY <2>2 DEF Tree, Pointing
  <2> QED
    BY <2>1, <2>2
<1>5. Counted(u)
  <2> SUFFICES ASSUME NEW j \in Taken(u) \ {Root}
               PROVE  IsFiniteSet(To(u, j)) /\ Cardinality(To(u, j)) = Wanted(u, j)
    BY DEF Counted
  <2>1. CASE j = i
    BY <2>1 DEF Wanted
  <2>2. CASE j # i
    BY <1>1, <2>2 DEF Tree, Counted, Wanted, SameCounts
  <2> QED
    BY <2>1, <2>2
<1>6. Parented(u)
  <2> SUFFICES ASSUME NEW d \in Dirs(u) \ {Root}
               PROVE  Parent(u, d) \in Dirs(u) /\ \E n \in Names : <<Parent(u, d), n, d>> \in Named(u)
    BY DEF Parented
  <2>1. Parent(u, d) = Parent(t, d) /\ d # i
    BY DEF SameParents
  <2>2. PICK n \in Names : <<Parent(t, d), n, d>> \in Named(t)
    BY DEF Tree, Parented
  <2>3. <<Parent(t, d), n, d>>[3] = d
    OBVIOUS
  <2>4. <<Parent(t, d), n, d>> \in Named(u)
    BY <2>1, <2>2, <2>3
  <2> QED
    BY <2>1, <2>4 DEF Tree, Parented
<1>7. Ranked(u)
  <2>1. PICK r \in [InodeNumbers -> Nat] : IsRank(t, r)
    BY DEF Tree, Ranked
  <2>2. IsRank(u, r)
    BY <2>1 DEF IsRank, SameParents
  <2> QED
    BY <2>2 DEF Ranked
<1> QED
  BY <1>3, <1>4, <1>5, <1>6, <1>7 DEF Tree

(* A free i-node is taken and named once, as a file or a directory. *)
Grown(t, u, d, n, i) ==
    /\ i \notin Taken(t) /\ Taken(u) = Taken(t) \cup {i}
    /\ Dirs(u) = Dirs(t) \/ (Dirs(u) = Dirs(t) \cup {i} /\ Parent(u, i) = d)
    /\ \A x \in Dirs(t) : Parent(u, x) = Parent(t, x)
    /\ SameCounts(t, u, Taken(t)) /\ u[i].count = 0
    /\ Named(u) = Named(t) \cup {<<d, n, i>>}

LEMMA TreeGrown ==
    ASSUME NEW t, Tree(t), NEW d \in Dirs(t), NEW n \in Names,
           NEW i \in InodeNumbers \ {0},
           NEW u, Good(u), Unique(u), Single(u), Nothing(u), Grown(t, u, d, n, i)
    PROVE  Tree(u)
<1> DEFINE new == <<d, n, i>>
<1> USE DEF Grown
<1>1. new[1] = d /\ new[3] = i /\ new \in Named(u)
  OBVIOUS
<1>2. \A l \in Named(t) : l[3] # i
  BY DEF Tree, Pointing
<1>3. \A j : j # i => To(u, j) = To(t, j)
  BY <1>1 DEF To
<1>4. To(u, i) = {new}
  BY <1>1, <1>2 DEF To
<1>5. Dirs(t) \subseteq Taken(t) /\ Dirs(t) \subseteq Dirs(u)
  BY HeadIs DEF Tree
<1>6. i # Root
  BY <1>5 DEF Tree, Rooted
<1>7. Rooted(u)
  BY <1>3, <1>5, <1>6 DEF Tree, Rooted
<1>8. Pointing(u)
  <2> SUFFICES ASSUME NEW l \in Named(u) PROVE l[1] \in Dirs(u) /\ l[3] \in Taken(u)
    BY DEF Pointing
  <2>1. CASE l = new
    BY <1>1, <1>5, <2>1
  <2>2. CASE l \in Named(t)
    BY <1>5, <2>2 DEF Tree, Pointing
  <2> QED
    BY <2>1, <2>2
<1>9. Counted(u)
  <2> SUFFICES ASSUME NEW j \in Taken(u) \ {Root}
               PROVE  IsFiniteSet(To(u, j)) /\ Cardinality(To(u, j)) = Wanted(u, j)
    BY DEF Counted
  <2>1. CASE j = i
    <3>1. IsFiniteSet({new}) /\ Cardinality({new}) = 1
      BY FS_Singleton
    <3>2. Wanted(u, i) = 1
      BY DEF Wanted
    <3> QED
      BY <1>4, <2>1, <3>1, <3>2
  <2>2. CASE j # i
    <3>1. j \in Taken(t) \ {Root} /\ (j \in Dirs(u) <=> j \in Dirs(t))
      BY <2>2
    <3>2. Wanted(u, j) = Wanted(t, j)
      BY <3>1 DEF Wanted, SameCounts
    <3> QED
      BY <1>3, <2>2, <3>1, <3>2 DEF Tree, Counted
  <2> QED
    BY <2>1, <2>2
<1>10. Parented(u)
  <2> SUFFICES ASSUME NEW x \in Dirs(u) \ {Root}
               PROVE  Parent(u, x) \in Dirs(u) /\ \E m \in Names : <<Parent(u, x), m, x>> \in Named(u)
    BY DEF Parented
  <2>1. CASE x \in Dirs(t)
    BY <1>5, <2>1 DEF Tree, Parented
  <2>2. CASE x \notin Dirs(t)
    <3>1. x = i /\ Parent(u, x) = d
      BY <2>2
    <3> QED
      BY <1>1, <1>5, <3>1
  <2> QED
    BY <2>1, <2>2
<1>11. Ranked(u)
  <2>1. PICK r \in [InodeNumbers -> Nat] : IsRank(t, r)
    BY DEF Tree, Ranked
  <2> DEFINE s == [r EXCEPT ![i] = r[d] + 1]
  <2>2. d \in InodeNumbers /\ r[d] \in Nat
    BY <2>1 DEF Dirs
  <2>3. /\ s \in [InodeNumbers -> Nat] /\ s[i] = r[d] + 1
        /\ \A j \in InodeNumbers \ {i} : s[j] = r[j]
    BY <2>2
  <2>4. \A x \in Dirs(t) : x \in InodeNumbers \ {i} /\ s[x] = r[x]
    BY <1>5, <2>3 DEF Dirs
  <2> HIDE DEF s
  <2>5. ASSUME NEW x \in Dirs(u) \ {Root} PROVE s[x] = s[Parent(u, x)] + 1
    <3>1. CASE x \in Dirs(t)
      <4>1. Parent(t, x) \in Dirs(t)
        BY <3>1 DEF Tree, Parented
      <4> QED
        BY <2>1, <2>4, <3>1, <4>1 DEF IsRank
    <3>2. CASE x \notin Dirs(t)
      BY <2>3, <2>4, <3>2
    <3> QED
      BY <3>1, <3>2
  <2>6. s[Root] = 0
    BY <2>1, <2>4 DEF Tree, Rooted, IsRank
  <2> QED
    BY <2>3, <2>5, <2>6 DEF Ranked, IsRank
<1> QED
  BY <1>7, <1>8, <1>9, <1>10, <1>11 DEF Tree

(* I-nodes go, with all their names, and whatever was below them. *)
LEMMA TreePruned ==
    ASSUME NEW t, Tree(t), NEW S \in SUBSET (Taken(t) \ {Root}),
           \A l \in Named(t) : l[1] \in S => l[3] \in S,
           NEW u, Good(u), Unique(u), Single(u), Nothing(u),
           Taken(u) = Taken(t) \ S, Dirs(u) = Dirs(t) \ S,
           SameParents(t, u), SameCounts(t, u, Taken(u)),
           Named(u) = {l \in Named(t) : l[3] \notin S}
    PROVE  Tree(u)
<1>1. \A j : j \notin S => To(u, j) = To(t, j)
  BY DEF To
<1>2. Rooted(u)
  BY <1>1 DEF Tree, Rooted, SameParents
<1>3. Pointing(u)
  BY DEF Tree, Pointing
<1>4. Counted(u)
  <2> SUFFICES ASSUME NEW j \in Taken(u) \ {Root}
               PROVE  IsFiniteSet(To(u, j)) /\ Cardinality(To(u, j)) = Wanted(u, j)
    BY DEF Counted
  <2>1. Wanted(u, j) = Wanted(t, j) /\ j \notin S
    BY DEF Wanted, SameCounts
  <2> QED
    BY <1>1, <2>1 DEF Tree, Counted
<1>5. Parented(u)
  <2> SUFFICES ASSUME NEW d \in Dirs(u) \ {Root}
               PROVE  Parent(u, d) \in Dirs(u) /\ \E n \in Names : <<Parent(u, d), n, d>> \in Named(u)
    BY DEF Parented
  <2>1. Parent(u, d) = Parent(t, d) /\ d \in Dirs(t) \ {Root} /\ d \notin S
    BY DEF SameParents
  <2>2. PICK n \in Names : <<Parent(t, d), n, d>> \in Named(t)
    BY <2>1 DEF Tree, Parented
  <2>3. <<Parent(t, d), n, d>>[1] = Parent(t, d) /\ <<Parent(t, d), n, d>>[3] = d
    OBVIOUS
  <2>4. <<Parent(t, d), n, d>> \in Named(u) /\ Parent(t, d) \notin S
    BY <2>1, <2>2, <2>3
  <2> QED
    BY <2>1, <2>4 DEF Tree, Parented
<1>6. Ranked(u)
  <2>1. PICK r \in [InodeNumbers -> Nat] : IsRank(t, r)
    BY DEF Tree, Ranked
  <2>2. IsRank(u, r)
    BY <2>1 DEF IsRank, SameParents
  <2> QED
    BY <2>2 DEF Ranked
<1> QED
  BY <1>2, <1>3, <1>4, <1>5, <1>6 DEF Tree
-----------------------------------------------------------------------------
(* DeleteFile takes a name away, *)
LEMMA LinkDeleted ==
    ASSUME NEW t, Good(t), Unique(t), NEW d \in Dirs(t), NEW n \in Names,
           NEW in, in = Look(t, d, n), in # 0,
           NEW u, u = Unname(t, d, n)
    PROVE  /\ Good(u) /\ Unique(u) /\ Unlinked(t, u, d, n, in)
           /\ Look(u, d, n) = 0 /\ Erase(t, d, n) = SetFree(u, in)
<1> DEFINE s == t[d].entries
           k == FirstNamed(t, d, n)
<1>1. /\ d \in InodeNumbers \ {0} /\ InUse(t[d]) /\ Len(s) >= 2 /\ t[d] \in Inode
      /\ s[1].name = "." /\ s[2].name = ".." /\ t \in Tables /\ d \in InodeNumbers
  <2>1. d \in InodeNumbers \ {0} /\ InUse(t[d]) /\ Len(t[d].entries) >= 2
    BY HeadIs
  <2>2. /\ t[d].entries[1] = Entry(".", d) /\ t[d].entries[2] = Entry("..", Parent(t, d))
    BY HeadIs
  <2>3. t[d].entries[1].name = "." /\ t[d].entries[2].name = ".."
    BY <2>2 DEF Entry
  <2> QED
    BY <2>1, <2>3, EntriesAre DEF Good
<1>2. Distinct(t[d])
  BY <1>1 DEF Unique
<1>3. in \in InodeNumbers /\ Holds(t[d], n, in) /\ \A j : Holds(t[d], n, j) => j = in
  BY <1>1, <1>2, LookupIs DEF Look
<1>4. k # 0 /\ in = s[k].in
  BY DEF INumberOf, Look
<1>5. k \in 0 .. Len(s) /\ s[k].name = n
  BY <1>1, <1>4, FirstIs
<1>6. n # "." /\ n # ".."
  BY NumbersTyped
<1>7. u = [t EXCEPT ![d].entries = Without(@, k)] /\ Erase(t, d, n) = SetFree(u, in)
  BY <1>4 DEF DeleteFile, Erase, Unname
<1> HIDE DEF k, s
<1>8. k \in 1 .. Len(s) /\ k > 2
  BY <1>1, <1>4, <1>5, <1>6
<1>9. Good(u) /\ Unique(u) /\ Lacks(u[d], n)
  <2>1. FALSE \in BOOLEAN
    OBVIOUS
  <2> QED
    BY <1>1, <1>2, <2>1, DeleteFileKeeps DEF Unname
<1>10. u[d].entries = Without(t[d].entries, k)
  BY <1>1, <1>7 DEF Tables, Inode
<1>11. /\ \A m, i : Holds(u[d], m, i) <=> Holds(t[d], m, i) /\ m # n
       /\ u[d].entries[2] = t[d].entries[2]
  <2>1. k \in 1 .. Len(t[d].entries) /\ t[d].entries[k].name = n
    BY <1>5, <1>8 DEF s
  <2>2. /\ \A m, i : Holds(u[d], m, i) <=> Holds(t[d], m, i) /\ m # t[d].entries[k].name
        /\ k > 2 => u[d].entries[2] = t[d].entries[2]
    BY <1>1, <1>2, <1>10, <2>1, RemovingHolds
  <2> QED
    BY <1>8, <2>1, <2>2
<1>12. SameInodes(t, u) /\ \A i \in InodeNumbers \ {d} : u[i] = t[i]
  <2>1. \A i \in InodeNumbers :
          u[i] = IF i = d THEN [t[i] EXCEPT !.entries = Without(t[d].entries, k)] ELSE t[i]
    BY <1>1, <1>7 DEF Tables
  <2>2. u[d] = [t[d] EXCEPT !.entries = Without(t[d].entries, k)]
    BY <1>1, <2>1
  <2>3. u[d].free = t[d].free /\ u[d].type = t[d].type /\ u[d].count = t[d].count
    BY <1>1, <2>2 DEF Inode
  <2> QED
    BY <2>1, <2>3 DEF SameInodes
<1>13. SameParents(t, u)
  BY <1>11, <1>12 DEF SameParents, Parent, Dirs
<1>14. Named(u) = Named(t) \ {<<d, n, in>>}
  <2>1. ASSUME NEW l \in Triples PROVE l \in Named(u) <=> l \in Named(t) /\ l # <<d, n, in>>
    <3>1. PICK x \in InodeNumbers, m \in Names, i \in InodeNumbers : l = <<x, m, i>>
      BY DEF Triples
    <3>2. u[x].free = t[x].free
      BY <1>12 DEF SameInodes
    <3>3. Holds(u[x], m, i) <=> Holds(t[x], m, i) /\ ~(x = d /\ m = n)
      BY <1>11, <1>12
    <3>4. x = d /\ m = n /\ Holds(t[x], m, i) => i = in
      BY <1>3
    <3> QED
      BY <3>1, <3>2, <3>3, <3>4, NamedIs
  <2>2. Named(u) \subseteq Triples /\ Named(t) \subseteq Triples
    BY DEF Named
  <2> QED
    BY <2>1, <2>2
<1>15. Look(u, d, n) = 0
  <2>1. Look(u, d, n) # 0 => Holds(u[d], n, Look(u, d, n))
    BY <1>1, <1>9, LookupIs DEF Look
  <2> QED
    BY <1>11, <2>1
<1> QED
  BY <1>7, <1>9, <1>12, <1>13, <1>14, <1>15 DEF Unlinked, SameOthers

\* and may free the i-node it was a name of.
LEMMA FreedIs ==
    ASSUME NEW t, Good(t), NEW i \in InodeNumbers \ {0}, NEW u, u = SetFree(t, i)
    PROVE  Freed(t, u, i)
<1>1. t \in Tables /\ \A x \in InodeNumbers : t[x] \in Inode
  BY DEF Good, Tables
<1>2. \A x \in InodeNumbers : /\ u[x].type = t[x].type /\ u[x].count = t[x].count
                              /\ u[x].entries = t[x].entries
                              /\ u[x].free = (t[x].free \/ x = i)
  <2> TAKE x \in InodeNumbers
  <2>1. t[x] \in Inode
    BY <1>1
  <2>2. u[x] = IF x = i THEN [t[x] EXCEPT !.free = TRUE] ELSE t[x]
    BY <1>1 DEF SetFree, Tables
  <2>3. CASE x = i
    BY <2>1, <2>2, <2>3 DEF Inode
  <2>4. CASE x # i
    BY <2>1, <2>2, <2>4 DEF Inode
  <2> QED
    BY <2>3, <2>4
<1>3. Taken(u) = Taken(t) \ {i} /\ Dirs(u) = Dirs(t) \ {i}
  BY <1>2 DEF Taken, Dirs, InUse
<1>4. \A x \in InodeNumbers : \A n, j : Holds(u[x], n, j) <=> Holds(t[x], n, j)
  BY <1>2 DEF Holds
<1>5. \A l : l \in Named(u) <=> l \in Named(t) /\ l[1] # i
  <2>1. ASSUME NEW l \in Triples PROVE l \in Named(u) <=> l \in Named(t) /\ l[1] # i
    <3>1. PICK x \in InodeNumbers, m \in Names, j \in InodeNumbers : l = <<x, m, j>>
      BY DEF Triples
    <3>2. l[1] = x
      BY <3>1
    <3> QED
      BY <1>2, <1>4, <3>1, <3>2, NamedIs
  <2>2. Named(u) \subseteq Triples /\ Named(t) \subseteq Triples
    BY DEF Named
  <2> QED
    BY <2>1, <2>2
<1> QED
  BY <1>2, <1>3, <1>5 DEF Freed

Erased(t, u, d, n, in) ==
    /\ Taken(u) = Taken(t) \ {in} /\ Dirs(u) = Dirs(t) \ {in}
    /\ Named(u) = Named(t) \ {<<d, n, in>>} /\ SameParents(t, u)
    /\ \A x \in InodeNumbers : /\ u[x].type = t[x].type /\ u[x].count = t[x].count
                               /\ u[x].free = (t[x].free \/ x = in)

(* rm of a last name, rmdir of an empty directory. *)
LEMMA TreeDeleted ==
    ASSUME NEW t, Tree(t), NEW d \in Dirs(t), NEW n \in Names,
           NEW in, in = Look(t, d, n), in # 0, Wanted(t, in) = 1,
           \A l \in Named(t) : l[1] # in,
           NEW u, u = Erase(t, d, n)
    PROVE  Tree(u) /\ Erased(t, u, d, n, in) /\ Look(u, d, n) = 0 /\ d \in Dirs(u)
<1>0. PICK v : v = Unname(t, d, n)
  OBVIOUS
<1>1. Good(t) /\ Unique(t) /\ d \in InodeNumbers /\ InUse(t[d])
  BY DEF Tree, Dirs
<1>2. /\ Good(v) /\ Unique(v) /\ SameInodes(t, v) /\ SameParents(t, v)
      /\ Named(v) = Named(t) \ {<<d, n, in>>} /\ Look(v, d, n) = 0
      /\ \A i \in InodeNumbers \ {d} : v[i] = t[i]
      /\ u = SetFree(v, in)
  <2>1. /\ Good(v) /\ Unique(v) /\ Unlinked(t, v, d, n, in)
        /\ Look(v, d, n) = 0 /\ u = SetFree(v, in)
    BY <1>0, <1>1, LinkDeleted
  <2> QED
    BY <2>1 DEF Unlinked, SameOthers
<1>3. in \in InodeNumbers /\ Holds(t[d], n, in)
  BY <1>1, LookupIs DEF Look
<1>4. <<d, n, in>> \in Named(t)
  BY <1>1, <1>3, NamedIs DEF InUse
<1>5. in \in Taken(t) \ {Root} /\ To(t, in) = {<<d, n, in>>}
  <2>1. <<d, n, in>> \in To(t, in) /\ <<d, n, in>>[3] = in
    BY <1>4 DEF To
  <2>2. in # Root /\ in \in Taken(t)
    BY <1>4, <2>1 DEF Tree, Rooted, Pointing
  <2> QED
    BY <2>1, <2>2, OneLink
<1>6. Taken(v) = Taken(t) /\ Dirs(v) = Dirs(t)
  BY <1>2, SameSets
<1>7. /\ Taken(u) = Taken(v) \ {in} /\ Dirs(u) = Dirs(v) \ {in}
      /\ \A l : l \in Named(u) <=> l \in Named(v) /\ l[1] # in
      /\ \A x \in InodeNumbers : /\ u[x].type = v[x].type /\ u[x].count = v[x].count
                                 /\ u[x].entries = v[x].entries
                                 /\ u[x].free = (v[x].free \/ x = in)
  <2>1. in \in InodeNumbers \ {0} /\ Good(v) /\ u = SetFree(v, in)
    BY <1>2, <1>3
  <2>2. Freed(v, u, in)
    BY <2>1, FreedIs
  <2> QED
    BY <2>2 DEF Freed
<1>8. Named(u) = Named(t) \ {<<d, n, in>>}
  BY <1>2, <1>7
<1>9. Named(u) = {l \in Named(t) : l[3] \notin {in}}
  <2>1. \A l \in Named(t) : l[3] = in <=> l = <<d, n, in>>
    BY <1>5 DEF To
  <2> QED
    BY <1>8, <2>1
<1>10. Good(u) /\ Unique(u)
  <2>1. TRUE \in BOOLEAN
    OBVIOUS
  <2> QED
    BY <1>1, <2>1, DeleteFileKeeps DEF Erase
<1>11. \A x \in InodeNumbers : /\ u[x].type = t[x].type /\ u[x].count = t[x].count
                               /\ x # d => u[x].entries = t[x].entries
                               /\ u[x].free = (t[x].free \/ x = in)
  BY <1>2, <1>7 DEF SameInodes
<1>12. SameParents(t, u)
  <2> SUFFICES ASSUME NEW x \in Dirs(u) PROVE Parent(u, x) = Parent(t, x)
    BY DEF SameParents
  <2>1. x \in InodeNumbers /\ x \in Dirs(v)
    BY <1>7 DEF Dirs
  <2>2. Parent(v, x) = Parent(t, x)
    BY <1>2, <2>1 DEF SameParents
  <2> QED
    BY <1>7, <2>1, <2>2 DEF Parent
<1>13. Single(u) /\ Nothing(u)
  <2>1. Single(u)
    <3> SUFFICES ASSUME NEW i \in Taken(u), u[i].type = iTypeSoftLink PROVE u[i].count = 0
      BY DEF Single
    <3>1. i \in Taken(t) /\ i \in InodeNumbers
      BY <1>6, <1>7 DEF Taken
    <3> QED
      BY <1>11, <3>1 DEF Tree, Single
  <2>2. u[0].type = t[0].type /\ u[0].free = (t[0].free \/ 0 = in)
    BY <1>11, NumbersTyped
  <2>3. Nothing(u)
    BY <2>2 DEF Tree, Nothing
  <2> QED
    BY <2>1, <2>3
<1>14. SameCounts(t, u, Taken(u))
  BY <1>11 DEF SameCounts, Taken
<1>15. Tree(u)
  <2>1. PICK S : S = {in}
    OBVIOUS
  <2>2. S \in SUBSET (Taken(t) \ {Root}) /\ \A l \in Named(t) : l[1] \in S => l[3] \in S
    BY <1>5, <2>1
  <2>3. Taken(u) = Taken(t) \ S /\ Dirs(u) = Dirs(t) \ S
    BY <1>6, <1>7, <2>1
  <2>4. Named(u) = {l \in Named(t) : l[3] \notin S}
    BY <1>9, <2>1
  <2> QED
    BY <1>10, <1>12, <1>13, <1>14, <2>2, <2>3, <2>4, TreePruned
<1>16. Look(u, d, n) = 0
  BY <1>1, <1>2, <1>7 DEF INumberOf, FirstNamed, Look
<1>17. d # in
  BY <1>4
<1> QED
  BY <1>6, <1>7, <1>8, <1>11, <1>12, <1>15, <1>16, <1>17 DEF Erased
-----------------------------------------------------------------------------
(* A new i-node: createFile(), createSoftLink() zero the lowest free one,  *)
(* name it, and fill it in. *)
Nameless(a) == \A m \in Names : \A i : ~Holds(a, m, i)

LEMMA ShortNameless ==
    ASSUME NEW a, Len(a.entries) = 0 \/ (Len(a.entries) = 2 /\ \E d : HeadOf(a, d))
    PROVE  Nameless(a)
<1> SUFFICES ASSUME NEW m \in Names, NEW i, NEW k \in 1 .. Len(a.entries),
                    a.entries[k] = Entry(m, i)
             PROVE  FALSE
  BY DEF Nameless, Holds
<1>1. a.entries[k].name = m /\ m # "." /\ m # ".."
  BY NumbersTyped DEF Entry
<1>2. CASE Len(a.entries) = 0
  BY <1>2
<1>3. CASE Len(a.entries) = 2 /\ \E d : HeadOf(a, d)
  <2>1. PICK d : HeadOf(a, d)
    BY <1>3
  <2>2. a.entries[1].name = "." /\ a.entries[2].name = ".."
    BY <2>1 DEF HeadOf, Entry
  <2>3. k = 1 \/ k = 2
    BY <1>3
  <2> QED
    BY <1>1, <2>2, <2>3
<1> QED
  BY <1>2, <1>3

\* What the i-node of a new file, directory or soft link may be.
NewIn(e, in, d) ==
    /\ e \in Inode /\ ~e.free /\ e.count = 0 /\ Nameless(e)
    /\ e.type = iTypeDirectory => HeadOf(e, in) /\ e.entries[2].in = d /\ Distinct(e)

\* After a change the directories are there still, in a tree.
TreeFrom(t, u) == Tree(u) /\ Dirs(t) \subseteq Dirs(u)

LEMMA TreeNew ==
    ASSUME NEW t, Tree(t), NEW d \in Dirs(t), NEW n \in Names, Look(t, d, n) = 0,
           NEW in \in InodeNumbers \ {0}, t[in].free,
           NEW named, named = AddLeafName(Zeroed(t, in), d, FALSE, n, in),
           NEW e, NewIn(e, in, d),
           NEW u, u = [named EXCEPT ![in] = e]
    PROVE  TreeFrom(t, u) /\ SameCounts(t, u, Taken(t))
<1>1. /\ Good(t) /\ Unique(t) /\ d \in InodeNumbers \ {0} /\ InUse(t[d]) /\ t \in Tables
      /\ FALSE \in BOOLEAN /\ in \in InodeNumbers /\ in # d /\ 0 \in InodeNumbers
  BY NumbersTyped DEF Tree, Dirs, Good, InUse
<1>2. PICK z : z = Zeroed(t, in)
  OBVIOUS
<1>3. /\ Good(z) /\ Unique(z)
      /\ \A i \in InodeNumbers : z[i] = IF i = in THEN ZeroInode ELSE t[i]
  <2>1. /\ Good(Zeroed(t, in)) /\ (Unique(t) => Unique(Zeroed(t, in)))
        /\ \A i \in InodeNumbers : Zeroed(t, in)[i] = IF i = in THEN ZeroInode ELSE t[i]
    BY <1>1, ZeroedKeeps
  <2> QED
    BY <1>1, <1>2, <2>1
<1>4. z[d] = t[d] /\ d \in Dirs(z) /\ Look(z, d, n) = 0
  <2>1. z[d] = t[d]
    BY <1>1, <1>3
  <2> QED
    BY <1>1, <2>1 DEF Dirs, Look, INumberOf, FirstNamed
<1>5. named = AddLeafName(z, d, FALSE, n, in)
  BY <1>2
<1>6. Good(named) /\ Unique(named) /\ Linked(z, named, d, n, in)
  BY <1>1, <1>3, <1>4, <1>5, LinkAdded
<1>7. /\ named \in Tables
      /\ \A i \in InodeNumbers : u[i] = IF i = in THEN e ELSE named[i]
  BY <1>6 DEF Good, Tables
<1>8. /\ SameInodes(z, named) /\ SameParents(z, named) /\ SameOthers(z, named, d)
      /\ Named(named) = Named(z) \cup {<<d, n, in>>}
  BY <1>6 DEF Linked
<1>9. /\ e \in Inode /\ ~e.free /\ e.count = 0 /\ Nameless(e)
      /\ e.type = iTypeDirectory => HeadOf(e, in) /\ e.entries[2].in = d /\ Distinct(e)
  BY DEF NewIn
<1>10. Good(u) /\ Unique(u)
  <2>1. in # 0 /\ InUse(e) => HeadOf(e, in) /\ Distinct(e)
    BY <1>9 DEF InUse
  <2> QED
    BY <1>1, <1>6, <1>9, <2>1, OneChanged
<1>11. \A i \in InodeNumbers \ {in} : /\ u[i].free = t[i].free /\ u[i].type = t[i].type
                                       /\ u[i].count = t[i].count
  <2> TAKE i \in InodeNumbers \ {in}
  <2>1. u[i] = named[i] /\ z[i] = t[i]
    BY <1>3, <1>7
  <2>2. named[i].free = z[i].free /\ named[i].type = z[i].type /\ named[i].count = z[i].count
    BY <1>8 DEF SameInodes
  <2> QED
    BY <2>1, <2>2
<1>12. u[in] = e
  BY <1>1, <1>7
<1>13. Taken(u) = Taken(t) \cup {in}
  <2>1. ASSUME NEW i \in InodeNumbers \ {0} PROVE i \in Taken(u) <=> i \in Taken(t) \cup {in}
    BY <1>9, <1>11, <1>12, ZenonT(40) DEF Taken
  <2>2. Taken(u) \subseteq InodeNumbers \ {0} /\ Taken(t) \subseteq InodeNumbers \ {0}
    BY DEF Taken
  <2> QED
    BY <2>1, <2>2
<1>14. Dirs(u) = IF e.type = iTypeDirectory THEN Dirs(t) \cup {in} ELSE Dirs(t)
  <2>1. ASSUME NEW i \in InodeNumbers \ {0} PROVE i # in => (i \in Dirs(u) <=> i \in Dirs(t))
    BY <1>11 DEF Dirs, InUse
  <2>2. in \notin Dirs(t) /\ (in \in Dirs(u) <=> e.type = iTypeDirectory)
    BY <1>9, <1>12 DEF Dirs, InUse
  <2>3. Dirs(u) \subseteq InodeNumbers \ {0} /\ Dirs(t) \subseteq InodeNumbers \ {0}
    BY DEF Dirs
  <2>4. CASE e.type = iTypeDirectory
    BY <2>1, <2>2, <2>3, <2>4
  <2>5. CASE e.type # iTypeDirectory
    <3>1. \A i \in InodeNumbers \ {0} : i \in Dirs(u) <=> i \in Dirs(t)
      BY <2>1, <2>2, <2>5
    <3>2. Dirs(u) = Dirs(t)
      BY <2>3, <3>1
    <3> QED
      BY <2>5, <3>2
  <2> QED
    BY <2>4, <2>5
<1>15. e.type = iTypeDirectory => Parent(u, in) = d
  BY <1>9, <1>12 DEF Parent
<1>16. \A x \in Dirs(t) : Parent(u, x) = Parent(t, x)
  <2> SUFFICES ASSUME NEW x \in Dirs(t) PROVE Parent(u, x) = Parent(t, x)
    OBVIOUS
  <2>1. x \in InodeNumbers \ {0} /\ x # in /\ InUse(t[x])
    BY DEF Dirs, InUse
  <2>2. u[x] = named[x] /\ z[x] = t[x]
    BY <1>3, <1>7, <2>1
  <2>3. x \in Dirs(named)
    BY <1>8, <2>1, <2>2, ZenonT(40) DEF Dirs, InUse, SameInodes
  <2>4. Parent(named, x) = Parent(z, x)
    BY <1>8, <2>3 DEF SameParents
  <2> QED
    BY <2>2, <2>4 DEF Parent
<1>17. Named(u) = Named(t) \cup {<<d, n, in>>}
  <2>1. Nameless(ZeroInode)
    <3>1. Len(ZeroInode.entries) = 0
      BY DEF ZeroInode
    <3> QED
      BY <3>1, ShortNameless
  <2>2. ASSUME NEW l \in Triples PROVE l \in Named(u) <=> l \in Named(t) \/ l = <<d, n, in>>
    <3>1. PICK x \in InodeNumbers, m \in Names, i \in InodeNumbers : l = <<x, m, i>>
      BY DEF Triples
    <3>2. CASE x = in
      <4>1. l \notin Named(u)
        <5>1. ~Holds(u[x], m, i)
          BY <1>9, <1>12, <3>2 DEF Nameless
        <5> QED
          BY <3>1, <5>1, NamedIs
      <4>2. l \notin Named(t)
        BY <3>1, <3>2, NamedIs
      <4>3. l # <<d, n, in>>
        BY <1>1, <3>1, <3>2
      <4> QED
        BY <4>1, <4>2, <4>3
    <3>3. CASE x # in
      <4>1. u[x] = named[x] /\ z[x] = t[x]
        BY <1>3, <1>7, <3>3
      <4>2. l \in Named(u) <=> l \in Named(named)
        BY <3>1, <4>1, NamedIs
      <4>3. l \in Named(z) <=> l \in Named(t)
        BY <3>1, <4>1, NamedIs
      <4> QED
        BY <1>8, <4>2, <4>3
    <3> QED
      BY <3>2, <3>3
  <2>3. <<d, n, in>> \in Triples
    BY <1>1 DEF Triples
  <2>4. Named(u) \subseteq Triples /\ Named(t) \subseteq Triples
    BY DEF Named
  <2> QED
    BY <2>2, <2>3, <2>4
<1>18. Single(u)
  <2> SUFFICES ASSUME NEW i \in Taken(u), u[i].type = iTypeSoftLink PROVE u[i].count = 0
    BY DEF Single
  <2>1. i = in \/ (i \in InodeNumbers \ {in} /\ i \in Taken(t))
    BY <1>13 DEF Taken
  <2> QED
    BY <1>9, <1>11, <1>12, <2>1 DEF Tree, Single
<1>19. Nothing(u)
  BY <1>1, <1>11 DEF Tree, Nothing
<1>20. SameCounts(t, u, Taken(t)) /\ u[in].count = 0 /\ in \notin Taken(t)
  BY <1>9, <1>11, <1>12 DEF SameCounts, Taken
<1> QED
  <2>1. Dirs(u) = Dirs(t) \/ (Dirs(u) = Dirs(t) \cup {in} /\ Parent(u, in) = d)
    BY <1>14, <1>15
  <2>2. Grown(t, u, d, n, in)
    BY <1>13, <1>16, <1>17, <1>20, <2>1 DEF Grown
  <2>3. Dirs(t) \subseteq Dirs(u)
    BY <2>1
  <2> QED
    BY <1>10, <1>18, <1>19, <1>20, <2>2, <2>3, TreeGrown DEF TreeFrom

LEMMA TreeCreated ==
    ASSUME NEW t, Tree(t), NEW d \in Dirs(t), NEW n \in Names, Look(t, d, n) = 0,
           NEW dirFlag \in BOOLEAN
    PROVE  TreeFrom(t, CreateNewFile(t, d, n, dirFlag))
<1>1. PICK in : in = GetFree(t)
  OBVIOUS
<1>2. PICK named : named = AddLeafName(Zeroed(t, in), d, FALSE, n, in)
  OBVIOUS
<1> DEFINE typed == IF dirFlag THEN MakeDirectory(named, in, d)
                    ELSE [named EXCEPT ![in].type = iTypeOrdinary]
           u == CreateNewFile(t, d, n, dirFlag)
<1>3. u = IF in = 0 THEN t ELSE [typed EXCEPT ![in].count = 0]
  BY <1>1, <1>2 DEF CreateNewFile
<1>4. CASE in = 0
  BY <1>3, <1>4 DEF TreeFrom
<1>5. CASE in # 0
  <2>1. u = [typed EXCEPT ![in].count = 0]
    BY <1>3, <1>5
  <2> HIDE DEF u
  <2>2. t \in Tables /\ Good(t) /\ d \in InodeNumbers \ {0} /\ ~t[d].free
    BY DEF Tree, Good, Dirs, InUse
  <2>3. in \in InodeNumbers \ {0} /\ t[in].free
    BY <1>1, <1>5, <2>2, FreeIs
  <2>4. Good(named) /\ named \in Tables /\ named[in] = ZeroInode
    <3>1. in # d /\ n \in AllNames /\ in \in InodeNumbers
      BY <2>2, <2>3 DEF AllNames
    <3>2. Good(Zeroed(t, in)) /\ Zeroed(t, in)[in] = ZeroInode
      BY <2>2, <3>1, ZeroedKeeps
    <3>3. Good(named) /\ OnlyEntries(Zeroed(t, in), named, d)
      BY <1>2, <2>2, <3>1, <3>2, AddNewLeafNameKeeps
    <3> QED
      BY <2>2, <2>3, <3>1, <3>2, <3>3 DEF OnlyEntries, Good
  <2>5. ZeroInode \in Inode /\ ZeroInode.entries = <<>> /\ ~ZeroInode.free
    BY <2>3, <2>4 DEF Tables, ZeroInode
  <2>6. \E e : NewIn(e, in, d) /\ u = [named EXCEPT ![in] = e]
    <3>1. CASE dirFlag
      <4>1. PICK b \in Inode : /\ MakeDirectory(named, in, d) = [named EXCEPT ![in] = b]
                               /\ HeadOf(b, in) /\ Distinct(b)
                               /\ Len(b.entries) = 2 /\ b.entries[2] = Entry("..", d)
                               /\ b.type = iTypeDirectory /\ ~b.free
        BY <2>2, <2>3, <2>4, <2>5, MakeDirectoryIs
      <4> DEFINE e == [b EXCEPT !.count = 0]
      <4>2. /\ e \in Inode /\ e.entries = b.entries /\ e.type = b.type /\ e.free = b.free
            /\ e.count = 0
        BY NumbersTyped DEF Inode
      <4>3. u = [named EXCEPT ![in] = e]
        BY <2>1, <2>3, <2>4, <3>1, <4>1 DEF Tables
      <4> HIDE DEF e
      <4>4. HeadOf(e, in) /\ Distinct(e) /\ e.entries[2].in = d
        BY <4>1, <4>2 DEF HeadOf, Distinct, Entry
      <4>5. Nameless(e)
        BY <4>1, <4>2, <4>4, ShortNameless
      <4>6. NewIn(e, in, d)
        BY <4>1, <4>2, <4>4, <4>5 DEF NewIn
      <4> QED
        BY <4>3, <4>6
    <3>2. CASE ~dirFlag
      <4> DEFINE e == [ZeroInode EXCEPT !.type = iTypeOrdinary, !.count = 0]
      <4>1. /\ e \in Inode /\ ~e.free /\ e.count = 0 /\ e.entries = <<>>
            /\ e.type # iTypeDirectory
        <5>1. iTypeOrdinary \in 0 .. 3 /\ 0 \in 0 .. MaxCount /\ iTypeOrdinary # iTypeDirectory
          BY NumbersTyped DEF iTypeOrdinary, iTypeDirectory
        <5> QED
          BY <2>5, <5>1 DEF Inode
      <4>2. u = [named EXCEPT ![in] = e]
        <5>1. typed = [named EXCEPT ![in].type = iTypeOrdinary]
          BY <3>2
        <5> HIDE DEF typed
        <5> QED
          BY <2>1, <2>3, <2>4, <5>1 DEF Tables, Inode
      <4> HIDE DEF e
      <4>3. Nameless(e)
        BY <4>1, ShortNameless
      <4>4. NewIn(e, in, d)
        BY <4>1, <4>3 DEF NewIn
      <4> QED
        BY <4>2, <4>4
    <3> QED
      BY <3>1, <3>2
  <2>7. PICK e : NewIn(e, in, d) /\ u = [named EXCEPT ![in] = e]
    BY <2>6
  <2>8. TreeFrom(t, u)
    BY <1>2, <2>3, <2>7, TreeNew
  <2> QED
    BY <2>8 DEF u
<1> QED
  BY <1>4, <1>5
LEMMA TreeSoftLinked ==
    ASSUME NEW t, Tree(t), NEW d \in Dirs(t), NEW n \in Names, Look(t, d, n) = 0,
           NEW dirFlag \in BOOLEAN, NEW path \in Names \cup {None}
    PROVE  /\ TreeFrom(t, CreateSoftLink(t, d, n, dirFlag, path))
           /\ SameCounts(t, CreateSoftLink(t, d, n, dirFlag, path), Taken(t))
           /\ GetFree(t) # 0 => CreateSoftLink(t, d, n, dirFlag, path)[GetFree(t)].count = 0
           /\ GetFree(t) = 0 => CreateSoftLink(t, d, n, dirFlag, path) = t
<1>1. PICK in : in = GetFree(t)
  OBVIOUS
<1>2. PICK named : named = AddLeafName(Zeroed(t, in), d, FALSE, n, in)
  OBVIOUS
<1> DEFINE dotted == IF dirFlag THEN MakeDirectory(named, in, d) ELSE named
           u == CreateSoftLink(t, d, n, dirFlag, path)
<1>3. u = IF in = 0 THEN t
          ELSE [dotted EXCEPT ![in].type = iTypeSoftLink, ![in].count = 0, ![in].path = path]
  BY <1>1, <1>2 DEF CreateSoftLink
<1>4. CASE in = 0
  BY <1>1, <1>3, <1>4 DEF SameCounts, TreeFrom
<1>5. CASE in # 0
  <2>1. u = [dotted EXCEPT ![in].type = iTypeSoftLink, ![in].count = 0, ![in].path = path]
    BY <1>3, <1>5
  <2> HIDE DEF u
  <2>2. t \in Tables /\ Good(t) /\ d \in InodeNumbers \ {0} /\ ~t[d].free
    BY DEF Tree, Good, Dirs, InUse
  <2>3. in \in InodeNumbers \ {0} /\ t[in].free
    BY <1>1, <1>5, <2>2, FreeIs
  <2>4. Good(named) /\ named \in Tables /\ named[in] = ZeroInode
    <3>1. in # d /\ n \in AllNames /\ in \in InodeNumbers
      BY <2>2, <2>3 DEF AllNames
    <3>2. Good(Zeroed(t, in)) /\ Zeroed(t, in)[in] = ZeroInode
      BY <2>2, <3>1, ZeroedKeeps
    <3>3. Good(named) /\ OnlyEntries(Zeroed(t, in), named, d)
      BY <1>2, <2>2, <3>1, <3>2, AddNewLeafNameKeeps
    <3> QED
      BY <2>2, <2>3, <3>1, <3>2, <3>3 DEF OnlyEntries, Good
  <2>5. ZeroInode \in Inode /\ ZeroInode.entries = <<>> /\ ~ZeroInode.free
    BY <2>3, <2>4 DEF Tables, ZeroInode
  <2>6. \E b \in Inode : dotted = [named EXCEPT ![in] = b] /\ Nameless(b) /\ ~b.free
    <3>1. CASE dirFlag
      <4>1. PICK b \in Inode : /\ MakeDirectory(named, in, d) = [named EXCEPT ![in] = b]
                               /\ HeadOf(b, in) /\ Distinct(b)
                               /\ Len(b.entries) = 2 /\ b.entries[2] = Entry("..", d)
                               /\ b.type = iTypeDirectory /\ ~b.free
        BY <2>2, <2>3, <2>4, <2>5, MakeDirectoryIs
      <4>2. Nameless(b)
        BY <4>1, ShortNameless
      <4>3. dotted = [named EXCEPT ![in] = b]
        BY <3>1, <4>1
      <4> QED
        BY <4>1, <4>2, <4>3
    <3>2. CASE ~dirFlag
      <4>1. dotted = [named EXCEPT ![in] = ZeroInode]
        BY <2>3, <2>4, <3>2 DEF Tables
      <4>2. Len(ZeroInode.entries) = 0
        BY <2>5
      <4>3. Nameless(ZeroInode)
        BY <4>2, ShortNameless
      <4> QED
        BY <2>5, <4>1, <4>3
    <3> QED
      BY <3>1, <3>2
  <2>7. PICK b \in Inode : dotted = [named EXCEPT ![in] = b] /\ Nameless(b) /\ ~b.free
    BY <2>6
  <2> HIDE DEF dotted
  <2> DEFINE e == [b EXCEPT !.type = iTypeSoftLink, !.count = 0, !.path = path]
  <2>8. /\ e \in Inode /\ e.type # iTypeDirectory /\ e.entries = b.entries /\ e.count = 0
        /\ ~e.free
    <3>1. iTypeSoftLink \in 0 .. 3 /\ 0 \in 0 .. MaxCount /\ iTypeSoftLink # iTypeDirectory
      BY NumbersTyped DEF iTypeSoftLink, iTypeDirectory
    <3> QED
      BY <2>7, <3>1 DEF Inode
  <2>9. u = [named EXCEPT ![in] = e]
    BY <2>1, <2>3, <2>4, <2>7 DEF Tables, Inode
  <2> HIDE DEF e
  <2>10. NewIn(e, in, d)
    BY <2>7, <2>8 DEF NewIn, Nameless, Holds
  <2>11. TreeFrom(t, u) /\ SameCounts(t, u, Taken(t))
    BY <1>2, <2>3, <2>9, <2>10, TreeNew
  <2>12. u[in].count = 0
    BY <2>3, <2>4, <2>8, <2>9 DEF Tables
  <2> QED
    BY <1>1, <1>5, <2>11, <2>12 DEF u, SameCounts
<1> QED
  BY <1>4, <1>5

(* The count of i-node 0 says nothing. *)
LEMMA TreeZeroCount ==
    ASSUME NEW t, Tree(t), NEW c \in 0 .. MaxCount, NEW u, u = [t EXCEPT ![0].count = c]
    PROVE  TreeFrom(t, u)
<1>1. Good(t) /\ t \in Tables /\ 0 \in InodeNumbers
  BY NumbersTyped DEF Tree, Good
<1>3. Good(u) /\ Unique(u)
  BY <1>1, CountedKeeps DEF Tree
<1>4. /\ \A i \in InodeNumbers : u[i].free = t[i].free /\ u[i].type = t[i].type
                                 /\ u[i].entries = t[i].entries
      /\ \A i \in InodeNumbers \ {0} : u[i] = t[i]
  <2>1. \A i \in InodeNumbers : u[i] = IF i = 0 THEN [t[0] EXCEPT !.count = c] ELSE t[i]
    BY <1>1 DEF Tables
  <2>2. u[0] = [t[0] EXCEPT !.count = c] /\ t[0] \in Inode
    BY <1>1, <2>1 DEF Tables
  <2>3. u[0].free = t[0].free /\ u[0].type = t[0].type /\ u[0].entries = t[0].entries
    BY <2>2 DEF Inode
  <2> QED
    BY <2>1, <2>3
<1>5. Taken(u) = Taken(t) /\ Dirs(u) = Dirs(t)
  BY <1>4 DEF Taken, Dirs, InUse
<1>6. SameParents(t, u) /\ SameCounts(t, u, Taken(u))
  BY <1>4 DEF SameParents, SameCounts, Parent, Dirs, Taken
<1>7. Named(u) = Named(t)
  <2>1. \A x \in InodeNumbers : \A m, j : Holds(u[x], m, j) <=> Holds(t[x], m, j)
    BY <1>4 DEF Holds
  <2>2. \A l \in Triples : l[1] \in InodeNumbers
    BY DEF Triples
  <2> QED
    BY <1>4, <2>1, <2>2 DEF Named
<1>8. Single(u) /\ Nothing(u)
  BY <1>4, <1>5, NumbersTyped DEF Tree, Single, Nothing, Taken
<1>9. PICK S : S = {}
  OBVIOUS
<1>10. /\ S \in SUBSET (Taken(t) \ {Root}) /\ \A l \in Named(t) : l[1] \in S => l[3] \in S
       /\ Taken(u) = Taken(t) \ S /\ Dirs(u) = Dirs(t) \ S
       /\ Named(u) = {l \in Named(t) : l[3] \notin S}
  BY <1>5, <1>7, <1>9
<1> QED
  BY <1>3, <1>5, <1>6, <1>8, <1>10, TreePruned DEF TreeFrom

(* A soft link that is copied has no other name, and so no count to give:  *)
(* also if there is no i-node for the copy, and i-node 0 gets it.          *)
LEMMA TreeCopied ==
    ASSUME NEW t, Tree(t), NEW d \in Dirs(t), NEW from \in Names, NEW to \in Names,
           t[Look(t, d, from)].type = iTypeSoftLink, Look(t, d, to) = 0
    PROVE  TreeFrom(t, CopySoftLink(t, d, from, to))
<1>1. PICK in : in = Look(t, d, from)
  OBVIOUS
<1>2. PICK g : g = GetFree(t)
  OBVIOUS
<1>3. PICK v : v = CreateSoftLink(t, d, to, FALSE, t[in].path)
  OBVIOUS
<1>4. Good(t) /\ t \in Tables /\ d \in InodeNumbers /\ InUse(t[d]) /\ FALSE \in BOOLEAN
  BY DEF Tree, Good, Dirs
<1>5. in \in InodeNumbers /\ g \in InodeNumbers /\ in # 0
  <2>1. in # 0
    BY <1>1 DEF Tree, Nothing, iTypeSoftLink
  <2> QED
    BY <1>1, <1>2, <1>4, <2>1, LookupIs, FreeIs DEF Look
<1>6. in \in Taken(t)
  <2>1. Holds(t[d], from, in)
    BY <1>1, <1>4, <1>5, LookupIs DEF Look
  <2>2. <<d, from, in>> \in Named(t)
    BY <1>4, <1>5, <2>1, NamedIs DEF InUse
  <2>3. <<d, from, in>>[3] = in
    OBVIOUS
  <2> QED
    BY <2>2, <2>3 DEF Tree, Pointing
<1>7. t[in].count = 0 /\ t[in].path \in Names \cup {None}
  BY <1>1, <1>4, <1>5, <1>6 DEF Tree, Single, Tables, Inode
<1>8. TreeFrom(t, v) /\ SameCounts(t, v, Taken(t)) /\ (g # 0 => v[g].count = 0) /\ (g = 0 => v = t)
  BY <1>2, <1>3, <1>4, <1>7, TreeSoftLinked
<1>9. CopySoftLink(t, d, from, to) = [v EXCEPT ![g].count = v[in].count]
  BY <1>1, <1>2, <1>3, <1>5 DEF CopySoftLink, Look
<1>10. v[in].count = 0
  BY <1>6, <1>7, <1>8 DEF SameCounts
<1>11. CASE g # 0
  <2>1. [v EXCEPT ![g].count = 0] = v
    BY <1>5, <1>8, <1>11 DEF TreeFrom, Tree, Good, Tables, Inode
  <2> QED
    BY <1>8, <1>9, <1>10, <2>1
<1>12. CASE g = 0
  <2>1. PICK u : u = [t EXCEPT ![0].count = 0]
    OBVIOUS
  <2>2. CopySoftLink(t, d, from, to) = u
    BY <1>8, <1>9, <1>10, <1>12, <2>1
  <2>3. 0 \in 0 .. MaxCount
    BY NumbersTyped
  <2> QED
    BY <2>1, <2>2, <2>3, TreeZeroCount
<1> QED
  BY <1>11, <1>12
-----------------------------------------------------------------------------
(* One name of a file or a soft link is moved, added or dropped. *)
LEMMA SameRest ==
    ASSUME NEW t, Tree(t), NEW u, SameInodes(t, u)
    PROVE  Single(u) /\ Nothing(u) /\ \A S \in SUBSET InodeNumbers : SameCounts(t, u, S)
<1>1. 0 \in InodeNumbers /\ \A i \in Taken(u) : i \in InodeNumbers /\ i \in Taken(t)
  BY NumbersTyped, SameSets DEF Taken
<1> QED
  BY <1>1 DEF Tree, Single, Nothing, SameInodes, SameCounts

LEMMA TreeMoved ==
    ASSUME NEW t, Tree(t), NEW in \in Taken(t) \ Dirs(t),
           NEW old \in To(t, in), NEW new, new[3] = in, new[1] \in Dirs(t),
           new \notin Named(t) \ {old},
           NEW u, Good(u), Unique(u), SameInodes(t, u), SameParents(t, u),
           Named(u) = (Named(t) \ {old}) \cup {new}
    PROVE  Tree(u)
<1>1. Taken(u) = Taken(t) /\ Dirs(u) = Dirs(t)
  BY SameSets
<1>2. Taken(t) \in SUBSET InodeNumbers /\ in \in InodeNumbers /\ in # Root
  BY DEF Taken, Tree, Rooted
<1>3. Single(u) /\ Nothing(u) /\ SameCounts(t, u, Taken(t) \ {in})
  BY <1>2, SameRest
<1>4. old[3] = in /\ old \in Named(t)
  BY DEF To
<1>5. \A l : l[3] # in => (l \in Named(u) <=> l \in Named(t))
  BY <1>4
<1>6. To(u, in) = (To(t, in) \ {old}) \cup {new}
  BY <1>4 DEF To
<1>7. \A l \in To(u, in) : l[1] \in Dirs(t)
  BY <1>6 DEF Tree, Pointing, To
<1>8. /\ IsFiniteSet(To(t, in)) /\ Cardinality(To(t, in)) = t[in].count + 1
      /\ u[in].count = t[in].count
  BY <1>2 DEF Tree, Counted, Wanted, SameInodes
<1>9. IsFiniteSet(To(t, in) \ {old}) /\ Cardinality(To(t, in) \ {old}) = Cardinality(To(t, in)) - 1
  BY <1>8, FS_RemoveElement
<1>10. new \notin To(t, in) \ {old}
  BY DEF To
<1>11. /\ IsFiniteSet((To(t, in) \ {old}) \cup {new})
       /\ Cardinality((To(t, in) \ {old}) \cup {new}) = Cardinality(To(t, in) \ {old}) + 1
  BY <1>9, <1>10, FS_AddElement
<1>12. Cardinality(To(t, in)) \in Nat
  BY <1>8, FS_CardinalityType
<1>13. IsFiniteSet(To(u, in)) /\ Cardinality(To(u, in)) = u[in].count + 1
  BY <1>6, <1>8, <1>9, <1>11, <1>12
<1> QED
  BY <1>1, <1>3, <1>5, <1>7, <1>13, TreeRelinked

\* In u a name of in is added to t and the count raised; in may get a type.
Raised(t, u, in) ==
    /\ \A i \in InodeNumbers : u[i].free = t[i].free /\ u[i].entries = t[i].entries
    /\ \A i \in InodeNumbers \ {in} : u[i] = t[i]
    /\ u[in].count = t[in].count + 1 /\ u[in].type = iTypeOrdinary

LEMMA TreeHardLinked ==
    ASSUME NEW t, Tree(t), NEW d \in Dirs(t), NEW n \in Names, Look(t, d, n) = 0,
           NEW in \in Taken(t) \ Dirs(t), t[in].count < MaxCount
    PROVE  TreeFrom(t, CreateHardLink(t, d, n, in))
<1>1. PICK v : v = AddLeafName(t, d, FALSE, n, in)
  OBVIOUS
<1>2. PICK u : u = [v EXCEPT ![in].count = @ + 1, ![in].type = iTypeOrdinary]
  OBVIOUS
<1>3. CreateHardLink(t, d, n, in) = u
  BY <1>1, <1>2 DEF CreateHardLink
<1>4. /\ Good(t) /\ Unique(t) /\ FALSE \in BOOLEAN /\ in \in InodeNumbers \ {0} /\ in # Root
      /\ d \in InodeNumbers /\ t \in Tables
  BY DEF Tree, Rooted, Taken, Dirs, Good
<1>5. Good(v) /\ Unique(v) /\ Linked(t, v, d, n, in)
  BY <1>1, <1>4, LinkAdded
<1>6. /\ SameInodes(t, v) /\ SameParents(t, v) /\ Named(v) = Named(t) \cup {<<d, n, in>>}
      /\ v \in Tables
  BY <1>5 DEF Linked, Good
<1>7. Good(u) /\ Unique(u)
  BY <1>3, <1>4, CreateHardLinkKeeps
<1>8. Raised(v, u, in)
  <2>1. \A i \in InodeNumbers :
          u[i] = IF i = in THEN [v[in] EXCEPT !.count = @ + 1, !.type = iTypeOrdinary] ELSE v[i]
    BY <1>2, <1>4, <1>6 DEF Tables, Inode
  <2>2. u[in] = [v[in] EXCEPT !.count = @ + 1, !.type = iTypeOrdinary] /\ v[in] \in Inode
    BY <1>4, <1>6, <2>1 DEF Tables
  <2>3. /\ u[in].free = v[in].free /\ u[in].entries = v[in].entries
        /\ u[in].count = v[in].count + 1 /\ u[in].type = iTypeOrdinary
    BY <2>2 DEF Inode
  <2> QED
    BY <2>1, <2>3 DEF Raised
<1>9. Taken(u) = Taken(v) /\ Taken(v) = Taken(t) /\ Dirs(v) = Dirs(t)
  BY <1>6, <1>8, SameSets DEF Raised, Taken
<1>10. Dirs(u) = Dirs(v)
  <2>1. in \notin Dirs(u) /\ in \notin Dirs(v)
    BY <1>8, <1>9 DEF Raised, Dirs, InUse, iTypeOrdinary, iTypeDirectory
  <2>2. \A i \in InodeNumbers \ {0} : i \in Dirs(u) <=> i \in Dirs(v)
    BY <1>8, <2>1 DEF Raised, Dirs
  <2> QED
    BY <2>2 DEF Dirs
<1>11. SameParents(t, u)
  BY <1>6, <1>8, <1>10 DEF SameParents, Raised, Parent, Dirs
<1>12. Named(u) = Named(v)
  <2>1. \A x \in InodeNumbers : \A m, j : Holds(u[x], m, j) <=> Holds(v[x], m, j)
    BY <1>8 DEF Holds, Raised
  <2>2. \A l \in Triples : l[1] \in InodeNumbers
    BY DEF Triples
  <2> QED
    BY <1>8, <2>1, <2>2 DEF Named, Raised
<1>13. Single(u) /\ Nothing(u) /\ SameCounts(t, u, Taken(t) \ {in})
  <2>1. 0 \in InodeNumbers \ {in}
    BY <1>4, NumbersTyped
  <2>2. Nothing(u)
    BY <1>6, <1>8, <2>1 DEF Tree, Nothing, Raised, SameInodes
  <2>3. \A i \in Taken(t) \ {in} : u[i].count = t[i].count /\ u[i].type = t[i].type
    BY <1>6, <1>8 DEF Raised, SameInodes, Taken
  <2>4. Single(u)
    BY <1>8, <1>9, <2>3 DEF Tree, Single, Raised, iTypeOrdinary, iTypeSoftLink
  <2> QED
    BY <2>2, <2>3, <2>4 DEF SameCounts
<1>14. <<d, n, in>>[1] = d /\ <<d, n, in>>[3] = in
  OBVIOUS
<1>15. \A l : l[3] # in => (l \in Named(u) <=> l \in Named(t))
  BY <1>6, <1>12, <1>14
<1>16. To(u, in) = To(t, in) \cup {<<d, n, in>>}
  BY <1>6, <1>12, <1>14 DEF To
<1>17. \A l \in To(u, in) : l[1] \in Dirs(t)
  BY <1>14, <1>16 DEF Tree, Pointing, To
<1>18. <<d, n, in>> \notin To(t, in)
  <2>1. ~Holds(t[d], n, in)
    BY <1>4, LookupIs DEF Look
  <2> QED
    BY <1>4, <2>1, NamedIs DEF To
<1>19. /\ IsFiniteSet(To(t, in)) /\ Cardinality(To(t, in)) = t[in].count + 1
       /\ u[in].count = t[in].count + 1
  BY <1>4, <1>6, <1>8 DEF Tree, Counted, Wanted, SameInodes, Raised
<1>20. /\ IsFiniteSet(To(u, in)) /\ Cardinality(To(u, in)) = Cardinality(To(t, in)) + 1
  BY <1>16, <1>18, <1>19, FS_AddElement
<1>21. Tree(u)
  BY <1>7, <1>9, <1>10, <1>11, <1>13, <1>15, <1>17, <1>19, <1>20, TreeRelinked
<1> QED
  BY <1>3, <1>9, <1>10, <1>21 DEF TreeFrom
\* In u the count of in is another, and nothing else.
Recounted(t, u, in, c) ==
    /\ \A i \in InodeNumbers :
         u[i].free = t[i].free /\ u[i].type = t[i].type /\ u[i].entries = t[i].entries
    /\ \A i \in InodeNumbers \ {in} : u[i] = t[i]
    /\ u[in].count = c

WithCount(t, in, c) == [t EXCEPT ![in].count = c]

LEMMA RecountedIs ==
    ASSUME NEW t, Good(t), Unique(t), NEW in \in InodeNumbers, NEW c \in 0 .. MaxCount,
           NEW u, u = WithCount(t, in, c)
    PROVE  Good(u) /\ Unique(u) /\ Recounted(t, u, in, c)
<1>1. t \in Tables
  BY DEF Good
<1>2. Good(u) /\ Unique(u)
  BY CountedKeeps DEF WithCount
<1>3. Recounted(t, u, in, c)
  <2>1. \A i \in InodeNumbers : u[i] = IF i = in THEN [t[in] EXCEPT !.count = c] ELSE t[i]
    BY <1>1 DEF Tables, WithCount
  <2>2. u[in] = [t[in] EXCEPT !.count = c] /\ t[in] \in Inode
    BY <1>1, <2>1 DEF Tables
  <2>3. /\ u[in].free = t[in].free /\ u[in].type = t[in].type /\ u[in].entries = t[in].entries
        /\ u[in].count = c
    BY <2>2 DEF Inode
  <2> QED
    BY <2>1, <2>3 DEF Recounted
<1> QED
  BY <1>2, <1>3

LEMMA RecountedSets ==
    ASSUME NEW t, NEW u, NEW in, NEW c, Recounted(t, u, in, c)
    PROVE  /\ Taken(u) = Taken(t) /\ Dirs(u) = Dirs(t) /\ Named(u) = Named(t)
           /\ \A x \in InodeNumbers : Parent(u, x) = Parent(t, x)
<1>1. Taken(u) = Taken(t) /\ Dirs(u) = Dirs(t)
  BY DEF Recounted, Taken, Dirs, InUse
<1>2. Named(u) = Named(t)
  <2>1. \A x \in InodeNumbers : \A m, j : Holds(u[x], m, j) <=> Holds(t[x], m, j)
    BY DEF Holds, Recounted
  <2>2. \A l \in Triples : l[1] \in InodeNumbers
    BY DEF Triples
  <2> QED
    BY <2>1, <2>2 DEF Named, Recounted
<1>3. \A x \in InodeNumbers : Parent(u, x) = Parent(t, x)
  BY DEF Recounted, Parent
<1> QED
  BY <1>1, <1>2, <1>3

LEMMA TreeUnlinked ==
    ASSUME NEW t, Tree(t), NEW d \in Dirs(t), NEW n \in Names,
           NEW in, in = Look(t, d, n), in # 0, in \notin Dirs(t), t[in].count # 0,
           NEW u, u = [Unname(t, d, n) EXCEPT ![in].count = @ - 1]
    PROVE  TreeFrom(t, u)
<1>1. PICK v : v = Unname(t, d, n)
  OBVIOUS
<1>2. Good(t) /\ Unique(t) /\ d \in InodeNumbers /\ InUse(t[d]) /\ t \in Tables
  BY DEF Tree, Dirs, Good
<1>3. Good(v) /\ Unique(v) /\ Unlinked(t, v, d, n, in)
  BY <1>1, <1>2, LinkDeleted
<1>4. /\ SameInodes(t, v) /\ SameParents(t, v) /\ Named(v) = Named(t) \ {<<d, n, in>>}
      /\ v \in Tables
  BY <1>3 DEF Unlinked, Good
<1>5. in \in InodeNumbers /\ Holds(t[d], n, in)
  BY <1>2, LookupIs DEF Look
<1>6. <<d, n, in>> \in Named(t)
  BY <1>2, <1>5, NamedIs DEF InUse
<1>7. <<d, n, in>> \in To(t, in) /\ <<d, n, in>>[1] = d /\ <<d, n, in>>[3] = in
  BY <1>6 DEF To
<1>8. in \in Taken(t) /\ in # Root
  BY <1>6, <1>7 DEF Tree, Pointing, Rooted
<1> DEFINE c == t[in].count - 1
<1>9. c \in 0 .. MaxCount /\ c \in Nat /\ t[in].count = c + 1 /\ v[in].count = t[in].count
  <2>1. t[in].count \in 0 .. MaxCount
    BY <1>2, <1>5 DEF Tables, Inode
  <2> QED
    BY <1>4, <1>5, <2>1, NumbersTyped DEF SameInodes
<1>10. u = WithCount(v, in, c)
  BY <1>1, <1>4, <1>5, <1>9 DEF Tables, Inode, WithCount
<1> HIDE DEF c
<1>11. /\ Good(u) /\ Unique(u) /\ Recounted(v, u, in, c)
       /\ Taken(u) = Taken(v) /\ Dirs(u) = Dirs(v) /\ Named(u) = Named(v)
       /\ \A x \in InodeNumbers : Parent(u, x) = Parent(v, x)
  <2>1. c \in 0 .. MaxCount
    BY <1>9
  <2>2. Good(u) /\ Unique(u) /\ Recounted(v, u, in, c)
    BY <1>3, <1>5, <1>10, <2>1, RecountedIs
  <2>3. /\ Taken(u) = Taken(v) /\ Dirs(u) = Dirs(v) /\ Named(u) = Named(v)
        /\ \A x \in InodeNumbers : Parent(u, x) = Parent(v, x)
    BY <2>2, RecountedSets
  <2> QED
    BY <2>2, <2>3
<1>12. Taken(v) = Taken(t) /\ Dirs(v) = Dirs(t)
  BY <1>4, SameSets
<1>13. SameParents(t, u)
  BY <1>4, <1>11 DEF SameParents, Dirs
<1>14. Single(v) /\ Nothing(v) /\ SameCounts(t, v, Taken(t))
  <2>1. Taken(t) \in SUBSET InodeNumbers
    BY DEF Taken
  <2> QED
    BY <1>4, <2>1, SameRest
<1>15. SameCounts(t, u, Taken(t) \ {in})
  BY <1>11, <1>14 DEF SameCounts, Recounted, Taken
<1>16. Nothing(u)
  BY <1>11, <1>14, NumbersTyped DEF Nothing, Recounted
<1>17. Single(u)
  <2>1. t[in].type # iTypeSoftLink
    BY <1>8 DEF Tree, Single
  <2>2. v[in].type # iTypeSoftLink /\ u[in].type = v[in].type
    BY <1>4, <1>5, <1>11, <2>1 DEF SameInodes, Recounted
  <2> QED
    BY <1>11, <1>14, <2>2 DEF Single, Recounted, Taken
<1>18. \A l : l[3] # in => (l \in Named(u) <=> l \in Named(t))
  BY <1>4, <1>7, <1>11
<1>19. To(u, in) = To(t, in) \ {<<d, n, in>>}
  BY <1>4, <1>11 DEF To
<1>20. \A l \in To(u, in) : l[1] \in Dirs(t)
  BY <1>19 DEF Tree, Pointing, To
<1>21. IsFiniteSet(To(t, in)) /\ Cardinality(To(t, in)) = c + 2
  <2>1. IsFiniteSet(To(t, in)) /\ Cardinality(To(t, in)) = t[in].count + 1
    BY <1>8 DEF Tree, Counted, Wanted
  <2> QED
    BY <1>9, <2>1
<1>22. /\ IsFiniteSet(To(u, in))
       /\ Cardinality(To(u, in)) = Cardinality(To(t, in)) - 1
  BY <1>7, <1>19, <1>21, FS_RemoveElement, ZenonT(40)
<1>23. Cardinality(To(u, in)) = u[in].count + 1
  BY <1>9, <1>11, <1>21, <1>22 DEF Recounted
<1> QED
  BY <1>8, <1>11, <1>12, <1>13, <1>15, <1>16, <1>17, <1>18, <1>20, <1>22, <1>23,
     TreeRelinked DEF TreeFrom

(* mv under another name in the same directory. *)
LEMMA TreeRenamed ==
    ASSUME NEW t, Tree(t), NEW d \in Dirs(t), NEW n \in Names, NEW m \in Names,
           NEW in, in = Look(t, d, n), in # 0, in \notin Dirs(t),
           m = n \/ Look(t, d, m) = 0
    PROVE  TreeFrom(t, AddLeafName(Unname(t, d, n), d, TRUE, m, in))
<1>1. PICK v : v = Unname(t, d, n)
  OBVIOUS
<1>2. PICK u : u = AddLeafName(v, d, TRUE, m, in)
  OBVIOUS
<1>3. Good(t) /\ Unique(t) /\ d \in InodeNumbers /\ InUse(t[d]) /\ TRUE \in BOOLEAN
  BY DEF Tree, Dirs
<1>4. Good(v) /\ Unique(v) /\ Unlinked(t, v, d, n, in) /\ Look(v, d, n) = 0
  BY <1>1, <1>3, LinkDeleted
<1>5. SameInodes(t, v) /\ SameParents(t, v) /\ Named(v) = Named(t) \ {<<d, n, in>>}
  BY <1>4 DEF Unlinked
<1>6. Taken(v) = Taken(t) /\ Dirs(v) = Dirs(t) /\ InUse(v[d])
  BY <1>3, <1>5, SameSets DEF SameInodes, InUse
<1>7. in \in InodeNumbers \ {0} /\ Holds(t[d], n, in)
  BY <1>3, LookupIs DEF Look
<1>8. <<d, n, in>> \in Named(t)
  BY <1>3, <1>7, NamedIs DEF InUse
<1>9. <<d, n, in>> \in To(t, in) /\ in \in Taken(t)
  <2>1. <<d, n, in>>[3] = in
    OBVIOUS
  <2> QED
    BY <1>8, <2>1 DEF To, Tree, Pointing
<1>10. Look(t, d, m) = 0 => Look(v, d, m) = 0
  <2> SUFFICES ASSUME Look(t, d, m) = 0, Look(v, d, m) # 0 PROVE FALSE
    OBVIOUS
  <2> DEFINE j == Look(v, d, m)
  <2>1. j \in InodeNumbers /\ Holds(v[d], m, j)
    BY <1>3, <1>4, LookupIs DEF Look
  <2>2. <<d, m, j>> \in Named(v)
    BY <1>3, <1>6, <2>1, NamedIs DEF InUse
  <2>3. Holds(t[d], m, j)
    BY <1>3, <1>5, <2>1, <2>2, NamedIs
  <2>4. ~Holds(t[d], m, j)
    BY <1>3, LookupIs DEF Look
  <2> QED
    BY <2>3, <2>4
<1>11. Good(u) /\ Unique(u) /\ Linked(v, u, d, m, in)
  BY <1>2, <1>3, <1>4, <1>6, <1>7, <1>10, LinkAdded
<1>12. SameInodes(v, u) /\ SameParents(v, u) /\ Named(u) = Named(v) \cup {<<d, m, in>>}
  BY <1>11 DEF Linked
<1>13. SameInodes(t, u)
  BY <1>5, <1>12 DEF SameInodes
<1>14. SameParents(t, u)
  BY <1>5, <1>12, SameSets DEF SameParents
<1>15. PICK old, new : old = <<d, n, in>> /\ new = <<d, m, in>>
  OBVIOUS
<1>16. new \notin Named(t) \ {old}
  <2>1. CASE m = n
    BY <1>15, <2>1
  <2>2. CASE Look(t, d, m) = 0
    <3>1. ~Holds(t[d], m, in)
      BY <1>3, <2>2, LookupIs DEF Look
    <3> QED
      BY <1>3, <1>7, <1>15, <3>1, NamedIs
  <2> QED
    BY <2>1, <2>2
<1>17. /\ old \in To(t, in) /\ new[3] = in /\ new[1] \in Dirs(t)
       /\ Named(u) = (Named(t) \ {old}) \cup {new}
  BY <1>5, <1>9, <1>12, <1>15
<1>18. Tree(u)
  BY <1>9, <1>11, <1>13, <1>14, <1>16, <1>17, TreeMoved
<1>19. Dirs(u) = Dirs(t)
  BY <1>13, SameSets
<1> QED
  BY <1>1, <1>2, <1>18, <1>19 DEF TreeFrom
(* mv into another directory, where a file of that name goes. *)
LEMMA TreePut ==
    ASSUME NEW t, Tree(t), NEW d \in Dirs(t), NEW p \in Dirs(t), p # d, NEW n \in Names,
           NEW in, in = Look(t, d, n), in # 0, in \notin Dirs(t),
           NEW cut, cut = Unname(t, d, n), Look(t, p, n) = 0
    PROVE  TreeFrom(t, AddLeafName(cut, p, FALSE, n, in))
<1>1. PICK u : u = AddLeafName(cut, p, FALSE, n, in)
  OBVIOUS
<1>2. Good(t) /\ Unique(t) /\ d \in InodeNumbers /\ InUse(t[d]) /\ FALSE \in BOOLEAN
      /\ p \in InodeNumbers
  BY DEF Tree, Dirs
<1>3. Good(cut) /\ Unique(cut) /\ Unlinked(t, cut, d, n, in)
  BY <1>2, LinkDeleted
<1>4. /\ SameInodes(t, cut) /\ SameParents(t, cut) /\ Named(cut) = Named(t) \ {<<d, n, in>>}
      /\ cut[p] = t[p]
  BY <1>2, <1>3 DEF Unlinked, SameOthers
<1>5. p \in Dirs(cut) /\ Look(cut, p, n) = 0
  BY <1>4, SameSets DEF Look, INumberOf, FirstNamed
<1>6. in \in InodeNumbers \ {0} /\ Holds(t[d], n, in)
  BY <1>2, LookupIs DEF Look
<1>7. Good(u) /\ Unique(u) /\ Linked(cut, u, p, n, in)
  BY <1>1, <1>2, <1>3, <1>5, <1>6, LinkAdded
<1>8. SameInodes(cut, u) /\ SameParents(cut, u) /\ Named(u) = Named(cut) \cup {<<p, n, in>>}
  BY <1>7 DEF Linked
<1>9. SameInodes(t, u)
  BY <1>4, <1>8 DEF SameInodes
<1>10. SameParents(t, u)
  BY <1>4, <1>8, SameSets DEF SameParents
<1>11. PICK old, new : old = <<d, n, in>> /\ new = <<p, n, in>>
  OBVIOUS
<1>12. old \in Named(t) /\ old[3] = in /\ new[3] = in /\ new[1] = p
  BY <1>2, <1>6, <1>11, NamedIs DEF InUse
<1>13. old \in To(t, in) /\ in \in Taken(t)
  BY <1>12 DEF To, Tree, Pointing
<1>14. new \notin Named(t) \ {old}
  <2>1. ~Holds(t[p], n, in)
    BY <1>2, LookupIs DEF Look
  <2> QED
    BY <1>2, <1>6, <1>11, <2>1, NamedIs
<1>15. Named(u) = (Named(t) \ {old}) \cup {new}
  BY <1>4, <1>8, <1>11
<1>16. Tree(u)
  BY <1>7, <1>9, <1>10, <1>12, <1>13, <1>14, <1>15, TreeMoved
<1>17. Dirs(u) = Dirs(t)
  BY <1>9, SameSets
<1> QED
  BY <1>1, <1>16, <1>17 DEF TreeFrom

LEMMA TreePutOver ==
    ASSUME NEW t, Tree(t), NEW d \in Dirs(t), NEW p \in Dirs(t), p # d, NEW n \in Names,
           NEW in, in = Look(t, d, n), in # 0, in \notin Dirs(t),
           NEW cut, cut = Unname(t, d, n),
           NEW there, there = Look(t, p, n), there # 0, there \notin Dirs(t), t[there].count = 0
    PROVE  TreeFrom(t, AddLeafName(Erase(cut, p, n), p, TRUE, n, in))
<1>1. PICK x : x = Erase(cut, p, n)
  OBVIOUS
<1>2. PICK u : u = AddLeafName(x, p, TRUE, n, in)
  OBVIOUS
<1>3. PICK v : v = Erase(t, p, n)
  OBVIOUS
<1>4. PICK w : w = Unname(cut, p, n)
  OBVIOUS
<1>5. /\ Good(t) /\ Unique(t) /\ d \in InodeNumbers /\ InUse(t[d]) /\ TRUE \in BOOLEAN
      /\ p \in InodeNumbers /\ InUse(t[p])
  BY DEF Tree, Dirs
<1>6. in \in InodeNumbers \ {0} /\ there \in InodeNumbers \ {0}
      /\ <<d, n, in>> \in Named(t) /\ <<p, n, there>> \in Named(t)
  <2>1. /\ in \in InodeNumbers /\ Holds(t[d], n, in)
        /\ there \in InodeNumbers /\ Holds(t[p], n, there)
    BY <1>5, LookupIs DEF Look
  <2> QED
    BY <1>5, <2>1, NamedIs DEF InUse
<1>7. in \in Taken(t) /\ there \in Taken(t) \ {Root}
  <2>1. <<d, n, in>>[3] = in /\ <<p, n, there>>[3] = there
    OBVIOUS
  <2> QED
    BY <1>6, <2>1 DEF Tree, Pointing, Rooted
<1>8. \A l \in Named(t) : l[1] # there
  BY DEF Tree, Pointing
<1>9. Wanted(t, there) = 1
  BY DEF Wanted
<1>10. Tree(v) /\ Erased(t, v, p, n, there)
  BY <1>3, <1>8, <1>9, TreeDeleted
<1>11. in # there
  <2>1. <<p, n, there>> \in To(t, there) /\ (in = there => <<d, n, in>> \in To(t, there))
    BY <1>6 DEF To
  <2>2. To(t, there) = {<<p, n, there>>}
    BY <1>7, <1>9, <2>1, OneLink
  <2> QED
    BY <2>1, <2>2
<1>12. Good(cut) /\ Unique(cut) /\ Unlinked(t, cut, d, n, in)
  BY <1>5, LinkDeleted
<1>13. /\ SameInodes(t, cut) /\ SameParents(t, cut) /\ Named(cut) = Named(t) \ {<<d, n, in>>}
       /\ cut[p] = t[p]
  BY <1>5, <1>12 DEF Unlinked, SameOthers
<1>14. p \in Dirs(cut) /\ Look(cut, p, n) = there
  BY <1>13, SameSets DEF Look, INumberOf, FirstNamed
<1>15. /\ Good(w) /\ Unique(w) /\ Unlinked(cut, w, p, n, there)
       /\ Look(w, p, n) = 0 /\ x = SetFree(w, there)
  BY <1>1, <1>4, <1>12, <1>14, LinkDeleted
<1>16. SameInodes(cut, w) /\ SameParents(cut, w) /\ Named(w) = Named(cut) \ {<<p, n, there>>}
  BY <1>15 DEF Unlinked
<1>17. Freed(w, x, there)
  BY <1>6, <1>15, FreedIs
<1>18. Good(x) /\ Unique(x)
  BY <1>1, <1>5, <1>12, DeleteFileKeeps DEF Erase
<1>19. Taken(w) = Taken(t) /\ Dirs(w) = Dirs(t)
  BY <1>13, <1>16, SameSets
<1>20. /\ Taken(x) = Taken(t) \ {there} /\ Dirs(x) = Dirs(t)
       /\ Named(x) = Named(w)
       /\ \A i \in InodeNumbers : /\ x[i].type = w[i].type /\ x[i].count = w[i].count
                                  /\ x[i].entries = w[i].entries
                                  /\ x[i].free = (w[i].free \/ i = there)
  <2>1. \A l \in Named(w) : l[1] # there
    BY <1>8, <1>13, <1>16
  <2> QED
    BY <1>17, <1>19, <2>1 DEF Freed
<1>21. p \in Dirs(x) /\ Look(x, p, n) = 0
  BY <1>5, <1>15, <1>20 DEF Look, INumberOf, FirstNamed
<1>22. Good(u) /\ Unique(u) /\ Linked(x, u, p, n, in)
  BY <1>2, <1>5, <1>6, <1>18, <1>21, LinkAdded
<1>23. SameInodes(x, u) /\ SameParents(x, u) /\ Named(u) = Named(x) \cup {<<p, n, in>>}
  BY <1>22 DEF Linked
<1>24. /\ Taken(v) = Taken(t) \ {there} /\ Dirs(v) = Dirs(t) /\ SameParents(t, v)
       /\ Named(v) = Named(t) \ {<<p, n, there>>}
       /\ \A i \in InodeNumbers : /\ v[i].type = t[i].type /\ v[i].count = t[i].count
                                  /\ v[i].free = (t[i].free \/ i = there)
  BY <1>10 DEF Erased
<1>25. SameInodes(v, u)
  BY <1>13, <1>16, <1>20, <1>23, <1>24 DEF SameInodes
<1>26. SameParents(v, u)
  <2> SUFFICES ASSUME NEW i \in Dirs(u) PROVE Parent(u, i) = Parent(v, i)
    BY DEF SameParents
  <2>1. i \in Dirs(t) /\ i \in Dirs(x) /\ i \in Dirs(w) /\ i \in Dirs(cut) /\ i \in Dirs(v)
        /\ i \in InodeNumbers
    BY <1>13, <1>19, <1>20, <1>23, <1>24, SameSets DEF Dirs
  <2>2. Parent(u, i) = Parent(x, i) /\ Parent(w, i) = Parent(cut, i)
        /\ Parent(cut, i) = Parent(t, i) /\ Parent(v, i) = Parent(t, i)
    BY <1>13, <1>16, <1>23, <1>24, <2>1 DEF SameParents
  <2>3. Parent(x, i) = Parent(w, i)
    BY <1>20, <2>1 DEF Parent
  <2> QED
    BY <2>2, <2>3
<1>27. PICK old, new : old = <<d, n, in>> /\ new = <<p, n, in>>
  OBVIOUS
<1>28. old[3] = in /\ new[3] = in /\ new[1] = p /\ old # <<p, n, there>>
  BY <1>11, <1>27
<1>29. old \in To(v, in) /\ in \in Taken(v) \ Dirs(v)
  BY <1>6, <1>7, <1>11, <1>24, <1>27, <1>28 DEF To
<1>30. new \notin Named(v) \ {old}
  <2>1. ~Holds(t[p], n, in)
    <3>1. Distinct(t[p])
      BY <1>5 DEF Unique, Dirs
    <3> QED
      BY <1>5, <1>11, <3>1, LookupIs DEF Look
  <2> QED
    BY <1>5, <1>6, <1>24, <1>27, <2>1, NamedIs
<1>31. Named(u) = (Named(v) \ {old}) \cup {new}
  BY <1>13, <1>16, <1>20, <1>23, <1>24, <1>27
<1>32. Tree(u)
  BY <1>10, <1>22, <1>24, <1>25, <1>26, <1>28, <1>29, <1>30, <1>31, TreeMoved
<1>33. Dirs(u) = Dirs(t)
  BY <1>24, <1>25, SameSets
<1> QED
  BY <1>1, <1>2, <1>32, <1>33 DEF TreeFrom
-----------------------------------------------------------------------------
(* rm -fr: of each directory it enters, rmRecursion() takes the first child *)
(* out, and frees it.                                                      *)
Child(t, x) == t[x].entries[FirstChild(t, x)]
ChildLink(t, x) == <<x, Child(t, x).name, Child(t, x).in>>

\* What CarefulRmRecursion asks.
Modest(t, p) ==
    \A x \in Entered(t, p) :
      /\ Len(t[x].entries) <= 3
      /\ \A k \in 3 .. Len(t[x].entries) : t[t[x].entries[k].in].count = 0

LEMMA RmRecursionIs ==
    ASSUME NEW t, Good(t), NEW p, NEW u, u = RmRecursion(t, p)
    PROVE  /\ \A i \in InodeNumbers :
                /\ u[i].free = (t[i].free \/ i \in Gone(t, p))
                /\ u[i].type = t[i].type /\ u[i].count = t[i].count
                /\ u[i].entries = IF i \in Emptied(t, p)
                                  THEN Without(t[i].entries, FirstChild(t, i)) ELSE t[i].entries
<1>1. u = [i \in InodeNumbers |->
           [t[i] EXCEPT !.free = (@ \/ i \in Gone(t, p)),
                        !.entries = IF i \in Emptied(t, p)
                                    THEN Without(@, FirstChild(t, i)) ELSE @]]
  BY DEF RmRecursion
<1>2. ASSUME NEW i \in InodeNumbers
      PROVE  /\ u[i].free = (t[i].free \/ i \in Gone(t, p))
             /\ u[i].type = t[i].type /\ u[i].count = t[i].count
             /\ u[i].entries = IF i \in Emptied(t, p)
                               THEN Without(t[i].entries, FirstChild(t, i)) ELSE t[i].entries
  <2>1. PICK a, bit, rest :
              /\ a = t[i] /\ bit = (t[i].free \/ i \in Gone(t, p))
              /\ rest = IF i \in Emptied(t, p)
                        THEN Without(t[i].entries, FirstChild(t, i)) ELSE t[i].entries
    OBVIOUS
  <2>2. u[i] = [a EXCEPT !.free = bit, !.entries = rest]
    BY <1>1, <2>1
  <2>3. a \in [free : BOOLEAN, type : 0 .. 3, count : 0 .. MaxCount,
               entries : Seq(DirEntry), path : Names \cup {None}]
    BY <2>1, EntriesAre DEF Inode
  <2>4. u[i].free = bit /\ u[i].entries = rest /\ u[i].type = a.type /\ u[i].count = a.count
    BY <2>2, <2>3
  <2> QED
    BY <2>1, <2>4
<1> QED
  BY <1>2

(* They are below the directory where rm -fr is typed. *)
LEMMA EnteredIs ==
    ASSUME NEW t, Tree(t), NEW d \in Dirs(t), NEW n \in Names,
           NEW p, p = Look(t, d, n), p # 0, t[p].type = iTypeDirectory
    PROVE  /\ p \in Entered(t, p) /\ p \in Dirs(t) \ {Root} /\ To(t, p) = {<<d, n, p>>}
           /\ Entered(t, p) \subseteq Dirs(t) \ {d, Root}
           /\ \A x \in Emptied(t, p) :
                /\ ChildLink(t, x) \in Named(t) /\ FirstChild(t, x) \in 1 .. Len(t[x].entries)
                /\ Child(t, x).name \in Names
                /\ Child(t, x).in \in Taken(t) \ {d, Root}
                /\ Child(t, x).in \in Dirs(t) => Child(t, x).in \in Entered(t, p)
           /\ ~EndlessDescent(t, p)
<1>1. Good(t) /\ Unique(t) /\ Rooted(t) /\ Ranked(t) /\ d \in InodeNumbers /\ Distinct(t[d])
  BY HeadIs DEF Tree, Unique
<1>2. /\ p \in InodeNumbers /\ Holds(t[d], n, p) /\ ~t[d].free
  BY <1>1, LookupIs, HeadIs DEF Look, InUse
<1>3. <<d, n, p>> \in Named(t)
  BY <1>1, <1>2, NamedIs
<1>4. p \in Dirs(t) \ {Root} /\ Parent(t, p) = d /\ To(t, p) = {<<d, n, p>>}
  BY <1>1, <1>2, <1>3, ChildIs
<1>5. PICK r : IsRank(t, r)
  BY <1>1 DEF Ranked
<1>6. /\ r[p] = r[d] + 1 /\ r[Root] = 0 /\ \A i \in InodeNumbers : r[i] \in Nat
  BY <1>4, <1>5 DEF IsRank
<1>7. PICK f : f = Descent(t, p)
  OBVIOUS
<1>8. /\ ~EndlessDescent(t, p)
      /\ \A j \in 0 .. NInodes : f[j] # 0 => f[j] \in Dirs(t) /\ r[f[j]] = r[p] + j
  BY <1>4, <1>5, <1>7, DescentEnds
<1>9. /\ f[0] = p
      /\ \A j \in 0 .. NInodes : f[j] \in InodeNumbers
      /\ \A j \in 1 .. NInodes : f[j] = Down(t, f[j - 1])
      /\ f[NInodes] = 0
  BY <1>1, <1>2, <1>7, <1>8, DescentIs DEF EndlessDescent
<1>10. p \in Entered(t, p)
  BY <1>7, <1>9, NumbersTyped DEF Entered
<1>11. \A x \in Entered(t, p) : \E j \in 0 .. NInodes : x = f[j] /\ x # 0
  BY <1>7 DEF Entered
<1>12. \A x \in Entered(t, p) : x \in Dirs(t) /\ x # 0 /\ r[x] > r[d]
  <2>1. SUFFICES ASSUME NEW x \in Entered(t, p)
                 PROVE  x \in Dirs(t) /\ x # 0 /\ r[x] > r[d]
    OBVIOUS
  <2>2. PICK j \in 0 .. NInodes : x = f[j] /\ x # 0
    BY <1>11
  <2>3. x \in Dirs(t) /\ r[x] = r[p] + j
    BY <1>8, <2>2
  <2>4. j \in Nat /\ r[d] \in Nat
    BY <1>1, <1>6, NumbersTyped
  <2> QED
    BY <1>6, <2>2, <2>3, <2>4
<1>13. Entered(t, p) \subseteq Dirs(t) \ {d, Root}
  <2>1. r[d] \in Nat
    BY <1>1, <1>6
  <2> QED
    BY <1>6, <1>12, <2>1
<1>14. ASSUME NEW x \in Emptied(t, p)
       PROVE  /\ ChildLink(t, x) \in Named(t) /\ FirstChild(t, x) \in 1 .. Len(t[x].entries)
              /\ Child(t, x).name \in Names
              /\ Child(t, x).in \in Taken(t) \ {d, Root}
              /\ Child(t, x).in \in Dirs(t) => Child(t, x).in \in Entered(t, p)
  <2>1. x \in Entered(t, p) /\ FirstChild(t, x) # 0
    BY DEF Emptied
  <2>2. x \in Dirs(t) /\ x \in InodeNumbers
    BY <1>1, <1>12, <2>1, HeadIs
  <2>3. PICK e : e = Child(t, x)
    OBVIOUS
  <2>4. /\ FirstChild(t, x) \in 1 .. Len(t[x].entries) /\ e.name \in Names
        /\ e.in \in InodeNumbers /\ <<x, e.name, e.in>> \in Named(t)
        /\ Down(t, x) = IF t[e.in].type = iTypeDirectory THEN e.in ELSE 0
    BY <2>1, <2>2, <2>3, DownIs DEF Child
  <2>5. ChildLink(t, x) \in Named(t)
    BY <2>3, <2>4 DEF ChildLink
  <2>6. e.in \in Taken(t)
    BY <2>2, <2>4, NamedFound
  <2>7. e.in # Root
    BY <1>1, <2>4 DEF Rooted, To
  <2>8. e.in # d
    <3>1. SUFFICES ASSUME e.in = d PROVE FALSE
      OBVIOUS
    <3>2. t[e.in].type = iTypeDirectory
      BY <1>1, <3>1, HeadIs DEF InUse
    <3>3. e.in \in Dirs(t) \ {Root} /\ Parent(t, e.in) = x
      BY <2>2, <2>4, <3>2, ChildIs
    <3>4. r[d] = r[x] + 1
      BY <1>5, <3>1, <3>3 DEF IsRank
    <3>5. r[x] \in Nat /\ r[d] \in Nat /\ r[x] > r[d]
      BY <1>1, <1>6, <1>12, <2>1, <2>2
    <3> QED
      BY <3>4, <3>5
  <2>9. ASSUME e.in \in Dirs(t) PROVE e.in \in Entered(t, p)
    <3>1. t[e.in].type = iTypeDirectory /\ e.in # 0
      BY <1>1, <2>9, HeadIs DEF InUse
    <3>2. PICK j \in 0 .. NInodes : x = f[j]
      BY <1>11, <2>1
    <3>3. j # NInodes
      BY <1>9, <1>12, <2>1, <3>2
    <3>4. j + 1 \in 1 .. NInodes /\ j + 1 \in 0 .. NInodes /\ (j + 1) - 1 = j
      BY <3>3, NumbersTyped
    <3>5. f[j + 1] = Down(t, f[j])
      BY <1>9, <3>4
    <3>6. f[j + 1] = e.in
      BY <2>4, <3>1, <3>2, <3>5
    <3> QED
      BY <1>7, <3>1, <3>4, <3>6 DEF Entered
  <2> QED
    BY <2>3, <2>4, <2>5, <2>6, <2>7, <2>8, <2>9
<1> QED
  BY <1>4, <1>8, <1>10, <1>13, <1>14

\* A directory where rmRecursion() finds no child has none.
LEMMA NoChild ==
    ASSUME NEW t, Good(t), NEW d \in InodeNumbers, FirstChild(t, d) = 0
    PROVE  \A j \in 1 .. Len(t[d].entries) : t[d].entries[j].name \in {".", ".."}
<1> DEFINE e == t[d].entries
           I == {i \in 1 .. Len(e) : e[i].name \notin {".", ".."}}
<1>1. Len(e) \in Nat
  BY EntriesAre
<1>2. FirstChild(t, d) = IF I # {} THEN Min(I) ELSE 0
  BY DEF FirstChild, SelectInSeq
<1>3. I \in SUBSET Nat /\ 0 \notin I
  BY <1>1
<1>4. I # {} => Min(I) \in I
  BY <1>3, LeastNumber
<1>5. I = {}
  BY <1>2, <1>3, <1>4
<1> QED
  BY <1>5

(* With care they have the one child. *)
LEMMA ModestIs ==
    ASSUME NEW t, Tree(t), NEW p, Modest(t, p), NEW x \in Entered(t, p), x \in Dirs(t),
           x \in Emptied(t, p) => FirstChild(t, x) \in 1 .. Len(t[x].entries)
    PROVE  /\ x \in Emptied(t, p) => FirstChild(t, x) = 3 /\ t[Child(t, x).in].count = 0
           /\ \A l \in Named(t) : l[1] = x => x \in Emptied(t, p) /\ l = ChildLink(t, x)
<1>1. /\ Good(t) /\ Unique(t)
  BY DEF Tree
<1>2. /\ x \in InodeNumbers /\ t[x].entries[1].name = "." /\ t[x].entries[2].name = ".."
      /\ Len(t[x].entries) \in Nat /\ t[x] \in Inode
  <2>1. x \in InodeNumbers /\ t[x].entries[1] = Entry(".", x)
        /\ t[x].entries[2] = Entry("..", Parent(t, x))
    BY <1>1, HeadIs
  <2> QED
    BY <1>1, <2>1, EntriesAre DEF Entry
<1>3. /\ Len(t[x].entries) <= 3
      /\ \A k \in 3 .. Len(t[x].entries) : t[t[x].entries[k].in].count = 0
  BY DEF Modest
<1>4. FirstChild(t, x) \in 0 .. Len(t[x].entries)
      /\ (FirstChild(t, x) # 0 => t[x].entries[FirstChild(t, x)].name \notin {".", ".."})
  BY <1>1, <1>2, FirstChildIs DEF Good
<1>5. FirstChild(t, x) # 0 => FirstChild(t, x) = 3 /\ 3 \in 3 .. Len(t[x].entries)
  <2>1. FirstChild(t, x) # 1 /\ FirstChild(t, x) # 2
    BY <1>2, <1>4
  <2>2. FirstChild(t, x) \in Nat
    BY <1>2, <1>4
  <2> QED
    BY <1>2, <1>3, <1>4, <2>1, <2>2
<1>6. x \in Emptied(t, p) => FirstChild(t, x) = 3 /\ t[Child(t, x).in].count = 0
  BY <1>3, <1>5 DEF Emptied, Child
<1>7. ASSUME NEW l \in Named(t), l[1] = x
      PROVE  x \in Emptied(t, p) /\ l = ChildLink(t, x)
  <2>1. /\ l = <<x, l[2], l[3]>> /\ l[2] \in Names /\ l[3] \in InodeNumbers
        /\ Holds(t[x], l[2], l[3])
    BY <1>7 DEF Named, Triples
  <2>2. PICK k \in 1 .. Len(t[x].entries) : t[x].entries[k] = Entry(l[2], l[3])
    BY <2>1 DEF Holds
  <2>3. t[x].entries[k].name = l[2] /\ t[x].entries[k].in = l[3] /\ l[2] \notin {".", ".."}
    BY <2>1, <2>2, NumbersTyped DEF Entry
  <2>4. k = 3
    BY <1>2, <1>3, <2>2, <2>3
  <2>5. FirstChild(t, x) # 0
    <3>1. SUFFICES ASSUME FirstChild(t, x) = 0 PROVE FALSE
      OBVIOUS
    <3>2. \A j \in 1 .. Len(t[x].entries) : t[x].entries[j].name \in {".", ".."}
      BY <1>1, <1>2, <3>1, NoChild
    <3> QED
      BY <2>2, <2>3, <3>2
  <2>6. x \in Emptied(t, p) /\ FirstChild(t, x) = 3
    BY <1>5, <2>5 DEF Emptied
  <2>7. Child(t, x).name = l[2] /\ Child(t, x).in = l[3]
    BY <2>3, <2>4, <2>6 DEF Child
  <2> QED
    BY <2>1, <2>6, <2>7 DEF ChildLink
<1> QED
  BY <1>6, <1>7

(* rm -fr: the directory named goes with what was emptied below it. *)
LEMMA TreeRmRecursion ==
    ASSUME NEW t, Tree(t), NEW d \in Dirs(t), NEW n \in Names,
           NEW p, p = Look(t, d, n), p # 0, t[p].type = iTypeDirectory, Modest(t, p),
           NEW u, u = Erase(RmRecursion(t, p), d, n)
    PROVE  Tree(u) /\ d \in Dirs(u)
<1>1. Good(t) /\ Unique(t) /\ Rooted(t) /\ Single(t) /\ Nothing(t) /\ d \in InodeNumbers
  BY HeadIs DEF Tree
<1>2. /\ p \in Entered(t, p) /\ p \in Dirs(t) \ {Root} /\ To(t, p) = {<<d, n, p>>}
      /\ Entered(t, p) \subseteq Dirs(t) \ {d, Root}
      /\ \A x \in Emptied(t, p) :
           /\ ChildLink(t, x) \in Named(t) /\ FirstChild(t, x) \in 1 .. Len(t[x].entries)
           /\ Child(t, x).name \in Names
           /\ Child(t, x).in \in Taken(t) \ {d, Root}
           /\ Child(t, x).in \in Dirs(t) => Child(t, x).in \in Entered(t, p)
  BY EnteredIs
<1>3. Emptied(t, p) \subseteq Entered(t, p)
  BY DEF Emptied
<1>4. \A x \in Emptied(t, p) : FirstChild(t, x) = 3 /\ t[Child(t, x).in].count = 0
  <2>1. SUFFICES ASSUME NEW x \in Emptied(t, p)
                 PROVE  FirstChild(t, x) = 3 /\ t[Child(t, x).in].count = 0
    OBVIOUS
  <2>2. x \in Entered(t, p) /\ x \in Dirs(t) /\ FirstChild(t, x) \in 1 .. Len(t[x].entries)
    BY <1>2, <1>3
  <2> QED
    BY <2>2, ModestIs
<1>5. \A x \in Entered(t, p) : \A l \in Named(t) :
        l[1] = x => x \in Emptied(t, p) /\ l = ChildLink(t, x)
  <2>1. SUFFICES ASSUME NEW x \in Entered(t, p)
                 PROVE  \A l \in Named(t) : l[1] = x => x \in Emptied(t, p) /\ l = ChildLink(t, x)
    OBVIOUS
  <2>2. x \in Dirs(t) /\ (x \in Emptied(t, p) => FirstChild(t, x) \in 1 .. Len(t[x].entries))
    BY <1>2
  <2> QED
    BY <2>2, ModestIs
\* What is gone: children, and the directory itself.
<1>6. PICK S : S = Gone(t, p) \cup {p}
  OBVIOUS
<1>7. \A i \in Gone(t, p) : \E x \in Emptied(t, p) : i = Child(t, x).in
  BY DEF Gone, Child
<1>8. \A x \in Emptied(t, p) : Child(t, x).in \in Gone(t, p)
  BY DEF Gone, Child
<1>9. S \subseteq Taken(t) \ {Root, 0} /\ d \notin S /\ S \subseteq InodeNumbers
  BY <1>2, <1>6, <1>7, HeadIs, <1>1 DEF Taken
<1>10. \A i \in S : i \in Dirs(t) => i \in Entered(t, p)
  BY <1>2, <1>6, <1>7
<1>11. \A l \in Named(t) : l[1] \in S => l[3] \in S
  <2>1. SUFFICES ASSUME NEW l \in Named(t), l[1] \in S PROVE l[3] \in S
    OBVIOUS
  <2>2. l[1] \in Dirs(t)
    BY DEF Tree, Pointing
  <2>3. l[1] \in Emptied(t, p) /\ l = ChildLink(t, l[1])
    BY <1>5, <1>10, <2>1, <2>2
  <2>4. l[3] = Child(t, l[1]).in
    BY <2>3 DEF ChildLink
  <2> QED
    BY <1>6, <1>8, <2>3, <2>4
\* A child has no other name.
<1>12. \A x \in Emptied(t, p) : To(t, Child(t, x).in) = {ChildLink(t, x)}
  <2>1. SUFFICES ASSUME NEW x \in Emptied(t, p)
                 PROVE  To(t, Child(t, x).in) = {ChildLink(t, x)}
    OBVIOUS
  <2>2. Child(t, x).in \in Taken(t) \ {Root} /\ Wanted(t, Child(t, x).in) = 1
    BY <1>2, <1>4 DEF Wanted
  <2>3. ChildLink(t, x) \in To(t, Child(t, x).in)
    BY <1>2 DEF To, ChildLink
  <2> QED
    BY <2>2, <2>3, OneLink
\* The table rmRecursion() leaves, without the entry in d.
<1>13. PICK w : w = RmRecursion(t, p)
  OBVIOUS
<1>14. Good(w) /\ Unique(w)
  BY <1>1, <1>13, RmRecursionKeeps
<1>15. \A i \in InodeNumbers :
                /\ w[i].free = (t[i].free \/ i \in Gone(t, p))
                /\ w[i].type = t[i].type /\ w[i].count = t[i].count
                /\ w[i].entries = IF i \in Emptied(t, p)
                                  THEN Without(t[i].entries, FirstChild(t, i)) ELSE t[i].entries
  BY <1>1, <1>13, RmRecursionIs
<1>16. d \notin Emptied(t, p) /\ d \notin Gone(t, p)
  BY <1>2, <1>3, <1>6, <1>9
<1>17. w[d].entries = t[d].entries /\ d \in Dirs(w)
  BY <1>1, <1>15, <1>16 DEF Dirs, InUse
<1>18. Look(w, d, n) = p
  BY <1>17 DEF Look, INumberOf, FirstNamed
<1>19. PICK v : v = Unname(w, d, n)
  OBVIOUS
<1>20. Good(v) /\ Unique(v) /\ Unlinked(w, v, d, n, p) /\ Erase(w, d, n) = SetFree(v, p)
  BY <1>2, <1>14, <1>17, <1>18, <1>19, LinkDeleted
<1>21. p \in InodeNumbers \ {0}
  BY <1>1, <1>2, HeadIs
<1>22. u = SetFree(v, p) /\ Freed(v, u, p)
  BY <1>13, <1>20, <1>21, FreedIs
<1>23. Good(u) /\ Unique(u)
  <2>1. u = DeleteFile(w, d, n, TRUE) /\ TRUE \in BOOLEAN
    BY <1>13 DEF Erase
  <2>2. Good(u) /\ (Unique(w) => Unique(u))
    BY <1>1, <1>14, <2>1, DeleteFileKeeps
  <2> QED
    BY <1>14, <2>2
<1>24. \A i \in InodeNumbers :
         u[i].free = (t[i].free \/ i \in S) /\ u[i].type = t[i].type /\ u[i].count = t[i].count
  BY <1>6, <1>15, <1>20, <1>22, ZenonT(40) DEF Unlinked, SameInodes, Freed
<1>25. Taken(u) = Taken(t) \ S /\ Dirs(u) = Dirs(t) \ S
  <2>1. Taken(u) = Taken(t) \ S
    BY <1>24 DEF Taken
  <2>2. Dirs(u) = Dirs(t) \ S
    BY <1>24 DEF Dirs, InUse
  <2> QED
    BY <2>1, <2>2
<1>26. Single(u) /\ Nothing(u) /\ SameCounts(t, u, Taken(u))
  <2>1. Single(u)
    BY <1>1, <1>24, <1>25 DEF Single, Taken
  <2>2. Nothing(u)
    BY <1>1, <1>9, <1>24, NumbersTyped DEF Nothing
  <2>3. SameCounts(t, u, Taken(u))
    BY <1>24 DEF SameCounts, Taken
  <2> QED
    BY <2>1, <2>2, <2>3
\* What w's directories hold is what t's do, less the child's entry.
<1>27. ASSUME NEW x \in Emptied(t, p)
       PROVE  /\ \A m, i : Holds(w[x], m, i) <=> Holds(t[x], m, i) /\ m # Child(t, x).name
              /\ w[x].entries[2] = t[x].entries[2]
  <2>1. x \in Dirs(t) /\ x \in InodeNumbers
    BY <1>1, <1>2, <1>3, HeadIs
  <2>2. t[x] \in Inode /\ Distinct(t[x])
    BY <1>1, <2>1, EntriesAre, HeadIs DEF Unique
  <2>3. FirstChild(t, x) \in 1 .. Len(t[x].entries) /\ FirstChild(t, x) = 3
        /\ w[x].entries = Without(t[x].entries, FirstChild(t, x))
    BY <1>2, <1>4, <1>15, <2>1
  <2>4. FirstChild(t, x) > 2
    BY <2>3
  <2> QED
    BY <2>2, <2>3, <2>4, RemovingHolds DEF Child
<1>28. \A x \in InodeNumbers \ Emptied(t, p) :
         w[x].entries = t[x].entries /\ \A m, i : Holds(w[x], m, i) <=> Holds(t[x], m, i)
  BY <1>15 DEF Holds
<1>29. SameParents(t, u)
  <2>1. SUFFICES ASSUME NEW x \in Dirs(u) PROVE Parent(u, x) = Parent(t, x)
    BY DEF SameParents
  <2>2. x \in InodeNumbers /\ x \in Dirs(v)
    BY <1>1, <1>22, <1>23, <2>1, HeadIs DEF Freed
  <2>3. Parent(u, x) = Parent(v, x)
    BY <1>22, <2>2 DEF Freed, Parent
  <2>4. Parent(v, x) = Parent(w, x)
    BY <1>20, <2>2 DEF Unlinked, SameParents
  <2>5. Parent(w, x) = Parent(t, x)
    BY <1>27, <1>28, <2>2 DEF Parent
  <2> QED
    BY <2>3, <2>4, <2>5
<1>30. \A l : l \in Named(u) <=> l \in Named(w) /\ l # <<d, n, p>> /\ l[1] # p
  BY <1>20, <1>22 DEF Unlinked, Freed
<1>31. Named(u) = {l \in Named(t) : l[3] \notin S}
  <2>1. ASSUME NEW l \in Named(u)
        PROVE  l \in Named(t) /\ l[3] \notin S
    <3>1. l \in Named(w) /\ l # <<d, n, p>> /\ l[1] # p
      BY <1>30
    <3>2. PICK x \in InodeNumbers, m \in Names, i \in InodeNumbers : l = <<x, m, i>>
      BY <3>1 DEF Named, Triples
    <3>3. ~w[x].free /\ Holds(w[x], m, i)
      BY <3>1, <3>2, NamedIs
    <3>4. ~t[x].free /\ x \notin Gone(t, p) /\ Holds(t[x], m, i)
          /\ (x \in Emptied(t, p) => m # Child(t, x).name)
      BY <1>15, <1>27, <1>28, <3>2, <3>3
    <3>5. l \in Named(t)
      BY <3>2, <3>4, NamedIs
    <3>6. i # p
      BY <1>2, <3>1, <3>2, <3>5 DEF To
    <3>7. i \notin Gone(t, p)
      <4>1. SUFFICES ASSUME i \in Gone(t, p) PROVE FALSE
        OBVIOUS
      <4>2. PICK y \in Emptied(t, p) : i = Child(t, y).in
        BY <1>7, <4>1
      <4>3. l = ChildLink(t, y)
        BY <1>12, <3>2, <3>5, <4>2 DEF To
      <4> QED
        BY <3>2, <3>4, <4>2, <4>3 DEF ChildLink
    <3> QED
      BY <1>6, <3>2, <3>5, <3>6, <3>7
  <2>2. ASSUME NEW l \in Named(t), l[3] \notin S
        PROVE  l \in Named(u)
    <3>1. l[1] \notin S
      BY <1>11, <2>2
    <3>2. PICK x \in InodeNumbers, m \in Names, i \in InodeNumbers : l = <<x, m, i>>
      BY DEF Named, Triples
    <3>3. ~t[x].free /\ Holds(t[x], m, i)
      BY <3>2, NamedIs
    <3>4. ASSUME x \in Emptied(t, p), m = Child(t, x).name PROVE FALSE
      <4>1. l = ChildLink(t, x)
        BY <1>3, <1>5, <3>2, <3>4
      <4> QED
        BY <1>6, <1>8, <2>2, <3>4, <4>1 DEF ChildLink
    <3>5. ~w[x].free /\ Holds(w[x], m, i)
      BY <1>6, <1>15, <1>27, <1>28, <3>1, <3>2, <3>3, <3>4
    <3>6. l \in Named(w)
      BY <3>2, <3>5, NamedIs
    <3>7. l # <<d, n, p>> /\ l[1] # p
      BY <1>6, <2>2, <3>1
    <3> QED
      BY <1>30, <3>6, <3>7
  <2> QED
    BY <2>1, <2>2
<1>32. Tree(u)
  BY <1>9, <1>11, <1>23, <1>25, <1>26, <1>29, <1>31, TreePruned
<1>33. d \in Dirs(u)
  BY <1>9, <1>25
<1> QED
  BY <1>32, <1>33
-----------------------------------------------------------------------------
(* mkfs leaves the root alone. *)
LEMMA TreeNewTable == Tree(NewTable)
<1>1. PICK t : t = NewTable
  OBVIOUS
<1>2. Good(t) /\ Unique(t)
  BY <1>1, NewTableIs
<1>3. /\ 0 \in InodeNumbers /\ Root \in InodeNumbers /\ Root # 0
  BY NumbersTyped
<1>4. /\ t[0] = ZeroInode
      /\ t[Root] = [ZeroInode EXCEPT !.type = iTypeDirectory, !.entries = Dots(Root, Root)]
      /\ \A i \in InodeNumbers \ {0, Root} : t[i] = FreeInode
  BY <1>1, <1>3 DEF NewTable
<1>5. /\ ~t[0].free /\ t[0].type = 0 /\ ~t[Root].free /\ t[Root].type = iTypeDirectory
      /\ t[0].entries = <<>> /\ t[Root].entries = Dots(Root, Root) /\ t[Root].count = 0
      /\ \A i \in InodeNumbers \ {0, Root} : t[i].free
  BY <1>4 DEF ZeroInode, FreeInode
<1>6. Taken(t) = {Root} /\ Dirs(t) = {Root}
  BY <1>3, <1>5 DEF Taken, Dirs, InUse
<1>7. Parent(t, Root) = Root
  BY <1>5 DEF Parent, Dots, Entry
<1>8. Named(t) = {}
  <2>1. SUFFICES ASSUME NEW l \in Named(t) PROVE FALSE
    OBVIOUS
  <2>2. PICK x \in InodeNumbers, m \in Names, i \in InodeNumbers : l = <<x, m, i>>
    BY DEF Named, Triples
  <2>3. ~t[x].free /\ Holds(t[x], m, i)
    BY <2>2, NamedIs
  <2>4. x = 0 \/ x = Root
    BY <1>5, <2>2, <2>3
  <2>5. Nameless(t[0])
    BY <1>5, ShortNameless
  <2>6. Nameless(t[Root])
    <3>1. HeadOf(t[Root], Root)
      BY <1>2, <1>3, <1>5 DEF Good, InUse
    <3>2. Len(t[Root].entries) = 2
      BY <1>5 DEF Dots
    <3> QED
      BY <3>1, <3>2, ShortNameless
  <2> QED
    BY <2>2, <2>3, <2>4, <2>5, <2>6 DEF Nameless
<1>9. To(t, Root) = {}
  BY <1>8 DEF To
<1>10. Rooted(t) /\ Nothing(t) /\ Single(t)
  BY <1>3, <1>5, <1>6, <1>7, <1>9 DEF Rooted, Nothing, Single, iTypeSoftLink, iTypeDirectory
<1>11. Pointing(t) /\ Counted(t) /\ Parented(t)
  BY <1>6, <1>8 DEF Pointing, Counted, Parented
<1>12. Ranked(t)
  <2>1. PICK r : r = [i \in InodeNumbers |-> 0]
    OBVIOUS
  <2>2. IsRank(t, r)
    BY <1>3, <1>6, <2>1 DEF IsRank
  <2> QED
    BY <2>2 DEF Ranked, IsRank
<1> QED
  BY <1>1, <1>2, <1>10, <1>11, <1>12 DEF Tree
-----------------------------------------------------------------------------
(* The inductive invariant: the table is a tree and wd one of its          *)
(* directories, the shell has not died and has freed no i-node twice.      *)
(* Working is what a command finds.                                        *)
Sound == ~crashed /\ ~refreed
CInv == IInv /\ Tree(tab) /\ wd \in Dirs(tab) \cup {NoVolume} /\ Sound
Working == IInv /\ Tree(tab) /\ wd \in Dirs(tab) /\ Sound
Safe == Tree(tab) /\ wd \in Dirs(tab) \cup {NoVolume} /\ Sound

LEMMA WorkingIs ==
    ASSUME CInv, Running
    PROVE  Working
BY DEF CInv, Running, Working

LEMMA BecomesSafe ==
    ASSUME Working, NEW t, Becomes(t), Tree(t), wd \in Dirs(t)
    PROVE  Safe'
BY DEF Working, Becomes, Safe, Sound

LEMMA FromSafe ==
    ASSUME Working, NEW t, Becomes(t), TreeFrom(tab, t)
    PROVE  Safe'
BY BecomesSafe DEF Working, TreeFrom

(* A command that frees i-nodes, all of them in use. *)
LEMMA FreesSafe ==
    ASSUME Working, NEW S, Frees(S), \A i \in S : ~tab[i].free
    PROVE  ~refreed'
BY DEF Working, Sound, Frees

LEMMA FreeingSafe ==
    ASSUME Working, NEW t, NEW S, BecomesFreeing(t, S), \A i \in S : ~tab[i].free,
           Tree(t), wd \in Dirs(t)
    PROVE  Safe'
<1>1. ~refreed'
  BY FreesSafe DEF BecomesFreeing
<1> QED
  BY <1>1 DEF Working, BecomesFreeing, Safe, Sound

LEMMA FreeingFromSafe ==
    ASSUME Working, NEW t, NEW S, BecomesFreeing(t, S), \A i \in S : ~tab[i].free,
           TreeFrom(tab, t)
    PROVE  Safe'
BY FreeingSafe DEF Working, TreeFrom

LEMMA TabSafe ==
    ASSUME Working, Becomes(tab)
    PROVE  Safe'
BY BecomesSafe DEF Working

LEMMA SameSafe ==
    ASSUME CInv, UNCHANGED vars
    PROVE  Safe'
BY DEF CInv, Safe, Sound, vars

(* What a name stands for in the working directory. *)
LEMMA HereIs ==
    ASSUME Working, NEW n
    PROVE  /\ Here(n) = Look(tab, wd, n) /\ Here(n) \in InodeNumbers
           /\ InWd(n) = 0 \/ InWd(n) = Here(n)
           /\ CursorClosed => InWd(n) = Here(n)
           /\ DirectoryPointer(tab, wd, n) = IF TypeOf(n) = iTypeDirectory THEN Here(n) ELSE 0
           /\ TypeOf(n) = iTypeDirectory => Here(n) # 0
           /\ TypeOf(n) = iTypeOrdinary => Here(n) # 0
<1>1. /\ Good(tab) /\ Unique(tab) /\ Nothing(tab) /\ wd \in Dirs(tab) /\ wd \in InodeNumbers
      /\ Distinct(tab[wd])
  BY HeadIs DEF Working, Tree, Unique
<1>2. Here(n) = Look(tab, wd, n) /\ Here(n) \in InodeNumbers
  BY <1>1, LookupIs DEF Here, Look
<1>3. InWd(n) = 0 \/ InWd(n) = Here(n)
  BY DEF InWd, Here, INumberOf
<1>4. CursorClosed => InWd(n) = Here(n)
  BY DEF InWd, Here, INumberOf, CursorClosed
<1>5. /\ TypeOf(n) = iTypeDirectory => Here(n) # 0
      /\ TypeOf(n) = iTypeOrdinary => Here(n) # 0
  BY <1>1 DEF Nothing, TypeOf, iTypeDirectory, iTypeOrdinary
<1>6. DirectoryPointer(tab, wd, n) = IF TypeOf(n) = iTypeDirectory THEN Here(n) ELSE 0
  BY <1>1, <1>5, PointerFinds DEF Here, TypeOf
<1> QED
  BY <1>2, <1>3, <1>4, <1>5, <1>6

(* A name that was found in a directory is a link. *)
LEMMA LookedUp ==
    ASSUME NEW t, Tree(t), NEW d \in InodeNumbers, ~t[d].free, NEW n \in Names,
           NEW in, in = Look(t, d, n), in # 0
    PROVE  /\ d \in Dirs(t) /\ <<d, n, in>> \in Named(t) /\ in \in Taken(t) \ {Root}
           /\ in \in Dirs(t) <=> t[in].type = iTypeDirectory
<1>1. Good(t) /\ Pointing(t) /\ Rooted(t)
  BY DEF Tree
<1>2. in \in InodeNumbers /\ Holds(t[d], n, in)
  BY <1>1, LookupIs DEF Look
<1>3. <<d, n, in>> \in Named(t)
  BY <1>2, NamedIs
<1>4. <<d, n, in>>[1] = d /\ <<d, n, in>>[3] = in
  OBVIOUS
<1>5. d \in Dirs(t) /\ in \in Taken(t) /\ in # Root
  BY <1>1, <1>3, <1>4 DEF Pointing, Rooted, To
<1>6. in \in Dirs(t) <=> t[in].type = iTypeDirectory
  BY <1>5 DEF Taken, Dirs, InUse
<1> QED
  BY <1>3, <1>5, <1>6

(* What a directory names is in use, and i-node 0 counts as such. *)
LEMMA FoundTaken ==
    ASSUME NEW t, Tree(t), NEW d \in Dirs(t), NEW n \in Names
    PROVE  ~t[Look(t, d, n)].free
<1>1. d \in InodeNumbers /\ ~t[d].free
  BY DEF Dirs, InUse
<1>2. CASE Look(t, d, n) = 0
  BY <1>2 DEF Tree, Nothing
<1>3. CASE Look(t, d, n) # 0
  <2>1. Look(t, d, n) \in Taken(t)
    BY <1>1, <1>3, LookedUp
  <2> QED
    BY <2>1 DEF Taken
<1> QED
  BY <1>2, <1>3

(* A name that is not there is not deleted. *)
LEMMA MissingDeleted ==
    ASSUME NEW t, Good(t), NEW d \in InodeNumbers, NEW n, Look(t, d, n) = 0
    PROVE  Unname(t, d, n) = t /\ Erase(t, d, n) = t
<1>1. Lacks(t[d], n)
  BY LookupIs DEF Look
<1>2. FirstNamed(t, d, n) = 0
  <2>1. /\ FirstNamed(t, d, n) \in 0 .. Len(t[d].entries)
        /\ FirstNamed(t, d, n) # 0 => t[d].entries[FirstNamed(t, d, n)].name = n
    BY FirstIs DEF Good
  <2>2. Len(t[d].entries) \in Nat
    BY EntriesAre
  <2> QED
    BY <1>1, <2>1, <2>2 DEF Lacks
<1> QED
  BY <1>2 DEF Unname, Erase, DeleteFile

(* A file that may be replaced is deleted, if it is there. *)
LEMMA ReplaceableErased ==
    ASSUME IInv, Tree(tab), NEW d \in Dirs(tab), NEW n \in Names, Replaceable(d, n),
           NEW u, u = Erase(tab, d, n)
    PROVE  TreeFrom(tab, u) /\ Look(u, d, n) = 0
<1>1. Good(tab) /\ Unique(tab) /\ tab \in Tables /\ d \in InodeNumbers /\ ~tab[d].free
  BY HeadIs DEF Tree, Good, InUse
<1>2. PICK in : in = Look(tab, d, n)
  OBVIOUS
<1>3. CASE in = 0
  <2>1. u = tab
    BY <1>1, <1>2, <1>3, MissingDeleted
  <2> QED
    BY <1>2, <1>3, <2>1 DEF TreeFrom
<1>4. CASE in # 0
  <2>1. in \in Taken(tab) /\ (in \in Dirs(tab) <=> tab[in].type = iTypeDirectory)
    BY <1>1, <1>2, <1>4, LookedUp
  <2>2. tab[in].type # iTypeDirectory /\ tab[in].count = 0
    BY <1>2, <1>4 DEF Replaceable, Look
  <2>3. Wanted(tab, in) = 1 /\ in \notin Dirs(tab)
    BY <2>1, <2>2 DEF Wanted
  <2>4. \A l \in Named(tab) : l[1] # in
    BY <2>3 DEF Tree, Pointing
  <2>5. Tree(u) /\ Erased(tab, u, d, n, in) /\ Look(u, d, n) = 0
    BY <1>2, <1>4, <2>3, <2>4, TreeDeleted
  <2> QED
    BY <2>3, <2>5 DEF Erased, TreeFrom
<1> QED
  BY <1>3, <1>4
-----------------------------------------------------------------------------
(* The commands, in the order of CarefulNext. *)
LEMMA MakeFVSafe == DoMakeFV => Safe'
<1>1. Tree(NewTable)
  BY TreeNewTable
<1>2. Root \in Dirs(NewTable)
  BY <1>1 DEF Tree, Rooted
<1> QED
  BY <1>1, <1>2 DEF DoMakeFV, Safe, Sound

LEMMA InvokeCmdSafe ==
    ASSUME CInv, NEW c, CarefulInvoke(c), InvokeCmd(c)
    PROVE  Safe'
<1>1. UNCHANGED vars
  BY DEF CarefulInvoke, InvokeCmd, Refused
<1> QED
  BY <1>1, SameSafe

LEMMA MkDirSafe ==
    ASSUME Working, NEW n \in Names, DoMkDir(n)
    PROVE  Safe'
<1>1. PICK u : u = CreateFile(tab, wd, n, TRUE)
  OBVIOUS
<1>2. TreeFrom(tab, u)
  <2>1. CASE Look(tab, wd, n) = 0
    <3>1. u = CreateNewFile(tab, wd, n, TRUE) /\ TRUE \in BOOLEAN
      BY <1>1, <2>1 DEF CreateFile, Look
    <3> QED
      BY <2>1, <3>1, TreeCreated DEF Working
  <2>2. CASE Look(tab, wd, n) # 0
    BY <1>1, <2>2 DEF CreateFile, Look, TreeFrom, Working
  <2> QED
    BY <2>1, <2>2
<1>3. CASE InWd(n) # 0
  <2>1. Becomes(tab)
    BY <1>3 DEF DoMkDir
  <2> QED
    BY <2>1, TabSafe
<1>4. CASE InWd(n) = 0
  <2>1. Becomes(u)
    BY <1>1, <1>4 DEF DoMkDir
  <2> QED
    BY <1>2, <2>1, FromSafe
<1> QED
  BY <1>3, <1>4

LEMMA CopyToSafe ==
    ASSUME Working, NEW n \in Names, Replaceable(Root, n), DoCopyTo(n)
    PROVE  Safe'
<1>1. Root \in Dirs(tab) /\ Tree(tab) /\ IInv
  BY DEF Working, Tree, Rooted
<1>2. PICK t : t = Erase(tab, Root, n)
  OBVIOUS
<1>3. TreeFrom(tab, t) /\ Look(t, Root, n) = 0
  BY <1>1, <1>2, ReplaceableErased
<1>4. PICK u : u = CreateNewFile(t, Root, n, FALSE)
  OBVIOUS
<1>5. TreeFrom(t, u)
  <2>1. Root \in Dirs(t) /\ Tree(t) /\ FALSE \in BOOLEAN
    BY <1>1, <1>3 DEF TreeFrom
  <2> QED
    BY <1>3, <1>4, <2>1, TreeCreated
<1>6. tab' = u /\ UNCHANGED <<wd, atEnd, crashed>> /\ Frees({Look(tab, Root, n)})
  BY <1>2, <1>4 DEF DoCopyTo, Write33File, Erase, Look
<1>7. Tree(u) /\ wd \in Dirs(u)
  BY <1>3, <1>5 DEF TreeFrom, Working
<1>8. ~refreed'
  <2>1. \A i \in {Look(tab, Root, n)} : ~tab[i].free
    BY <1>1, FoundTaken
  <2> QED
    BY <1>6, <2>1, FreesSafe
<1> QED
  BY <1>6, <1>7, <1>8 DEF Safe, Working, Sound

LEMMA Copy33Safe ==
    ASSUME Working, NEW s \in Names, NEW d \in Names, CarefulCopy33(s, d), DoCopy33(s, d)
    PROVE  Safe'
<1>1. Root \in Dirs(tab) /\ Tree(tab) /\ IInv /\ wd \in Dirs(tab)
  BY DEF Working, Tree, Rooted
<1>2. /\ Here(s) = Look(tab, wd, s) /\ Here(d) = Look(tab, wd, d) /\ InWd(s) = Here(s)
  BY HereIs DEF CarefulCopy33
<1>3. CASE TypeOf(s) = iTypeSoftLink
  <2>1. Look(tab, wd, d) = 0 /\ tab[Look(tab, wd, s)].type = iTypeSoftLink
    BY <1>2, <1>3 DEF CarefulCopy33, TypeOf
  <2>2. PICK u : u = CopySoftLink(tab, wd, s, d)
    OBVIOUS
  <2>3. Becomes(u)
    BY <1>2, <1>3, <2>2 DEF DoCopy33, TypeOf
  <2>4. TreeFrom(tab, u)
    BY <1>1, <2>1, <2>2, TreeCopied
  <2> QED
    BY <2>3, <2>4, FromSafe
<1>4. CASE TypeOf(s) # iTypeSoftLink
  <2>1. PICK u : u = Copy33File(s, d)
    OBVIOUS
  <2>2. PICK S : /\ S = (IF Copied(s) THEN {Look(tab, Root, d)} ELSE {})
                 /\ BecomesFreeing(u, S)
    BY <1>2, <1>4, <2>1 DEF DoCopy33, TypeOf, Look
  <2>3. PICK in : in = INumberOf(tab, Root, FALSE, s)
    OBVIOUS
  <2>4. CASE ~(in # 0 /\ tab[in].type = iTypeOrdinary)
    <3>1. u = tab /\ S = {}
      BY <2>1, <2>2, <2>3, <2>4 DEF Copy33File, Copied
    <3>2. Tree(u) /\ wd \in Dirs(u)
      BY <1>1, <3>1
    <3> QED
      BY <2>2, <3>1, <3>2, FreeingSafe
  <2>5. CASE in # 0 /\ tab[in].type = iTypeOrdinary
    <3>1. PICK t : t = Erase(tab, Root, d)
      OBVIOUS
    <3>2. Replaceable(Root, d)
      BY <1>4, <2>3, <2>5 DEF CarefulCopy33
    <3>3. TreeFrom(tab, t) /\ Look(t, Root, d) = 0
      BY <1>1, <3>1, <3>2, ReplaceableErased
    <3>4. u = CreateFile(t, Root, d, FALSE)
      BY <2>1, <2>3, <2>5, <3>1 DEF Copy33File, Copied, Erase
    <3>5. u = CreateNewFile(t, Root, d, FALSE)
      BY <3>3, <3>4 DEF CreateFile, Look
    <3>6. TreeFrom(t, u)
      <4>1. Root \in Dirs(t) /\ Tree(t) /\ FALSE \in BOOLEAN
        BY <1>1, <3>3 DEF TreeFrom
      <4> QED
        BY <3>3, <3>5, <4>1, TreeCreated
    <3>7. TreeFrom(tab, u)
      BY <3>3, <3>6 DEF TreeFrom
    <3>8. \A i \in S : ~tab[i].free
      BY <1>1, <2>2, FoundTaken
    <3> QED
      BY <2>2, <3>7, <3>8, FreeingFromSafe
  <2> QED
    BY <2>4, <2>5
<1> QED
  BY <1>3, <1>4

LEMMA LnSafe ==
    ASSUME Working, NEW o \in Names, NEW n \in Names, CarefulLn(o, n), DoLn(o, n)
    PROVE  Safe'
<1>1. Tree(tab) /\ wd \in Dirs(tab) /\ wd \in InodeNumbers /\ ~tab[wd].free
  BY HeadIs DEF Working, Tree, InUse
<1>2. /\ Here(o) = Look(tab, wd, o) /\ Here(n) = Look(tab, wd, n) /\ InWd(n) = Here(n)
  BY HereIs DEF CarefulLn
<1>3. PICK in : in = Look(tab, wd, o)
  OBVIOUS
<1>4. PICK ok : ok = (InWd(n) = 0 /\ in # 0 /\ {o, n} \subseteq Dotted)
  OBVIOUS
<1>5. /\ ok => tab[in].count < MaxCount
      /\ Becomes(IF ok THEN CreateHardLink(tab, wd, n, in) ELSE tab)
  BY <1>3, <1>4 DEF DoLn, Look
<1>6. CASE ~ok
  BY <1>5, <1>6, TabSafe
<1>7. CASE ok
  <2>1. in # 0 /\ Look(tab, wd, n) = 0
    BY <1>2, <1>4, <1>7
  <2>2. in \in Taken(tab) /\ (in \in Dirs(tab) <=> tab[in].type = iTypeDirectory)
    BY <1>1, <1>3, <2>1, LookedUp
  <2>3. tab[in].type # iTypeDirectory
    BY <1>2, <1>3 DEF CarefulLn, TypeOf, iTypeOrdinary, iTypeDirectory
  <2>4. TreeFrom(tab, CreateHardLink(tab, wd, n, in))
    BY <1>1, <1>5, <1>7, <2>1, <2>2, <2>3, TreeHardLinked
  <2> QED
    BY <1>5, <1>7, <2>4, FromSafe
<1> QED
  BY <1>4, <1>6, <1>7

LEMMA LnSSafe ==
    ASSUME Working, NEW o \in Names, NEW n \in Names, CursorClosed, DoLnS(o, n)
    PROVE  Safe'
<1>1. Tree(tab) /\ wd \in Dirs(tab)
  BY DEF Working
<1>2. PICK u : u = CreateSoftLink(tab, wd, n, o \in Plain, o)
  OBVIOUS
<1>3. PICK ok : ok = (InWd(n) = 0 /\ INumberOf(tab, wd, FALSE, o) # 0)
  OBVIOUS
<1>4. Becomes(IF ok THEN u ELSE tab)
  BY <1>2, <1>3 DEF DoLnS
<1>5. CASE ~ok
  BY <1>4, <1>5, TabSafe
<1>6. CASE ok
  <2>1. Look(tab, wd, n) = 0
    BY <1>3, <1>6, HereIs
  <2>2. (o \in Plain) \in BOOLEAN /\ o \in Names \cup {None}
    OBVIOUS
  <2>3. TreeFrom(tab, u)
    BY <1>1, <1>2, <2>1, <2>2, TreeSoftLinked
  <2> QED
    BY <1>4, <1>6, <2>3, FromSafe
<1> QED
  BY <1>3, <1>5, <1>6

LEMMA LnPathSafe ==
    ASSUME Working, NEW d \in Plain, NEW f \in Dotted, CarefulLnPath(d, f), DoLnPath(d, f)
    PROVE  Safe'
<1>1. Tree(tab) /\ Nothing(tab) /\ wd \in Dirs(tab) /\ wd \in InodeNumbers /\ ~tab[wd].free
  BY HeadIs DEF Working, Tree, InUse
<1>2. d \in Names /\ f \in Names
  BY DEF Names
<1>3. /\ Here(d) = Look(tab, wd, d) /\ Here(d) \in InodeNumbers /\ InWd(d) = Here(d)
      /\ DirectoryPointer(tab, wd, d) = IF TypeOf(d) = iTypeDirectory THEN Here(d) ELSE 0
      /\ Look(tab, wd, f) = 0
  BY HereIs DEF CarefulLnPath
<1>4. PICK x : x = Here(d)
  OBVIOUS
<1>5. PICK in : in = Look(tab, x, f)
  OBVIOUS
<1>6. tab[in].type = iTypeOrdinary
  BY <1>4, <1>5 DEF CarefulLnPath, Look
<1>7. in # 0
  BY <1>1, <1>6 DEF Nothing, iTypeOrdinary
<1>8. x \in InodeNumbers /\ ~tab[x].free
  <2>1. CASE x = 0
    BY <1>1, <1>3, <1>4, <2>1 DEF Nothing
  <2>2. CASE x # 0
    <3>1. x \in Taken(tab)
      BY <1>1, <1>2, <1>3, <1>4, <2>2, LookedUp
    <3> QED
      BY <3>1 DEF Taken
  <2> QED
    BY <2>1, <2>2
<1>9. /\ x \in Dirs(tab) /\ in \in Taken(tab)
      /\ (in \in Dirs(tab) <=> tab[in].type = iTypeDirectory)
  <2>1. /\ x \in Dirs(tab) /\ <<x, f, in>> \in Named(tab) /\ in \in Taken(tab) \ {Root}
        /\ in \in Dirs(tab) <=> tab[in].type = iTypeDirectory
    BY <1>1, <1>2, <1>5, <1>7, <1>8, LookedUp
  <2> QED
    BY <2>1
<1>10. x # 0 /\ tab[x].type = iTypeDirectory
  BY <1>9 DEF Dirs, InUse
<1>11. DirectoryPointer(tab, wd, d) = x /\ InWd(d) # 0
  BY <1>3, <1>4, <1>10 DEF TypeOf
<1>12. tab[in].count < MaxCount /\ Becomes(CreateHardLink(tab, wd, f, in))
  BY <1>5, <1>7, <1>10, <1>11 DEF DoLnPath, Look
<1>13. in \notin Dirs(tab)
  BY <1>6, <1>9 DEF iTypeOrdinary, iTypeDirectory
<1>14. TreeFrom(tab, CreateHardLink(tab, wd, f, in))
  BY <1>1, <1>2, <1>3, <1>9, <1>12, <1>13, TreeHardLinked
<1> QED
  BY <1>12, <1>14, FromSafe

LEMMA RmSafe ==
    ASSUME Working, NEW n \in Names, CarefulRm(n), DoRm(n)
    PROVE  Safe'
<1>1. /\ Tree(tab) /\ Good(tab) /\ Unique(tab) /\ wd \in Dirs(tab) /\ wd \in InodeNumbers
      /\ ~tab[wd].free /\ InUse(tab[wd])
  BY HeadIs DEF Working, Tree, InUse
<1>2. PICK in : in = Look(tab, wd, n)
  OBVIOUS
<1>3. /\ in = InWd(n) /\ in = INumberOf(tab, wd, FALSE, n) /\ TypeOf(n) = tab[in].type
      /\ DirectoryPointer(tab, wd, n) = IF tab[in].type = iTypeDirectory THEN in ELSE 0
  BY <1>2, HereIs DEF CarefulRm, TypeOf, Look
<1>4. in # 0 => /\ in \in Taken(tab) \ {Root}
                /\ in \in Dirs(tab) <=> tab[in].type = iTypeDirectory
  BY <1>1, <1>2, LookedUp
<1>5. ~tab[in].free
  BY <1>1, <1>2, FoundTaken
\* rm
<1>6. ASSUME tab[in].type # iTypeDirectory, BecomesFreeing(Unlink(n, in), UnlinkFrees(n, in))
      PROVE  Safe'
  <2>1. in # 0 => in \notin Dirs(tab)
    BY <1>4, <1>6
  <2>2. PICK u, S : u = Unlink(n, in) /\ S = UnlinkFrees(n, in)
    OBVIOUS
  <2>3. \A i \in S : ~tab[i].free
    BY <1>3, <1>5, <2>2 DEF UnlinkFrees
  <2>4. CASE tab[in].count # 0
    <3>1. u = [Unname(tab, wd, n) EXCEPT ![in].count = @ - 1]
      BY <2>2, <2>4 DEF Unlink, Unname
    <3>2. CASE in # 0
      <4>1. TreeFrom(tab, u)
        BY <1>1, <1>2, <2>1, <2>4, <3>1, <3>2, TreeUnlinked
      <4> QED
        BY <1>6, <2>2, <2>3, <4>1, FreeingFromSafe
    <3>3. CASE in = 0
      <4>1. Unname(tab, wd, n) = tab
        BY <1>1, <1>2, <3>3, MissingDeleted
      <4>2. tab[0].count \in 0 .. MaxCount /\ tab \in Tables /\ 0 \in InodeNumbers
        BY <1>1, NumbersTyped DEF Good, Tables, Inode
      <4>3. PICK c : c = tab[0].count - 1
        OBVIOUS
      <4>4. c \in 0 .. MaxCount
        BY <2>4, <3>3, <4>2, <4>3, NumbersTyped
      <4>5. u = [tab EXCEPT ![0].count = c]
        BY <3>1, <3>3, <4>1, <4>2, <4>3 DEF Tables, Inode
      <4>6. TreeFrom(tab, u)
        BY <1>1, <4>4, <4>5, TreeZeroCount
      <4> QED
        BY <1>6, <2>2, <2>3, <4>6, FreeingFromSafe
    <3> QED
      BY <3>2, <3>3
  <2>5. CASE tab[in].count = 0
    <3>1. u = Erase(tab, wd, n)
      BY <2>2, <2>5 DEF Unlink, Erase
    <3>2. Replaceable(wd, n)
      BY <1>3, <1>6, <2>5 DEF Replaceable
    <3>3. TreeFrom(tab, u)
      BY <1>1, <3>1, <3>2, ReplaceableErased DEF Working
    <3> QED
      BY <1>6, <2>2, <2>3, <3>3, FreeingFromSafe
  <2> QED
    BY <2>4, <2>5
\* rmdir
<1>7. ASSUME in # 0, tab[in].type = iTypeDirectory,
             IsEmpty(DirectoryPointer(tab, wd, n)),
             BecomesFreeing(DeleteFile(tab, wd, n, TRUE), {in})
      PROVE  Safe'
  <2>1. in \in Dirs(tab)
    BY <1>4, <1>7
  <2>2. Len(tab[in].entries) = 2 /\ HeadOf(tab[in], in) /\ Wanted(tab, in) = 1
    BY <1>1, <1>3, <1>7, <2>1 DEF IsEmpty, Good, Dirs, Wanted
  <2>3. Nameless(tab[in])
    BY <2>2, ShortNameless
  <2>4. \A l \in Named(tab) : l[1] # in
    BY <2>3 DEF Named, Triples, Nameless
  <2>5. PICK u : u = Erase(tab, wd, n)
    OBVIOUS
  <2>6. Tree(u) /\ wd \in Dirs(u)
    BY <1>1, <1>2, <1>7, <2>2, <2>4, <2>5, TreeDeleted
  <2>7. BecomesFreeing(u, {in})
    BY <1>7, <2>5 DEF Erase
  <2> QED
    BY <1>5, <2>6, <2>7, FreeingSafe
<1>8. CASE Becomes(tab)
  BY <1>8, TabSafe
<1>9. n \in Dotted => tab[in].type # iTypeDirectory
  BY <1>3 DEF CarefulRm
<1> QED
  BY <1>3, <1>6, <1>7, <1>8, <1>9 DEF DoRm

LEMMA RmRecursionSafe ==
    ASSUME Working, NEW n \in Names, CarefulRmRecursion(n), DoRmRecursion(n)
    PROVE  Safe'
<1>1. Tree(tab) /\ wd \in Dirs(tab)
  BY DEF Working
<1>2. CASE InWd(n) = 0
  <2>1. Becomes(tab)
    BY <1>2 DEF DoRmRecursion
  <2> QED
    BY <2>1, TabSafe
<1>3. CASE InWd(n) # 0
  <2>1. /\ Here(n) = Look(tab, wd, n) /\ Here(n) # 0
        /\ DirectoryPointer(tab, wd, n) = IF TypeOf(n) = iTypeDirectory THEN Here(n) ELSE 0
    BY <1>3, HereIs
  <2>2. PICK p : p = Look(tab, wd, n)
    OBVIOUS
  <2>3. p # 0 /\ tab[p].type = iTypeDirectory /\ DirectoryPointer(tab, wd, n) = p
    BY <2>1, <2>2 DEF CarefulRmRecursion, TypeOf
  <2>4. Modest(tab, p)
    BY <2>1, <2>3 DEF CarefulRmRecursion, Modest, Entered
  <2>5. ~EndlessDescent(tab, p)
    BY <1>1, <2>2, <2>3, EnteredIs
  <2>6. PICK u : u = Erase(RmRecursion(tab, p), wd, n)
    OBVIOUS
  <2>7. tab' = u /\ UNCHANGED <<wd, crashed>> /\ Frees(Gone(tab, p) \cup {p})
    BY <1>3, <2>2, <2>3, <2>5, <2>6 DEF DoRmRecursion, Erase, Look
  <2>8. Tree(u) /\ wd \in Dirs(u)
    BY <1>1, <2>2, <2>3, <2>4, <2>6, TreeRmRecursion
  <2>9. \A i \in Gone(tab, p) \cup {p} : ~tab[i].free
    <3>1. \A i \in Gone(tab, p) : \E x \in Emptied(tab, p) : i = Child(tab, x).in
      BY DEF Gone, Child
    <3>2. \A x \in Emptied(tab, p) : Child(tab, x).in \in Taken(tab)
      BY <1>1, <2>2, <2>3, EnteredIs
    <3>3. ~tab[p].free
      BY <1>1, <2>2, FoundTaken
    <3> QED
      BY <3>1, <3>2, <3>3 DEF Taken
  <2>10. ~refreed'
    BY <2>7, <2>9, FreesSafe
  <2> QED
    BY <2>7, <2>8, <2>10 DEF Safe, Working, Sound
<1> QED
  BY <1>2, <1>3

LEMMA LsRecursionSafe ==
    ASSUME CInv, Working, NEW n \in Names, CarefulLsRecursion(n), DoLsRecursion(n)
    PROVE  Safe'
<1>1. Tree(tab) /\ wd \in Dirs(tab) /\ wd \in InodeNumbers /\ ~tab[wd].free
  BY HeadIs DEF Working, Tree, InUse
<1>2. /\ Here(n) = Look(tab, wd, n) /\ TypeOf(n) = iTypeDirectory /\ Here(n) # 0
      /\ DirectoryPointer(tab, wd, n) = Here(n)
  BY HereIs DEF CarefulLsRecursion
<1>3. PICK p : p = Look(tab, wd, n)
  OBVIOUS
<1>4. p # 0 /\ DirectoryPointer(tab, wd, n) = p /\ tab[p].type = iTypeDirectory
  BY <1>2, <1>3 DEF TypeOf
<1>5. p \in Dirs(tab)
  BY <1>1, <1>3, <1>4, LookedUp
<1>6. ~EndlessListing(tab, p)
  BY <1>1, <1>5, ListingEnds
<1>7. UNCHANGED vars
  BY <1>4, <1>6 DEF DoLsRecursion
<1> QED
  BY <1>7, SameSafe

LEMMA LookersSafe ==
    ASSUME CInv, Working, DoInodeFile \/ DoPwd
    PROVE  Safe'
<1>1. PwdReturns(tab, wd)
  BY PwdEnds DEF Working
<1>2. Becomes(tab) \/ UNCHANGED vars
  BY <1>1 DEF DoInodeFile, DoPwd
<1> QED
  BY <1>2, TabSafe, SameSafe

LEMMA ChDirSafe ==
    ASSUME Working, NEW n, CarefulChDir(n), DoChDir(n)
    PROVE  Safe'
<1>1. /\ Tree(tab) /\ Good(tab) /\ Unique(tab) /\ wd \in Dirs(tab) /\ wd \in InodeNumbers
      /\ ~tab[wd].free /\ InUse(tab[wd]) /\ Distinct(tab[wd])
  BY HeadIs DEF Working, Tree, InUse, Unique
<1>2. PICK name : name = IF TypeOf(n) = iTypeSoftLink THEN tab[Here(n)].path ELSE n
  OBVIOUS
<1>3. CursorClosed /\ (Here(name) # 0 => TypeOf(name) = iTypeDirectory)
  BY <1>2 DEF CarefulChDir
<1>4. InWd(n) = Here(n)
  BY <1>3, HereIs
<1>5. PICK p : p = DirectoryPointer(tab, wd, name)
  OBVIOUS
<1>6. \/ Becomes(tab)
      \/ Known(name) /\ ~PwdReturns(tab, p) /\ Crash
      \/ Known(name) /\ wd' = p /\ UNCHANGED <<tab, crashed, refreed>>
  BY <1>2, <1>4, <1>5 DEF DoChDir, TypeOf
<1>7. ASSUME Known(name)
      PROVE  p \in Dirs(tab)
  <2>1. /\ Here(name) = Look(tab, wd, name) /\ Here(name) # 0 /\ Here(name) \in InodeNumbers
        /\ p = Here(name) /\ tab[p].type = iTypeDirectory
    BY <1>3, <1>5, <1>7, HereIs DEF Known, Here, TypeOf
  <2>2. Holds(tab[wd], name, p)
    BY <1>1, <2>1, LookupIs DEF Look
  <2>3. CASE name \in Names
    BY <1>1, <2>1, <2>3, LookedUp
  <2>4. CASE name = "."
    <3>1. Holds(tab[wd], ".", wd)
      BY <1>1, HeadIs
    <3>2. p = wd
      BY <1>1, <2>1, <2>4, <3>1, LookupIs DEF Look
    <3> QED
      BY <1>1, <3>2
  <2>5. CASE name = ".."
    <3>1. Holds(tab[wd], "..", Parent(tab, wd))
      BY <1>1, HeadIs
    <3>2. p = Parent(tab, wd)
      BY <1>1, <2>1, <2>5, <3>1, LookupIs DEF Look
    <3> QED
      BY <1>1, <3>2, UpIs
  <2>6. name \in AllNames
    <3>1. PICK k \in 1 .. Len(tab[wd].entries) : tab[wd].entries[k] = Entry(name, p)
      BY <2>2 DEF Holds
    <3>2. tab[wd].entries[k] \in DirEntry
      BY <1>1, EntriesAre
    <3> QED
      BY <3>1, <3>2 DEF DirEntry, Entry
  <2> QED
    BY <2>3, <2>4, <2>5, <2>6 DEF AllNames
<1>8. CASE Becomes(tab)
  BY <1>8, TabSafe
<1>9. CASE Known(name) /\ ~PwdReturns(tab, p)
  BY <1>1, <1>7, <1>9, PwdEnds
<1>10. CASE Known(name) /\ wd' = p /\ UNCHANGED <<tab, crashed, refreed>>
  <2>1. p \in Dirs(tab)
    BY <1>7, <1>10
  <2>2. tab' = tab /\ wd' = p /\ crashed' = crashed /\ refreed' = refreed
    BY <1>10
  <2> QED
    BY <1>1, <2>1, <2>2 DEF Safe, Working, Sound
<1> QED
  BY <1>6, <1>8, <1>9, <1>10

(* addLeafName() looks, and does not add a name twice. *)
Put(t, d, n, in) == AddLeafName(t, d, FALSE, n, in)

LEMMA AddedTwice ==
    ASSUME NEW t, Good(t), NEW p \in InodeNumbers, NEW n \in Names, NEW in \in InodeNumbers \ {0},
           NEW x, x = Put(t, p, n, in)
    PROVE  /\ Put(x, p, n, in) = x
           /\ Look(t, p, n) # 0 => x = t
<1>1. CASE Look(t, p, n) # 0
  <2>1. x = t
    BY <1>1 DEF Put, AddLeafName, Look
  <2> QED
    BY <1>1, <2>1 DEF Put, AddLeafName, Look
<1>2. CASE Look(t, p, n) = 0
  <2>1. n \in AllNames /\ in \in InodeNumbers /\ in # 0 /\ t[p] \in Inode /\ t \in Tables
    BY EntriesAre DEF AllNames, Good
  <2>2. Good(x)
    BY <2>1, AddNewLeafNameKeeps DEF Put
  <2>3. x = [t EXCEPT ![p].entries = Append(@, Entry(n, in))]
    BY <1>2 DEF Put, AddLeafName, Look
  <2>4. x[p].entries = Append(t[p].entries, Entry(n, in))
    BY <2>1, <2>3 DEF Tables, Inode
  <2>5. Holds(x[p], n, in)
    <3>1. PICK b : b = x[p]
      OBVIOUS
    <3>2. \A m, i : Holds(b, m, i) <=> Holds(t[p], m, i) \/ (m = n /\ i = in)
      BY <2>1, <2>4, <3>1, AppendingHolds
    <3> QED
      BY <3>1, <3>2
  <2>6. Look(x, p, n) # 0
    BY <2>2, <2>5, LookupIs DEF Look
  <2> QED
    BY <1>2, <2>6 DEF Put, AddLeafName, Look
<1> QED
  BY <1>1, <1>2

LEMMA MvSafe ==
    ASSUME Working, NEW s \in Names, NEW d \in Names, CarefulMv(s, d), DoMv(s, d)
    PROVE  Safe'
<1>1. /\ Tree(tab) /\ Good(tab) /\ Unique(tab) /\ wd \in Dirs(tab) /\ wd \in InodeNumbers
      /\ ~tab[wd].free
  BY HeadIs DEF Working, Tree, InUse
<1>2. PICK in, p, there, cut :
        /\ in = InWd(s) /\ p = DirectoryPointer(tab, wd, d)
        /\ there = Look(tab, p, s) /\ cut = Unname(tab, wd, s)
  OBVIOUS
<1>3. PICK isLink : isLink = (tab[in].type = iTypeSoftLink)
  OBVIOUS
<1>4. \/ in # 0 /\ (isLink \/ (s \in Dotted /\ d \in Dotted)) /\ Becomes(Renamed(s, d, in))
      \/ in # 0 /\ ~isLink /\ d \in Plain /\ p # 0 /\ Puts(cut, p, s, in, there)
      \/ /\ in # 0 /\ ~isLink /\ d \in Plain /\ p # 0
         /\ Puts(AddLeafName(cut, p, FALSE, s, in), p, s, in, there)
      \/ in # 0 /\ ~isLink /\ d \in Plain /\ p = 0
      \/ Becomes(tab)
  BY <1>2, <1>3 DEF DoMv, Look, Unname
<1>5. CASE Becomes(tab)
  BY <1>5, TabSafe
<1>6. CASE in # 0
  <2>1. /\ Here(s) = in /\ in = Look(tab, wd, s) /\ Here(d) = Look(tab, wd, d)
        /\ TypeOf(s) = tab[in].type /\ TypeOf(s) # iTypeDirectory
    BY <1>2, <1>6, HereIs DEF TypeOf, CarefulMv
  <2>2. in \in Taken(tab) \ Dirs(tab)
    <3>1. in \in Taken(tab) /\ (in \in Dirs(tab) <=> tab[in].type = iTypeDirectory)
      BY <1>1, <1>6, <2>1, LookedUp
    <3> QED
      BY <2>1, <3>1
\* Another name in wd.
  <2>3. CASE (isLink \/ (s \in Dotted /\ d \in Dotted)) /\ Becomes(Renamed(s, d, in))
    <3>1. d = s \/ Look(tab, wd, d) = 0
      BY <1>3, <1>6, <2>1, <2>3 DEF CarefulMv
    <3>2. PICK u : u = AddLeafName(Unname(tab, wd, s), wd, TRUE, d, in)
      OBVIOUS
    <3>3. TreeFrom(tab, u)
      BY <1>1, <1>6, <2>1, <2>2, <3>1, <3>2, TreeRenamed
    <3>4. Becomes(u)
      BY <2>3, <3>2 DEF Renamed, Unname
    <3> QED
      BY <3>3, <3>4, FromSafe
\* Another directory.
  <2>4. ASSUME ~isLink, d \in Plain
        PROVE  p \in Dirs(tab) /\ p # wd /\ Replaceable(p, s)
    <3>1. TypeOf(d) = iTypeDirectory /\ Replaceable(Here(d), s)
      BY <1>3, <1>6, <2>1, <2>4 DEF CarefulMv
    <3>2. p = Look(tab, wd, d) /\ p # 0 /\ tab[p].type = iTypeDirectory /\ Replaceable(p, s)
      BY <1>2, <3>1, HereIs DEF TypeOf
    <3>3. <<wd, d, p>> \in Named(tab) /\ p \in Dirs(tab) \ {Root} /\ p \in InodeNumbers
      <4>1. /\ <<wd, d, p>> \in Named(tab) /\ p \in Taken(tab) \ {Root}
            /\ p \in Dirs(tab) <=> tab[p].type = iTypeDirectory
        BY <1>1, <3>2, LookedUp
      <4> QED
        BY <3>2, <4>1 DEF Taken
    <3>4. Parent(tab, p) = wd
      BY <1>1, <3>2, <3>3, ChildIs
    <3>5. PICK r : IsRank(tab, r)
      BY <1>1 DEF Tree, Ranked
    <3>6. r[p] = r[wd] + 1 /\ r[wd] \in Nat
      BY <1>1, <3>3, <3>4, <3>5 DEF IsRank
    <3>7. p # wd
      BY <3>6
    <3> QED
      BY <3>2, <3>3, <3>7
  <2>5. ASSUME ~isLink, d \in Plain
        PROVE  /\ TreeFrom(tab, PutInto(cut, p, s, in, there))
               /\ PutInto(AddLeafName(cut, p, FALSE, s, in), p, s, in, there)
                    = PutInto(cut, p, s, in, there)
               /\ there # 0 => /\ AddLeafName(cut, p, FALSE, s, in) = cut
                               /\ ~tab[INumberOf(cut, p, FALSE, s)].free
    <3>1. p \in Dirs(tab) /\ p # wd /\ Replaceable(p, s)
      BY <2>4, <2>5
    <3>2. p \in InodeNumbers /\ ~tab[p].free /\ in \in InodeNumbers \ {0}
      BY <1>1, <2>2, <3>1, HeadIs DEF InUse, Taken
    <3>3. PICK x : x = Put(cut, p, s, in)
      OBVIOUS
    <3>4. Good(cut) /\ cut[p] = tab[p]
      <4>1. Good(cut) /\ Unlinked(tab, cut, wd, s, in)
        BY <1>1, <1>2, <1>6, <2>1, LinkDeleted
      <4> QED
        BY <3>1, <3>2, <4>1 DEF Unlinked, SameOthers
    <3>5. Look(cut, p, s) = there
      BY <1>2, <3>4 DEF Look, INumberOf, FirstNamed
    <3>6. /\ Put(x, p, s, in) = x
          /\ there # 0 => x = cut
      <4>1. /\ Put(x, p, s, in) = x
            /\ Look(cut, p, s) # 0 => x = cut
        BY <3>2, <3>3, <3>4, AddedTwice
      <4> QED
        BY <3>5, <4>1
    <3>7. /\ there # 0 => AddLeafName(cut, p, FALSE, s, in) = cut
          /\ ~tab[INumberOf(cut, p, FALSE, s)].free
      <4>1. ~tab[there].free
        BY <1>1, <1>2, <3>1, FoundTaken
      <4> QED
        BY <3>3, <3>5, <3>6, <4>1 DEF Look, Put
    <3>8. CASE there = 0
      <4>1. PutInto(cut, p, s, in, there) = x /\ PutInto(x, p, s, in, there) = x
        BY <3>3, <3>6, <3>8 DEF PutInto, Put
      <4>2. TreeFrom(tab, x)
        BY <1>1, <1>2, <1>6, <2>1, <2>2, <3>1, <3>3, <3>8, TreePut DEF Put
      <4> QED
        BY <3>3, <3>7, <4>1, <4>2 DEF Put
    <3>9. CASE there # 0
      <4>1. PICK u : u = AddLeafName(Erase(cut, p, s), p, TRUE, s, in)
        OBVIOUS
      <4>2. PutInto(cut, p, s, in, there) = u
        BY <3>9, <4>1 DEF PutInto, Erase
      <4>3. there \notin Dirs(tab) /\ tab[there].count = 0
        <5>1. tab[there].type # iTypeDirectory /\ tab[there].count = 0
          BY <1>2, <3>1, <3>9 DEF Replaceable, Look
        <5> QED
          BY <5>1 DEF Dirs, InUse
      <4>4. TreeFrom(tab, u)
        BY <1>1, <1>2, <1>6, <2>1, <2>2, <3>1, <3>9, <4>1, <4>3, TreePutOver
      <4> QED
        BY <3>3, <3>6, <3>7, <3>9, <4>2, <4>4 DEF Put
    <3> QED
      BY <3>8, <3>9
  <2>6. ASSUME ~isLink, d \in Plain, NEW S, BecomesFreeing(PutInto(cut, p, s, in, there), S),
               S = (IF there = 0 THEN {} ELSE {INumberOf(cut, p, FALSE, s)})
        PROVE  Safe'
    <3>1. \A i \in S : ~tab[i].free
      BY <2>5, <2>6
    <3> QED
      BY <2>5, <2>6, <3>1, FreeingFromSafe
  <2>7. CASE ~isLink /\ d \in Plain /\ p # 0 /\ Puts(cut, p, s, in, there)
    BY <2>7, <2>6 DEF Puts
  <2>8. CASE /\ ~isLink /\ d \in Plain /\ p # 0
             /\ Puts(AddLeafName(cut, p, FALSE, s, in), p, s, in, there)
    <3>1. PICK S : /\ S = (IF there = 0 THEN {} ELSE {INumberOf(cut, p, FALSE, s)})
                   /\ BecomesFreeing(PutInto(cut, p, s, in, there), S)
      BY <2>5, <2>8 DEF Puts
    <3> QED
      BY <2>8, <2>6, <3>1
  <2>9. CASE ~isLink /\ d \in Plain /\ p = 0
    <3>1. p \in Dirs(tab)
      BY <2>4, <2>9
    <3> QED
      BY <2>9, <3>1 DEF Dirs
  <2> QED
    BY <1>4, <1>5, <2>3, <2>7, <2>8, <2>9
<1> QED
  BY <1>4, <1>5, <1>6
-----------------------------------------------------------------------------
LEMMA InitSafe == Init => CInv
<1> SUFFICES ASSUME Init PROVE CInv
  OBVIOUS
<1>1. IInv
  BY InitTyped
<1>2. tab = NewTable /\ wd = NoVolume /\ crashed = FALSE /\ refreed = FALSE
  BY DEF Init
<1> QED
  BY <1>1, <1>2, TreeNewTable DEF CInv, Sound

LEMMA StepSafe == CInv /\ [CarefulNext]_vars => CInv'
<1> SUFFICES ASSUME CInv, [CarefulNext]_vars PROVE CInv'
  OBVIOUS
<1>1. IInv'
  <2>1. IInv
    BY DEF CInv
  <2> QED
    BY <2>1, CarefulStepKept DEF Kept
<1>2. CASE UNCHANGED vars
  BY <1>1, <1>2, SameSafe DEF CInv, Safe
<1>3. CASE DoMakeFV
  BY <1>1, <1>3, MakeFVSafe DEF CInv, Safe
<1>4. CASE \E c \in DOMAIN globalsNeeded : CarefulInvoke(c) /\ InvokeCmd(c)
  BY <1>1, <1>4, InvokeCmdSafe DEF CInv, Safe
<1>5. CASE Running /\ \E n \in Names :
          \/ CarefulRm(n) /\ DoRm(n)
          \/ CarefulRmRecursion(n) /\ DoRmRecursion(n)
          \/ CarefulLsRecursion(n) /\ DoLsRecursion(n)
  <2>1. Working
    BY <1>5, WorkingIs
  <2>2. Safe'
    BY <1>5, <2>1, RmSafe, RmRecursionSafe, LsRecursionSafe
  <2> QED
    BY <1>1, <2>2 DEF CInv, Safe
<1>6. CASE Running /\ (DoInodeFile \/ DoPwd)
  <2>1. Working
    BY <1>6, WorkingIs
  <2>2. Safe'
    BY <1>6, <2>1, LookersSafe
  <2> QED
    BY <1>1, <2>2 DEF CInv, Safe
<1>7. CASE Running /\ \E n \in Names \cup {".."} : CarefulChDir(n) /\ DoChDir(n)
  <2>1. Working
    BY <1>7, WorkingIs
  <2>2. Safe'
    BY <1>7, <2>1, ChDirSafe
  <2> QED
    BY <1>1, <2>2 DEF CInv, Safe
<1>8. CASE Running /\ Room /\ \E n \in Names :
          DoMkDir(n) \/ (Replaceable(Root, n) /\ DoCopyTo(n))
  <2>1. Working
    BY <1>8, WorkingIs
  <2>2. Safe'
    BY <1>8, <2>1, MkDirSafe, CopyToSafe
  <2> QED
    BY <1>1, <2>2 DEF CInv, Safe
<1>9. CASE Running /\ Room /\ \E s, d \in Names :
          \/ CarefulCopy33(s, d) /\ DoCopy33(s, d)
          \/ CarefulMv(s, d) /\ DoMv(s, d)
          \/ CarefulLn(s, d) /\ DoLn(s, d)
          \/ CursorClosed /\ DoLnS(s, d)
  <2>1. Working
    BY <1>9, WorkingIs
  <2>2. Safe'
    BY <1>9, <2>1, Copy33Safe, MvSafe, LnSafe, LnSSafe
  <2> QED
    BY <1>1, <2>2 DEF CInv, Safe
<1>10. CASE Running /\ Room /\ \E d \in Plain, f \in Dotted : CarefulLnPath(d, f) /\ DoLnPath(d, f)
  <2>1. Working
    BY <1>10, WorkingIs
  <2>2. Safe'
    BY <1>10, <2>1, LnPathSafe
  <2> QED
    BY <1>1, <2>2 DEF CInv, Safe
<1> QED
  BY <1>2, <1>3, <1>4, <1>5, <1>6, <1>7, <1>8, <1>9, <1>10 DEF CarefulNext

LEMMA CarefulInvariant == CarefulSpec => []CInv
<1>1. Init => CInv
  BY InitSafe
<1>2. CInv /\ [CarefulNext]_vars => CInv'
  BY StepSafe
<1> QED
  BY <1>1, <1>2, PTL DEF CarefulSpec
-----------------------------------------------------------------------------
(* Back to the entries: a position in a directory for every link. *)
LEMMA LiveIs ==
    /\ LiveDirectories = Dirs(tab)
    /\ \A i \in InodeNumbers : Live(i) <=> i \in Taken(tab)
BY DEF LiveDirectories, Live, Dirs, Taken, InUse

LEMMA LinksAre ==
    ASSUME NEW i, NEW l
    PROVE  l \in Links(i) <=>
             \E d \in Dirs(tab) : \E k \in DOMAIN tab[d].entries :
               /\ tab[d].entries[k].in = i /\ tab[d].entries[k].name \notin {".", ".."}
               /\ l = <<d, k>>
BY LiveIs DEF Links

LEMMA LinkIs ==
    ASSUME Tree(tab), NEW d \in Dirs(tab), NEW n \in Names, NEW i \in InodeNumbers,
           <<d, n, i>> \in Named(tab)
    PROVE  \E k \in DOMAIN tab[d].entries :
             <<d, k>> \in Links(i) /\ tab[d].entries[k].name = n
<1>1. d \in InodeNumbers /\ Good(tab)
  BY HeadIs DEF Tree
<1>2. PICK k \in 1 .. Len(tab[d].entries) : tab[d].entries[k] = Entry(n, i)
  BY <1>1, NamedIs DEF Holds
<1>3. k \in DOMAIN tab[d].entries
  BY <1>1, <1>2, EntriesAre
<1>4. tab[d].entries[k].name = n /\ tab[d].entries[k].in = i
  BY <1>2 DEF Entry
<1>5. n \notin {".", ".."}
  BY NumbersTyped
<1>6. <<d, k>> \in Links(i)
  BY <1>3, <1>4, <1>5, LinksAre
<1> QED
  BY <1>3, <1>4, <1>6

LEMMA LinksCounted ==
    ASSUME Tree(tab), NEW i \in Taken(tab) \ {Root}
    PROVE  Cardinality(Links(i)) = Wanted(tab, i)
<1>1. PICK L, T : L = Links(i) /\ T = To(tab, i)
  OBVIOUS
<1>2. PICK f : f = [l \in L |-> <<l[1], tab[l[1]].entries[l[2]].name, i>>]
  OBVIOUS
<1>3. Good(tab) /\ Unique(tab)
  BY DEF Tree
<1>4. ASSUME NEW l \in L
      PROVE  /\ l = <<l[1], l[2]>> /\ l[1] \in Dirs(tab) /\ Distinct(tab[l[1]])
             /\ l[2] \in 1 .. Len(tab[l[1]].entries)
             /\ f[l] = <<l[1], tab[l[1]].entries[l[2]].name, i>> /\ f[l] \in T
  <2>1. PICK d \in Dirs(tab) : \E k \in DOMAIN tab[d].entries :
              /\ tab[d].entries[k].in = i /\ tab[d].entries[k].name \notin {".", ".."}
              /\ l = <<d, k>>
    BY <1>1, <1>4, LinksAre
  <2>2. PICK k \in DOMAIN tab[d].entries :
              /\ tab[d].entries[k].in = i /\ tab[d].entries[k].name \notin {".", ".."}
              /\ l = <<d, k>>
    BY <2>1
  <2>3. d \in InodeNumbers /\ Distinct(tab[d])
    BY <1>3, HeadIs DEF Unique
  <2>4. k \in 1 .. Len(tab[d].entries)
    BY <1>3, <2>3, EntriesAre
  <2>5. <<d, tab[d].entries[k].name, i>> \in Named(tab)
    BY <2>2, <2>4, EntryNamed
  <2>6. l[1] = d /\ l[2] = k /\ f[l] = <<d, tab[d].entries[k].name, i>>
    BY <1>2, <1>4, <2>2
  <2>7. f[l] \in T
    BY <1>1, <2>5, <2>6 DEF To
  <2> QED
    BY <2>2, <2>3, <2>4, <2>6, <2>7
<1>5. f \in [L -> T]
  <2>1. DOMAIN f = L /\ \A l \in L : f[l] \in T
    BY <1>2, <1>4
  <2> QED
    BY <1>2, <2>1
<1>6. ASSUME NEW l \in L, NEW m \in L, f[l] = f[m]
      PROVE  l = m
  <2>1. l[1] = m[1] /\ tab[l[1]].entries[l[2]].name = tab[l[1]].entries[m[2]].name
    BY <1>4, <1>6
  <2>2. l[2] = m[2]
    BY <1>4, <2>1 DEF Distinct
  <2> QED
    BY <1>4, <2>1, <2>2
<1>7. ASSUME NEW x \in T
      PROVE  \E l \in L : f[l] = x
  <2>1. PICK d \in InodeNumbers, n \in Names : x = <<d, n, i>> /\ x \in Named(tab)
    BY <1>1 DEF To, Named, Triples
  <2>2. d \in Dirs(tab) /\ i \in InodeNumbers
    BY <2>1 DEF Tree, Pointing, Taken
  <2>3. PICK k \in DOMAIN tab[d].entries : <<d, k>> \in Links(i) /\ tab[d].entries[k].name = n
    BY <2>1, <2>2, LinkIs
  <2>4. f[<<d, k>>] = x
    BY <1>1, <1>2, <2>1, <2>3
  <2> QED
    BY <1>1, <2>3, <2>4
<1>8. f \in Injection(L, T)
  BY <1>5, <1>6 DEF Injection, IsInjective
<1>9. f \in Surjection(L, T)
  BY <1>5, <1>7 DEF Surjection
<1>10. IsFiniteSet(T) /\ Cardinality(T) = Wanted(tab, i)
  BY <1>1 DEF Tree, Counted
<1>11. Cardinality(L) = Cardinality(T)
  BY <1>8, <1>9, <1>10, FS_Injection
<1> QED
  BY <1>1, <1>10, <1>11

\* What a directory names, "." and ".." among it, is there.
LEMMA EntryLive ==
    ASSUME Tree(tab), NEW d \in Dirs(tab), NEW k \in DOMAIN tab[d].entries
    PROVE  Live(tab[d].entries[k].in)
<1>1. Good(tab) /\ d \in InodeNumbers /\ d \in Taken(tab) /\ Distinct(tab[d])
      /\ Holds(tab[d], ".", d) /\ Holds(tab[d], "..", Parent(tab, d))
  BY HeadIs DEF Tree, Unique
<1>2. k \in 1 .. Len(tab[d].entries) /\ tab[d].entries[k] \in DirEntry
  BY <1>1, EntriesAre
<1>3. PICK e : e = tab[d].entries[k]
  OBVIOUS
<1>4. CASE e.name \notin {".", ".."}
  <2>1. <<d, e.name, e.in>> \in Named(tab) /\ e.in \in InodeNumbers
    BY <1>2, <1>3, <1>4, EntryNamed
  <2>2. e.in \in Taken(tab)
    BY <2>1 DEF Tree, Pointing
  <2> QED
    BY <1>3, <2>1, <2>2, LiveIs
<1>5. CASE e.name = "."
  <2>1. e.in = d
    BY <1>1, <1>2, <1>3, <1>5 DEF Holds, Distinct, Entry
  <2> QED
    BY <1>1, <1>3, <2>1, LiveIs
<1>6. CASE e.name = ".."
  <2>1. e.in = Parent(tab, d)
    BY <1>1, <1>2, <1>3, <1>6 DEF Holds, Distinct, Entry
  <2>2. Parent(tab, d) \in Dirs(tab)
    BY UpIs
  <2>3. Parent(tab, d) \in Taken(tab) /\ Parent(tab, d) \in InodeNumbers
    BY <1>1, <2>2, HeadIs
  <2> QED
    BY <1>3, <2>1, <2>3, LiveIs
<1> QED
  BY <1>4, <1>5, <1>6

LEMMA TreeLinkCounts == CInv => LinkCounts
<1> SUFFICES ASSUME CInv PROVE LinkCounts
  OBVIOUS
<1>1. Tree(tab)
  BY DEF CInv
<1>2. ASSUME NEW i \in InodeNumbers \ {0, Root}, Live(i)
      PROVE  Cardinality(Links(i)) = IF tab[i].type = iTypeDirectory THEN 1 ELSE tab[i].count + 1
  <2>1. i \in Taken(tab) \ {Root}
    BY <1>2, LiveIs
  <2>2. Cardinality(Links(i)) = Wanted(tab, i)
    BY <1>1, <2>1, LinksCounted
  <2>3. i \in Dirs(tab) <=> tab[i].type = iTypeDirectory
    BY <2>1 DEF Taken, Dirs, InUse
  <2> QED
    BY <2>2, <2>3 DEF Wanted
<1>3. \A d \in LiveDirectories : \A k \in DOMAIN tab[d].entries : Live(tab[d].entries[k].in)
  BY <1>1, EntryLive, LiveIs
<1> QED
  BY <1>2, <1>3 DEF LinkCounts

LEMMA TreeDirectoryTree == CInv => DirectoryTree
<1> SUFFICES ASSUME CInv PROVE DirectoryTree
  OBVIOUS
<1>1. Tree(tab) /\ Good(tab) /\ wd \in LiveDirectories \cup {NoVolume}
  BY LiveIs DEF CInv, Tree
<1>2. ASSUME NEW d \in Dirs(tab)
      PROVE  /\ PwdReturns(tab, d)
             /\ \E parent \in LiveDirectories :
                  /\ SubSeq(tab[d].entries, 1, 2) = Dots(d, parent)
                  /\ d = Root \/ \E l \in Links(d) : l[1] = parent
  <2>1. PICK p : p = Parent(tab, d)
    OBVIOUS
  <2>2. PwdReturns(tab, d) /\ p \in Dirs(tab)
    BY <1>1, <2>1, PwdEnds, UpIs
  <2>3. SubSeq(tab[d].entries, 1, 2) = Dots(d, p)
    <3>1. PICK s : s = tab[d].entries
      OBVIOUS
    <3>2. /\ s \in Seq(DirEntry) /\ Len(s) >= 2 /\ s[1] = Entry(".", d) /\ s[2] = Entry("..", p)
      BY <1>1, <2>1, <3>1, HeadIs, EntriesAre
    <3>3. SubSeq(s, 1, 2) = <<s[1], s[2]>>
      <4>1. PICK q, r : q = SubSeq(s, 1, 2) /\ r = <<s[1], s[2]>>
        OBVIOUS
      <4>2. \A i \in 1 .. 2 : s[i] \in DirEntry
        BY <3>2
      <4>3. /\ q \in Seq(DirEntry) /\ Len(q) = 2
            /\ \A i \in 1 .. 2 : q[i] = s[i]
        BY <4>1, <4>2, SubSeqProperties
      <4>4. r \in Seq(DirEntry) /\ Len(r) = 2 /\ r[1] = s[1] /\ r[2] = s[2]
        BY <4>1, <4>2
      <4>5. \A i \in 1 .. Len(q) : q[i] = r[i]
        BY <4>3, <4>4
      <4>6. q = r
        BY <4>3, <4>4, <4>5, SeqEqual
      <4> QED
        BY <4>1, <4>6
    <3> QED
      BY <3>1, <3>2, <3>3 DEF Dots
  <2>4. d = Root \/ \E l \in Links(d) : l[1] = p
    <3>1. SUFFICES ASSUME d # Root PROVE \E l \in Links(d) : l[1] = p
      OBVIOUS
    <3>2. PICK n \in Names : <<p, n, d>> \in Named(tab)
      BY <1>1, <2>1, <3>1 DEF Tree, Parented
    <3>3. PICK k \in DOMAIN tab[p].entries : <<p, k>> \in Links(d)
      BY <1>1, <2>2, <3>2, HeadIs, LinkIs
    <3> QED
      BY <3>3
  <2> QED
    BY <2>2, <2>3, <2>4, LiveIs
<1> QED
  BY <1>1, <1>2, LiveIs DEF DirectoryTree

(* Of one who types with care, mkdir, cp, mv, ln, ln -s, rm, rmdir and      *)
(* rm -fr leave every file with one name more than its link count says,     *)
(* every directory with one, and no entry for an i-node that is free.       *)
THEOREM LinksRight == CarefulSpec => []LinkCounts
<1>1. CInv => LinkCounts
  BY TreeLinkCounts
<1> QED
  BY <1>1, CarefulInvariant, PTL

(* The directories stay a tree: whatever was made and removed, each has     *)
(* "." and the ".." of the directory it is in, the working directory is     *)
(* one of them, and pwd climbs to the root from all of them.                *)
THEOREM DirectoriesATree == CarefulSpec => []DirectoryTree
<1>1. CInv => DirectoryTree
  BY TreeDirectoryTree
<1> QED
  BY <1>1, CarefulInvariant, PTL

(* So the recursions of pwd, ls -lR and rm -fr end, and no command meets a  *)
(* NULL where getDirectoryPointer() finds no directory: the shell survives. *)
THEOREM ShellSurvives == CarefulSpec => []NoCrash
<1>1. CInv => NoCrash
  BY DEF CInv, NoCrash, Sound
<1> QED
  BY <1>1, CarefulInvariant, PTL

(* setFree() is never called for an i-node that is not in use, although it  *)
(* does not ask: each name a careful command deletes with its i-node is     *)
(* that i-node's only one, so no second name is left to free it by.  No     *)
(* block gets two owners.                                                   *)
THEOREM FreesInUse == CarefulSpec => []FreedInUse
<1>1. CInv => FreedInUse
  BY DEF CInv, FreedInUse, Sound
<1> QED
  BY <1>1, CarefulInvariant, PTL
=============================================================================
