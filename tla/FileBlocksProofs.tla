-------------------------- MODULE FileBlocksProofs --------------------------
(***************************************************************************)
(* Facts about the blocks of a file that the proofs about DirectoryFile    *)
(* and FileCopy share: the arithmetic of places and blocks with the block  *)
(* size a variable, and what a recursive function is.                      *)
(***************************************************************************)
EXTENDS FileBlocks, FiniteSetTheorems, SequenceTheorems, TLAPS

LEMMA MinOfTwo ==
    ASSUME NEW a \in Int, NEW b \in Int
    PROVE  Min({a, b}) = (IF a <= b THEN a ELSE b)
  BY DEF Min

(* Division by the block size. *)
LEMMA Division ==
    ASSUME NEW a \in Nat
    PROVE  /\ a = (a \div BSZ) * BSZ + (a % BSZ)
           /\ a \div BSZ \in Nat /\ a % BSZ \in 0 .. BSZ - 1
  BY BlockSizeAssumption

LEMMA NextMultiple ==
    ASSUME NEW q \in Int, NEW r \in Int, q < r
    PROVE  q * BSZ + BSZ <= r * BSZ
<1>1. (r - q) * BSZ >= BSZ
  BY r - q >= 1, BlockSizeAssumption
<1> QED
  BY <1>1, BlockSizeAssumption

LEMMA DivisionUnique ==
    ASSUME NEW k \in Nat, NEW r \in 0 .. BSZ - 1
    PROVE  (k * BSZ + r) \div BSZ = k /\ (k * BSZ + r) % BSZ = r
<1> DEFINE a == k * BSZ + r
           q == a \div BSZ
<1>1. a \in Nat
  BY BlockSizeAssumption
<1>2. a = q * BSZ + (a % BSZ) /\ q \in Nat /\ a % BSZ \in 0 .. BSZ - 1
  BY <1>1, Division
<1> HIDE DEF q
<1>3. ~(q < k)
  BY <1>2, NextMultiple, BlockSizeAssumption
<1>4. ~(k < q)
  BY <1>2, NextMultiple, BlockSizeAssumption
<1>5. q = k
  BY <1>2, <1>3, <1>4
<1> QED
  BY <1>2, <1>5, BlockSizeAssumption DEF q

(* The blocks of sz bytes are those that begin before its end. *)
LEMMA BlocksOf ==
    ASSUME NEW sz \in Nat
    PROVE  /\ NBlocks(sz) \in Nat
           /\ \A k \in Nat : k < NBlocks(sz) <=> k * BSZ < sz
<1> DEFINE n == NBlocks(sz)
<1>1. n \in Nat /\ n * BSZ >= sz /\ n * BSZ < sz + BSZ
  <2>1. sz + BSZ - 1 \in Nat
    BY BlockSizeAssumption
  <2> QED
    BY <2>1, Division, BlockSizeAssumption DEF NBlocks
<1> HIDE DEF n
<1>2. ASSUME NEW k \in Nat, k < n PROVE k * BSZ < sz
  BY <1>1, <1>2, NextMultiple, BlockSizeAssumption
<1>3. ASSUME NEW k \in Nat, ~(k < n) PROVE ~(k * BSZ < sz)
  <2>1. CASE k = n
    BY <1>1, <2>1, BlockSizeAssumption
  <2>2. CASE n < k
    BY <1>1, <2>2, NextMultiple, BlockSizeAssumption
  <2> QED
    BY <1>1, <1>3, <2>1, <2>2
<1> QED
  BY <1>1, <1>2, <1>3 DEF n

(* A file that ends where a block does is that many blocks long. *)
LEMMA WholeBlocks ==
    ASSUME NEW sz \in Nat, sz % BSZ = 0
    PROVE  NBlocks(sz) * BSZ = sz
<1>1. sz = (sz \div BSZ) * BSZ /\ sz \div BSZ \in Nat
  BY Division, BlockSizeAssumption
<1>2. ~(sz \div BSZ < NBlocks(sz))
  BY <1>1, BlocksOf
<1>3. ~(NBlocks(sz) < sz \div BSZ)
  <2> SUFFICES ASSUME NBlocks(sz) < sz \div BSZ PROVE FALSE
    OBVIOUS
  <2>1. NBlocks(sz) * BSZ < sz
    BY <1>1, BlocksOf, NextMultiple, BlockSizeAssumption
  <2> QED
    BY <2>1, BlocksOf
<1>4. NBlocks(sz) = sz \div BSZ
  BY <1>1, <1>2, <1>3, BlocksOf
<1> QED
  BY <1>1, <1>4

LEMMA BytesOfIs ==
    ASSUME NEW sz \in Nat, NEW k \in Nat
    PROVE  BytesOf(sz, k) = (IF k * BSZ >= sz THEN 0
                             ELSE IF BSZ <= sz - k * BSZ THEN BSZ ELSE sz - k * BSZ)
<1>1. k >= NBlocks(sz) <=> k * BSZ >= sz
  BY BlocksOf, BlockSizeAssumption
<1>2. Min({BSZ, sz - k * BSZ}) = (IF BSZ <= sz - k * BSZ THEN BSZ ELSE sz - k * BSZ)
  BY MinOfTwo, BlockSizeAssumption
<1> QED
  BY <1>1, <1>2 DEF BytesOf

(* The place of byte p. *)
LEMMA PlaceOf ==
    ASSUME NEW sz \in Nat, NEW p \in 1 .. sz
    PROVE  /\ (p - 1) \div BSZ \in 0 .. NBlocks(sz) - 1
           /\ (p - 1) % BSZ \in Places
<1>1. /\ p - 1 \in Nat /\ p - 1 = ((p - 1) \div BSZ) * BSZ + ((p - 1) % BSZ)
      /\ (p - 1) \div BSZ \in Nat /\ (p - 1) % BSZ \in 0 .. BSZ - 1
  BY Division
<1>2. ((p - 1) \div BSZ) * BSZ < sz
  BY <1>1, BlockSizeAssumption
<1> QED
  BY <1>1, <1>2, BlocksOf DEF Places
(* File::fillLastBlock takes a part of the bytes, all of them or up to the *)
(* end of the last block.                                                  *)
LEMMA FillOfBounds ==
    ASSUME NEW sz \in Nat, NEW n \in Nat
    PROVE  /\ FillOf(sz, n) \in 0 .. n
           /\ sz % BSZ = 0 => FillOf(sz, n) = 0
           /\ FillOf(sz, n) # 0 => sz % BSZ # 0 /\ FillOf(sz, n) <= BSZ - (sz % BSZ)
  BY MinOfTwo, Division, BlockSizeAssumption DEF FillOf

LEMMA FillAddsNoBlock ==
    ASSUME NEW sz \in Nat, NEW n \in Nat
    PROVE  /\ NBlocks(sz + FillOf(sz, n)) = NBlocks(sz)
           /\ sz + FillOf(sz, n) <= NBlocks(sz) * BSZ
           /\ FillOf(sz, n) < n => (sz + FillOf(sz, n)) % BSZ = 0
<1> DEFINE k == FillOf(sz, n)
           q == sz \div BSZ
           m == sz % BSZ
           b == NBlocks(sz)
<1>1. k \in 0 .. n /\ (m = 0 => k = 0) /\ (k # 0 => k <= BSZ - m)
  BY FillOfBounds
<1>2. sz = q * BSZ + m /\ q \in Nat /\ m \in 0 .. BSZ - 1 /\ b \in Nat /\ sz <= b * BSZ
  <2>1. sz = q * BSZ + m /\ q \in Nat /\ m \in 0 .. BSZ - 1
    BY Division
  <2>2. b \in Nat /\ ~(b * BSZ < sz)
    BY BlocksOf
  <2> HIDE DEF q, m, b
  <2> QED
    BY <2>1, <2>2, BlockSizeAssumption
<1>3. m # 0 /\ k < n => k = BSZ - m
  <2>1. m # 0 => k = IF BSZ - m <= n THEN BSZ - m ELSE n
    BY <1>2, MinOfTwo, BlockSizeAssumption DEF FillOf
  <2> HIDE DEF m, k
  <2> QED
    BY <2>1, <1>1, <1>2, BlockSizeAssumption
<1>4. m # 0 => q < b
  <2>1. m # 0 => q * BSZ < sz
    BY <1>2, BlockSizeAssumption
  <2> QED
    BY <1>2, <2>1, BlocksOf
<1> HIDE DEF k, q, m, b
<1>5. sz + k <= b * BSZ
  <2>1. m # 0 => q * BSZ + BSZ <= b * BSZ
    BY <1>2, <1>4, NextMultiple
  <2> QED
    BY <1>1, <1>2, <2>1, BlockSizeAssumption
<1>6. NBlocks(sz + k) = b
  <2>1. NBlocks(sz + k) \in Nat /\ ~(b < NBlocks(sz + k))
    BY <1>1, <1>2, <1>5, BlocksOf, BlockSizeAssumption
  <2>2. ~(NBlocks(sz + k) < b)
    <3> SUFFICES ASSUME NBlocks(sz + k) < b PROVE FALSE
      OBVIOUS
    <3>1. NBlocks(sz + k) * BSZ < sz
      BY <2>1, BlocksOf DEF b
    <3>2. NBlocks(sz + k) * BSZ < sz + k
      BY <1>1, <2>1, <3>1, BlockSizeAssumption
    <3> QED
      BY <1>1, <2>1, <3>2, BlocksOf
  <2> QED
    BY <1>2, <2>1, <2>2
<1>7. k < n => (sz + k) % BSZ = 0
  <2>1. CASE m = 0
    BY <1>1, <1>2, <2>1 DEF m
  <2>2. CASE m # 0
    <3> SUFFICES ASSUME k < n PROVE (sz + k) % BSZ = 0
      OBVIOUS
    <3>1. sz + k = (q + 1) * BSZ + 0 /\ q + 1 \in Nat
      BY <1>2, <1>3, <2>2, BlockSizeAssumption
    <3> QED
      BY <3>1, DivisionUnique, BlockSizeAssumption
  <2> QED
    BY <2>1, <2>2
<1> QED
  BY <1>5, <1>6, <1>7 DEF k, b

(* A block's worth takes one block more at most. *)
LEMMA OneBlockMore ==
    ASSUME NEW sz \in Nat, NEW n \in 0 .. BSZ
    PROVE  NBlocks(sz + n) <= NBlocks(sz) + 1
<1>1. NBlocks(sz) \in Nat /\ NBlocks(sz + n) \in Nat /\ sz + n \in Nat
  BY BlocksOf, BlockSizeAssumption
<1>2. NBlocks(sz) * BSZ >= sz
  BY <1>1, BlocksOf, BlockSizeAssumption
<1>3. (NBlocks(sz) + 1) * BSZ >= sz + n
  BY <1>1, <1>2, BlockSizeAssumption
<1>4. ~(NBlocks(sz) + 1 < NBlocks(sz + n))
  BY <1>1, <1>3, BlocksOf, BlockSizeAssumption
<1> QED
  BY <1>1, <1>4
-----------------------------------------------------------------------------
(* Recursion.  A set of numbers has a least one: that is induction without *)
(* a predicate as a parameter.                                             *)
LEMMA LeastElement ==
    ASSUME NEW S \in SUBSET Nat, S # {}
    PROVE  \E x \in S : \A y \in S : x <= y
<1>1. PICK x \in S : \A y \in S : <<y, x>> \notin OpToRel(<, Nat)
  BY NatLessThanWellFounded, WFMin
<1>2. \A y \in S : ~(y < x)
  BY <1>1 DEF OpToRel
<1> QED
  BY <1>2

LEMMA SetInduction ==
    ASSUME NEW S, 0 \in S, \A n \in Nat : n \in S => n + 1 \in S
    PROVE  Nat \subseteq S
<1> SUFFICES ASSUME Nat \ S # {} PROVE FALSE
  OBVIOUS
<1>1. PICK x \in Nat \ S : \A y \in Nat \ S : x <= y
  BY LeastElement
<1>2. x # 0 /\ x - 1 \in Nat /\ x - 1 \in S
  BY <1>1
<1> QED
  BY <1>2

(* A function that is defined at x by its value at next[x] exists, if that *)
(* comes to an end: every step leads to an argument of a lesser rank.      *)
Defines(g, D, B, base, step, next) ==
    \A x \in D : g[x] = IF x \in B THEN base ELSE step[<<x, g[next[x]]>>]

DefinesBelow(n, rank, g, D, B, base, step, next) ==
    \A x \in D : rank[x] < n =>
      g[x] = IF x \in B THEN base ELSE step[<<x, g[next[x]]>>]

LEMMA DefinedBelow ==
    ASSUME NEW D, NEW B, NEW V, NEW base \in V, NEW step \in [D \X V -> V],
           NEW next \in [D -> D], NEW rank \in [D -> Nat],
           \A x \in D \ B : rank[next[x]] < rank[x]
    PROVE  \A n \in Nat : \E g \in [D -> V] : DefinesBelow(n, rank, g, D, B, base, step, next)
<1> DEFINE good(n, g) == DefinesBelow(n, rank, g, D, B, base, step, next)
           S == {n \in Nat : \E g \in [D -> V] : good(n, g)}
<1>1. 0 \in S
  <2>1. [x \in D |-> base] \in [D -> V] /\ good(0, [x \in D |-> base])
    BY DEF DefinesBelow
  <2> QED
    BY <2>1
<1>2. ASSUME NEW n \in Nat, n \in S PROVE n + 1 \in S
  <2>1. PICK g \in [D -> V] : good(n, g)
    BY <1>2
  <2> DEFINE h == [x \in D |-> IF x \in B THEN base ELSE step[<<x, g[next[x]]>>]]
  <2>2. h \in [D -> V]
    OBVIOUS
  <2>3. ASSUME NEW x \in D, rank[x] < n + 1
        PROVE  h[x] = IF x \in B THEN base ELSE step[<<x, h[next[x]]>>]
    <3>1. CASE x \in B
      BY <3>1
    <3>2. CASE x \notin B
      <4>1. next[x] \in D /\ rank[next[x]] < n
        BY <2>3, <3>2
      <4>2. g[next[x]] = h[next[x]]
        BY <2>1, <4>1 DEF DefinesBelow
      <4> QED
        BY <3>2, <4>2
    <3> QED
      BY <3>1, <3>2
  <2> HIDE DEF h
  <2>4. good(n + 1, h)
    BY <2>3 DEF DefinesBelow
  <2> QED
    BY <2>2, <2>4
<1> HIDE DEF good
<1>3. Nat \subseteq S
  <2> HIDE DEF S
  <2> QED
    BY <1>1, <1>2, SetInduction
<1> QED
  BY <1>3 DEF good

LEMMA DefinedOnce ==
    ASSUME NEW D, NEW B, NEW base, NEW step, NEW next \in [D -> D], NEW rank \in [D -> Nat],
           \A x \in D \ B : rank[next[x]] < rank[x],
           NEW m \in Nat, NEW n \in Nat, NEW g, NEW h,
           DefinesBelow(m, rank, g, D, B, base, step, next),
           DefinesBelow(n, rank, h, D, B, base, step, next)
    PROVE  \A x \in D : rank[x] < m /\ rank[x] < n => g[x] = h[x]
<1> DEFINE S == {k \in Nat : \A x \in D : rank[x] < k /\ rank[x] < m /\ rank[x] < n => g[x] = h[x]}
<1>1. 0 \in S
  OBVIOUS
<1>2. ASSUME NEW k \in Nat, k \in S PROVE k + 1 \in S
  <2> SUFFICES ASSUME NEW x \in D, rank[x] < k + 1, rank[x] < m, rank[x] < n
               PROVE  g[x] = h[x]
    OBVIOUS
  <2>1. CASE x \in B
    BY <2>1 DEF DefinesBelow
  <2>2. CASE x \notin B
    <3>1. next[x] \in D /\ rank[next[x]] < k /\ rank[next[x]] < m /\ rank[next[x]] < n
      BY <2>2
    <3>2. g[next[x]] = h[next[x]]
      BY <1>2, <3>1
    <3> QED
      BY <2>2, <3>2 DEF DefinesBelow
  <2> QED
    BY <2>1, <2>2
<1>3. Nat \subseteq S
  <2> HIDE DEF S
  <2> QED
    BY <1>1, <1>2, SetInduction
<1> SUFFICES ASSUME NEW x \in D, rank[x] < m, rank[x] < n PROVE g[x] = h[x]
  OBVIOUS
<1>4. rank[x] + 1 \in S /\ rank[x] < rank[x] + 1
  BY <1>3
<1> QED
  BY <1>4

LEMMA RecursionExists ==
    ASSUME NEW D, NEW B, NEW V, NEW base \in V, NEW step \in [D \X V -> V],
           NEW next \in [D -> D], NEW rank \in [D -> Nat],
           \A x \in D \ B : rank[next[x]] < rank[x]
    PROVE  \E g \in [D -> V] : Defines(g, D, B, base, step, next)
<1> DEFINE good(n, g) == DefinesBelow(n, rank, g, D, B, base, step, next)
           at(n) == CHOOSE g \in [D -> V] : good(n, g)
           f == [x \in D |-> at(rank[x] + 1)[x]]
<1>1. ASSUME NEW n \in Nat PROVE at(n) \in [D -> V] /\ good(n, at(n))
  <2>1. \E g \in [D -> V] : good(n, g)
    BY DefinedBelow
  <2> HIDE DEF good
  <2> QED
    BY <2>1
<1>2. ASSUME NEW x \in D, NEW n \in Nat, rank[x] < n PROVE f[x] = at(n)[x]
  <2>1. good(rank[x] + 1, at(rank[x] + 1)) /\ good(n, at(n)) /\ rank[x] < rank[x] + 1
    BY <1>1
  <2> HIDE DEF at
  <2>2. at(rank[x] + 1)[x] = at(n)[x]
    BY <1>2, <2>1, DefinedOnce
  <2> QED
    BY <2>2
<1>3. f \in [D -> V]
  <2> SUFFICES ASSUME NEW x \in D PROVE at(rank[x] + 1)[x] \in V
    OBVIOUS
  <2>1. rank[x] + 1 \in Nat
    OBVIOUS
  <2> HIDE DEF at
  <2> QED
    BY <1>1, <2>1
<1>4. ASSUME NEW x \in D PROVE f[x] = IF x \in B THEN base ELSE step[<<x, f[next[x]]>>]
  <2> DEFINE n == rank[x] + 1
  <2>1. n \in Nat /\ rank[x] < n
    OBVIOUS
  <2>2. good(n, at(n)) /\ f[x] = at(n)[x]
    BY <1>1, <1>2, <2>1
  <2>3. x \notin B => next[x] \in D /\ rank[next[x]] < n
    OBVIOUS
  <2>4. x \notin B => f[next[x]] = at(n)[next[x]]
    BY <1>2, <2>1, <2>3
  <2>5. at(n)[x] = IF x \in B THEN base ELSE step[<<x, at(n)[next[x]]>>]
    BY <2>1, <2>2 DEF DefinesBelow
  <2> HIDE DEF f, at, n
  <2> QED
    BY <2>2, <2>4, <2>5
<1> HIDE DEF f
<1> QED
  BY <1>3, <1>4 DEF Defines
-----------------------------------------------------------------------------
(* Sums over a finite set, as MapThenSumSet takes them: one element after  *)
(* the other, in an order that depends on what is left only.               *)
LEMMA SubsetInduction ==
    ASSUME NEW S, IsFiniteSet(S), NEW Q, {} \in Q,
           \A s \in SUBSET S : s # {} /\ (\A x \in s : s \ {x} \in Q) => s \in Q
    PROVE  SUBSET S \subseteq Q
<1> DEFINE N == {n \in Nat : \A s \in SUBSET S : Cardinality(s) <= n => s \in Q}
<1>1. \A s \in SUBSET S : IsFiniteSet(s) /\ Cardinality(s) \in Nat
  BY FS_Subset, FS_CardinalityType
<1>2. 0 \in N
  <2> SUFFICES ASSUME NEW s \in SUBSET S, Cardinality(s) <= 0 PROVE s \in Q
    OBVIOUS
  <2>1. IsFiniteSet(s) /\ Cardinality(s) = 0
    BY <1>1
  <2>2. s = {}
    BY <2>1, FS_EmptySet
  <2> QED
    BY <2>2
<1>3. ASSUME NEW n \in Nat, n \in N PROVE n + 1 \in N
  <2> SUFFICES ASSUME NEW s \in SUBSET S, Cardinality(s) <= n + 1 PROVE s \in Q
    OBVIOUS
  <2>1. ASSUME NEW x \in s PROVE s \ {x} \in Q
    <3>1. Cardinality(s \ {x}) = Cardinality(s) - 1
      BY <1>1, FS_RemoveElement
    <3>2. s \ {x} \in SUBSET S /\ Cardinality(s \ {x}) <= n
      BY <1>1, <3>1
    <3> QED
      BY <1>3, <3>2
  <2> QED
    BY <2>1
<1>4. Nat \subseteq N
  <2> HIDE DEF N
  <2> QED
    BY <1>2, <1>3, SetInduction
<1> SUFFICES ASSUME NEW s \in SUBSET S PROVE s \in Q
  OBVIOUS
<1> QED
  BY <1>1, <1>4

AnyOf(s) == CHOOSE x \in s : TRUE

IsSum(g, w, S) ==
    /\ g \in [SUBSET S -> Nat]
    /\ g[{}] = 0
    /\ \A s \in (SUBSET S) \ {{}} : g[s] = w[AnyOf(s)] + g[s \ {AnyOf(s)}]

LEMMA SumExists ==
    ASSUME NEW S, IsFiniteSet(S), NEW w \in [S -> Nat]
    PROVE  \E g : IsSum(g, w, S)
<1> DEFINE D == SUBSET S
           next == [s \in D |-> IF s = {} THEN s ELSE s \ {AnyOf(s)}]
           rank == [s \in D |-> Cardinality(s)]
           step == [z \in D \X Nat |-> IF z[1] = {} THEN 0 ELSE w[AnyOf(z[1])] + z[2]]
<1>1. \A s \in D : IsFiniteSet(s) /\ Cardinality(s) \in Nat
  BY FS_Subset, FS_CardinalityType
<1>2. \A s \in D \ {{}} : AnyOf(s) \in s
  BY DEF AnyOf
<1>3. next \in [D -> D] /\ rank \in [D -> Nat]
  BY <1>1
<1>4. step \in [D \X Nat -> Nat]
  <2> SUFFICES ASSUME NEW s \in D, NEW v \in Nat, s # {} PROVE w[AnyOf(s)] + v \in Nat
    OBVIOUS
  <2>1. AnyOf(s) \in S
    BY <1>2
  <2> QED
    BY <2>1
<1>5. ASSUME NEW s \in D \ {{}} PROVE rank[next[s]] < rank[s]
  <2>1. Cardinality(s \ {AnyOf(s)}) = Cardinality(s) - 1 /\ s \ {AnyOf(s)} \in D
    BY <1>1, <1>2, FS_RemoveElement
  <2> QED
    BY <1>1, <2>1
<1>6. PICK g \in [D -> Nat] : Defines(g, D, {{}}, 0, step, next)
  <2> HIDE DEF D, next, rank, step
  <2> QED
    BY <1>3, <1>4, <1>5, RecursionExists
<1>7. g[{}] = 0
  BY <1>6 DEF Defines
<1>8. ASSUME NEW s \in D \ {{}} PROVE g[s] = w[AnyOf(s)] + g[s \ {AnyOf(s)}]
  <2>1. g[s] = step[<<s, g[next[s]]>>]
    BY <1>6, <1>8 DEF Defines
  <2>2. next[s] = s \ {AnyOf(s)} /\ g[next[s]] \in Nat
    BY <1>3, <1>6
  <2> QED
    BY <2>1, <2>2
<1> QED
  BY <1>6, <1>7, <1>8 DEF IsSum

(* A recursion that adds up natural numbers is the sum. *)
LEMMA SumTyped ==
    ASSUME NEW S, IsFiniteSet(S), NEW w \in [S -> Nat], NEW g,
           g = [s \in SUBSET S |-> IF s = {} THEN 0 ELSE w[AnyOf(s)] + g[s \ {AnyOf(s)}]]
    PROVE  IsSum(g, w, S)
<1> DEFINE Q == {s \in SUBSET S : g[s] \in Nat}
<1>1. {} \in Q
  OBVIOUS
<1>2. ASSUME NEW s \in SUBSET S, s # {}, \A x \in s : s \ {x} \in Q PROVE s \in Q
  <2>1. AnyOf(s) \in s
    BY <1>2 DEF AnyOf
  <2>2. g[s] = w[AnyOf(s)] + g[s \ {AnyOf(s)}]
    BY <1>2
  <2>3. w[AnyOf(s)] \in Nat /\ g[s \ {AnyOf(s)}] \in Nat
    BY <1>2, <2>1
  <2> QED
    BY <1>2, <2>2, <2>3
<1>3. SUBSET S \subseteq Q
  <2> HIDE DEF Q
  <2> QED
    BY <1>1, <1>2, SubsetInduction
<1> QED
  BY <1>3 DEF IsSum

(* What changing one summand does. *)
LEMMA SumChanged ==
    ASSUME NEW S, IsFiniteSet(S), NEW w \in [S -> Nat], NEW v \in [S -> Nat], NEW f \in S,
           \A x \in S \ {f} : v[x] = w[x],
           NEW g, IsSum(g, w, S), NEW h, IsSum(h, v, S)
    PROVE  h[S] = g[S] + v[f] - w[f]
<1> DEFINE Q == {s \in SUBSET S : h[s] = IF f \in s THEN g[s] + v[f] - w[f] ELSE g[s]}
<1>1. {} \in Q
  BY DEF IsSum
<1>2. ASSUME NEW s \in SUBSET S, s # {}, \A x \in s : s \ {x} \in Q PROVE s \in Q
  <2> DEFINE x == AnyOf(s)
             t == s \ {x}
  <2>1. x \in s
    BY <1>2 DEF AnyOf
  <2>2. g[s] = w[x] + g[t] /\ h[s] = v[x] + h[t]
    BY <1>2 DEF IsSum
  <2>3. h[t] = IF f \in t THEN g[t] + v[f] - w[f] ELSE g[t]
    BY <1>2, <2>1
  <2>4. x \in S /\ t \in SUBSET S
    BY <2>1
  <2>5. g[t] \in Nat /\ h[t] \in Nat
    BY <2>4 DEF IsSum
  <2>6. (f \in t <=> f \in s /\ f # x) /\ (f = x => f \in s)
    BY <2>1
  <2> HIDE DEF x, t
  <2>7. v[f] \in Nat /\ w[f] \in Nat /\ v[x] \in Nat /\ w[x] \in Nat /\ (f # x => v[x] = w[x])
    BY <2>4
  <2> QED
    BY <2>2, <2>3, <2>5, <2>6, <2>7
<1>3. SUBSET S \subseteq Q
  <2> HIDE DEF Q
  <2> QED
    BY <1>1, <1>2, SubsetInduction
<1> QED
  BY <1>3

(* No summand exceeds the sum. *)
LEMMA SumBounds ==
    ASSUME NEW S, IsFiniteSet(S), NEW w \in [S -> Nat], NEW f \in S, NEW g, IsSum(g, w, S)
    PROVE  w[f] <= g[S]
<1> DEFINE v == [w EXCEPT ![f] = 0]
<1>1. v \in [S -> Nat] /\ v[f] = 0 /\ \A x \in S \ {f} : v[x] = w[x]
  OBVIOUS
<1> HIDE DEF v
<1>2. PICK h : IsSum(h, v, S)
  BY <1>1, SumExists
<1>3. h[S] = g[S] + v[f] - w[f]
  BY <1>1, <1>2, SumChanged
<1>4. h[S] \in Nat /\ g[S] \in Nat
  BY <1>2 DEF IsSum
<1> QED
  BY <1>1, <1>3, <1>4
=============================================================================
