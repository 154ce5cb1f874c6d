------------------------ MODULE ProcessesDescriptors ------------------------
(***************************************************************************)
(* DescriptorsRestored, PipeDelivers, RedirectionDelivers and TypeOK of    *)
(* CarefulProcesses, for any number of children, descriptors, lines of     *)
(* output and lines typed.                                                 *)
(*                                                                         *)
(* They speak of the prompt.  What is inductive speaks of every step from  *)
(* one prompt to the next: the table the shell will have once Restored has *)
(* put it right is clean all along (Tidy), although the one it has while a *)
(* command runs is not; no child can write to a pipe or file, or read from *)
(* one, that is not its own (Tabled); and between them the pipe and the    *)
(* reader have at any time all the lines printed, in order (Filling and    *)
(* Reading).                                                               *)
(***************************************************************************)
EXTENDS ProcessesProofs, FiniteSetTheorems, SequenceTheorems, WellFoundedInduction

EndsOfPipes == {ReadEnd(k) : k \in Pipes} \cup {WriteEnd(k) : k \in Pipes}
Tables == [Fds -> {Closed, Terminal, File} \cup EndsOfPipes]

Room(t) == {n \in Fds : t[n] = Closed}
HasRoom(t, n) == Cardinality(Room(t)) >= n

(* A table the prompt can come back with: the terminal, and both ends of   *)
(* pipes or none.                                                          *)
Clean(t) ==
    /\ t[0] = Terminal /\ t[1] = Terminal /\ t[2] = Terminal
    /\ \A n \in Fds : t[n] # File
    /\ \A k \in Pipes : HasEnd(t, k) =>
         (\E n \in Fds : t[n] = ReadEnd(k)) /\ (\E n \in Fds : t[n] = WriteEnd(k))

(* The ends of pipe k in table t are the descriptors fd. *)
EndsAt(t, k, fd) ==
    /\ fd \in Fds \X Fds
    /\ \A n \in Fds : (t[n] = ReadEnd(k) <=> n = fd[1]) /\ (t[n] = WriteEnd(k) <=> n = fd[2])
-----------------------------------------------------------------------------
(* What descriptors stand for, and the three every process begins with. *)
LEMMA EndsDiffer ==
    /\ Closed # Terminal /\ Closed # File /\ Terminal # File
    /\ \A k : /\ ReadEnd(k) \notin {Closed, Terminal, File}
              /\ WriteEnd(k) \notin {Closed, Terminal, File}
    /\ \A j, k : /\ ReadEnd(j) # WriteEnd(k)
                 /\ ReadEnd(j) = ReadEnd(k) => j = k
                 /\ WriteEnd(j) = WriteEnd(k) => j = k
  BY DEF Closed, Terminal, File, ReadEnd, WriteEnd

LEMMA FdsTyped ==
    /\ Fds \subseteq Nat /\ 0 \in Fds /\ 1 \in Fds /\ 2 \in Fds
    /\ Pipes \subseteq Nat /\ Pipes # {} /\ 0 \notin Pipes
    /\ IsFiniteSet(Fds) /\ IsFiniteSet(Pipes)
<1>1. NFds \in Nat /\ NFds >= 5 /\ NFds \div 2 \in Nat /\ NFds \div 2 >= 1
  BY ProcessesAssumption, SMT
<1>2. IsFiniteSet(0 .. NFds - 1) /\ IsFiniteSet(1 .. NFds \div 2)
  BY <1>1, FS_Interval
<1> QED
  BY <1>1, <1>2 DEF Fds, Pipes

LEMMA LeastNumber ==
    ASSUME NEW S \in SUBSET Nat, S # {}
    PROVE  Min(S) \in S
<1>1. PICK x \in S : \A y \in S : <<y, x>> \notin OpToRel(<, Nat)
  BY NatLessThanWellFounded, WFMin
<1>2. \A y \in S : ~(y < x)
  BY <1>1 DEF OpToRel
<1>3. \E z \in S : \A y \in S : z <= y
  BY <1>2
<1> QED
  BY <1>3, Zenon DEF Min

(* The system calls, on any table, and on one with a descriptor left. *)
LEMMA CallsTyped ==
    \A t \in Tables :
      /\ \A e \in {Terminal, File} \cup EndsOfPipes : Given(t, e) \in Tables
      /\ \A n \in Fds : Dup(t, n) \in Tables /\ Close(t, n) \in Tables
      /\ \A n, m \in Fds : Dup2(t, n, m) \in Tables
      /\ \A fd : CloseBoth(t, fd) \in Tables
  BY DEF Tables, Given, Dup, Dup2, Close, CloseBoth

LEMMA LowestClosed ==
    ASSUME NEW t \in Tables, NEW n \in Nat, HasRoom(t, n + 1)
    PROVE  Lowest(t) \in Fds /\ t[Lowest(t)] = Closed
<1>1. IsFiniteSet(Room(t)) /\ Room(t) \in SUBSET Nat
  BY FdsTyped, FS_Subset DEF Room
<1>2. Room(t) # {}
  BY <1>1, FS_EmptySet DEF HasRoom
<1> QED
  BY <1>1, <1>2, LeastNumber DEF Lowest, Room

LEMMA GivenRoom ==
    ASSUME NEW t \in Tables, NEW n \in Nat, HasRoom(t, n + 1),
           NEW e \in {Terminal, File} \cup EndsOfPipes
    PROVE  /\ Given(t, e) \in Tables
           /\ Given(t, e) = [t EXCEPT ![Lowest(t)] = e]
           /\ Room(Given(t, e)) = Room(t) \ {Lowest(t)}
           /\ HasRoom(Given(t, e), n)
<1>1. Lowest(t) \in Fds /\ t[Lowest(t)] = Closed
  BY LowestClosed
<1>2. Given(t, e) \in Tables /\ Given(t, e) = [t EXCEPT ![Lowest(t)] = e]
  BY DEF Given, Tables
<1>3. e # Closed
  BY EndsDiffer DEF EndsOfPipes
<1>4. Room(Given(t, e)) = Room(t) \ {Lowest(t)}
  BY <1>1, <1>2, <1>3 DEF Room, Tables
<1>5. IsFiniteSet(Room(t)) /\ Lowest(t) \in Room(t)
  BY <1>1, FdsTyped, FS_Subset DEF Room
<1>6. Cardinality(Room(t) \ {Lowest(t)}) = Cardinality(Room(t)) - 1 /\ Cardinality(Room(t)) \in Nat
  BY <1>5, FS_RemoveElement, FS_CardinalityType
<1>7. Cardinality(Room(t) \ {Lowest(t)}) >= n
  BY <1>6 DEF HasRoom
<1>8. HasRoom(Given(t, e), n)
  BY <1>4, <1>7, Zenon DEF HasRoom
<1> QED
  BY <1>2, <1>4, <1>8

(* pipe(): two descriptors that were closed are the ends of the new pipe. *)
LEMMA PipeMadeAt ==
    ASSUME NEW t \in Tables, Clean(t), NEW n \in Nat, HasRoom(t, n + 2),
           NEW k \in Pipes, ~HasEnd(t, k)
    PROVE  /\ PipeMade(t, k) \in Tables /\ Clean(PipeMade(t, k))
           /\ HasRoom(PipeMade(t, k), n)
           /\ EndsAt(PipeMade(t, k), k, Ends(t))
           /\ \A m \in Fds : t[m] # Closed => PipeMade(t, k)[m] = t[m]
           /\ \A j \in Pipes : HasEnd(t, j) => HasEnd(PipeMade(t, k), j)
<1> DEFINE r == Lowest(t)
           u == Given(t, ReadEnd(k))
           w == Lowest(u)
           v == PipeMade(t, k)
<1>1. /\ ReadEnd(k) \in {Terminal, File} \cup EndsOfPipes
      /\ WriteEnd(k) \in {Terminal, File} \cup EndsOfPipes
      /\ n + 2 = (n + 1) + 1 /\ n + 1 \in Nat
  BY DEF EndsOfPipes
<1>2. r \in Fds /\ t[r] = Closed
  BY <1>1, LowestClosed
<1>3. /\ u \in Tables /\ u = [t EXCEPT ![r] = ReadEnd(k)]
      /\ Room(u) = Room(t) \ {r} /\ HasRoom(u, n + 1)
  BY <1>1, GivenRoom
<1>4. w = Lowest(Given(t, Terminal))
  BY <1>1, <1>3, GivenRoom DEF Lowest, Room
<1>5. w \in Fds /\ u[w] = Closed
  BY <1>3, LowestClosed
<1>6. v \in Tables /\ v = [u EXCEPT ![w] = WriteEnd(k)] /\ HasRoom(v, n)
  BY <1>1, <1>3, GivenRoom DEF PipeMade
<1>7. w # r /\ t[w] = Closed
  BY <1>2, <1>3, <1>5, EndsDiffer DEF Tables
<1>8. \A m \in Fds : v[m] = (IF m = r THEN ReadEnd(k) ELSE IF m = w THEN WriteEnd(k) ELSE t[m])
  BY <1>2, <1>3, <1>5, <1>6, <1>7 DEF Tables
<1>9. Ends(t) = <<r, w>>
  BY <1>4 DEF Ends
<1> HIDE DEF r, u, w, v
<1>10. EndsAt(v, k, <<r, w>>)
  BY <1>2, <1>5, <1>7, <1>8, EndsDiffer DEF EndsAt, HasEnd
<1>11. \A j \in Pipes : HasEnd(t, j) => HasEnd(v, j)
  BY <1>2, <1>7, <1>8, EndsDiffer DEF HasEnd
<1>12. Clean(v)
  <2>1. v[0] = Terminal /\ v[1] = Terminal /\ v[2] = Terminal /\ \A m \in Fds : v[m] # File
    BY <1>2, <1>7, <1>8, FdsTyped, EndsDiffer DEF Clean
  <2>2. ASSUME NEW j \in Pipes, HasEnd(v, j)
        PROVE  (\E m \in Fds : v[m] = ReadEnd(j)) /\ (\E m \in Fds : v[m] = WriteEnd(j))
    <3>1. CASE j = k
      BY <1>2, <1>5, <1>7, <1>8, <3>1
    <3>2. CASE j # k
      <4>1. HasEnd(t, j)
        BY <1>8, <2>2, <3>2, EndsDiffer DEF HasEnd
      <4> QED
        BY <1>2, <1>7, <1>8, <4>1, EndsDiffer DEF Clean
    <3> QED
      BY <3>1, <3>2
  <2> QED
    BY <2>1, <2>2 DEF Clean
<1>13. \A m \in Fds : t[m] # Closed => v[m] = t[m]
  BY <1>2, <1>7, <1>8
<1> QED
  BY <1>6, <1>9, <1>10, <1>11, <1>12, <1>13 DEF v

(* There is a pipe to be had: two descriptors for each that the shell has, *)
(* and the three it begins with, are more than there are.                  *)
LEMMA NewPipeFree ==
    ASSUME NEW t \in Tables, Clean(t)
    PROVE  NewPipe(t) \in Pipes /\ ~HasEnd(t, NewPipe(t))
<1>1. ASSUME \A k \in Pipes : HasEnd(t, k)
      PROVE  FALSE
  <2> DEFINE R == {n \in Fds : \E k \in Pipes : t[n] = ReadEnd(k)}
             W == {n \in Fds : \E k \in Pipes : t[n] = WriteEnd(k)}
             f == [n \in R |-> t[n][2]]
             g == [n \in W |-> t[n][2]]
             P == NFds \div 2
  <2>1. R \subseteq 3 .. NFds - 1 /\ W \subseteq 3 .. NFds - 1 /\ R \cap W = {}
    <3>1. \A n \in R \cup W : n \in Fds /\ n # 0 /\ n # 1 /\ n # 2
      BY EndsDiffer DEF Clean
    <3>2. \A n \in Fds : n # 0 /\ n # 1 /\ n # 2 => n \in 3 .. NFds - 1
      BY ProcessesAssumption DEF Fds
    <3>3. \A n \in R : n \notin W
      BY EndsDiffer
    <3> QED
      BY <3>1, <3>2, <3>3
  <2>2. f \in Surjection(R, Pipes)
    <3>1. \A n \in R : t[n][2] \in Pipes
      BY DEF ReadEnd
    <3>2. \A k \in Pipes : \E n \in R : t[n][2] = k
      <4> SUFFICES ASSUME NEW k \in Pipes PROVE \E n \in R : t[n][2] = k
        OBVIOUS
      <4>1. PICK n \in Fds : t[n] = ReadEnd(k)
        BY <1>1 DEF Clean
      <4>2. n \in R /\ t[n][2] = k
        BY <4>1 DEF ReadEnd
      <4> QED
        BY <4>2
    <3> QED
      BY <3>1, <3>2 DEF Surjection
  <2>3. g \in Surjection(W, Pipes)
    <3>1. \A n \in W : t[n][2] \in Pipes
      BY DEF WriteEnd
    <3>2. \A k \in Pipes : \E n \in W : t[n][2] = k
      <4> SUFFICES ASSUME NEW k \in Pipes PROVE \E n \in W : t[n][2] = k
        OBVIOUS
      <4>1. PICK n \in Fds : t[n] = WriteEnd(k)
        BY <1>1 DEF Clean
      <4>2. n \in W /\ t[n][2] = k
        BY <4>1 DEF WriteEnd
      <4> QED
        BY <4>2
    <3> QED
      BY <3>1, <3>2 DEF Surjection
  <2>4. /\ P \in Nat /\ NFds \in Nat /\ NFds >= 5 /\ NFds <= 2 * P + 1
    BY ProcessesAssumption, SMT
  <2> HIDE DEF R, W, f, g
  <2>5. /\ IsFiniteSet(3 .. NFds - 1) /\ Cardinality(3 .. NFds - 1) = NFds - 3
        /\ Cardinality(Pipes) = P
    <3>1. 3 \in Int /\ NFds - 1 \in Int /\ ~(3 > NFds - 1) /\ NFds - 1 - 3 + 1 = NFds - 3
      BY <2>4
    <3>2. 1 \in Int /\ P \in Int /\ ~(1 > P) /\ P - 1 + 1 = P
      BY <2>4
    <3>3. IsFiniteSet(3 .. NFds - 1) /\ Cardinality(3 .. NFds - 1) = NFds - 3
      BY <3>1, FS_Interval
    <3>4. Cardinality(1 .. P) = P
      <4> HIDE DEF P
      <4> QED
        BY <3>2, FS_Interval
    <3> QED
      BY <3>3, <3>4 DEF Pipes
  <2>6. IsFiniteSet(R) /\ IsFiniteSet(W) /\ IsFiniteSet(R \cup W)
        /\ Cardinality(R \cup W) <= NFds - 3
    <3>1. R \in SUBSET (3 .. NFds - 1) /\ W \in SUBSET (3 .. NFds - 1)
          /\ R \cup W \in SUBSET (3 .. NFds - 1)
      BY <2>1
    <3>2. IsFiniteSet(R) /\ IsFiniteSet(W) /\ IsFiniteSet(R \cup W)
      BY <2>5, <3>1, FS_Subset
    <3>3. Cardinality(R \cup W) <= Cardinality(3 .. NFds - 1)
      BY <2>5, <3>1, FS_Subset
    <3> QED
      BY <2>5, <3>2, <3>3
  <2>7. /\ Cardinality(R) \in Nat /\ Cardinality(W) \in Nat
        /\ Cardinality(R) >= P /\ Cardinality(W) >= P
    <3>1. Cardinality(R) \in Nat /\ Cardinality(W) \in Nat
      BY <2>6, FS_CardinalityType
    <3>2. Cardinality(Pipes) <= Cardinality(R)
      BY <2>2, <2>6, FS_Surjection
    <3>3. Cardinality(Pipes) <= Cardinality(W)
      BY <2>3, <2>6, FS_Surjection
    <3> QED
      BY <2>4, <2>5, <3>1, <3>2, <3>3
  <2>8. Cardinality(R \cup W) = Cardinality(R) + Cardinality(W)
    <3>1. Cardinality(R \cap W) = 0
      BY <2>1, FS_EmptySet, Zenon
    <3> QED
      <4>1. Cardinality(R \cup W) = Cardinality(R) + Cardinality(W) - Cardinality(R \cap W)
        BY <2>6, FS_Union
      <4> QED
        BY <2>7, <3>1, <4>1
  <2> HIDE DEF P
  <2> QED
    BY <2>4, <2>6, <2>7, <2>8
<1>2. {k \in Pipes : ~HasEnd(t, k)} \in SUBSET Nat
  BY FdsTyped
<1> QED
  BY <1>1, <1>2, LeastNumber DEF NewPipe

(* The first child's stdout is the pipe. *)
LEMMA WriterStreams ==
    ASSUME NEW t \in Tables, Clean(t), HasRoom(t, 1), NEW k \in Pipes, NEW fd, EndsAt(t, k, fd)
    PROVE  /\ Writer(t, fd) \in Tables
           /\ Writer(t, fd)[0] = Terminal /\ Writer(t, fd)[1] = WriteEnd(k)
<1> DEFINE s == Lowest(t)
           d == Dup(t, 1)
           e == fd[1]
           o == fd[2]
<1>1. s \in Fds /\ t[s] = Closed
  BY LowestClosed
<1>2. e \in Fds /\ o \in Fds /\ t[e] = ReadEnd(k) /\ t[o] = WriteEnd(k)
  BY DEF EndsAt
<1>3. t[0] = Terminal /\ t[1] = Terminal /\ 0 \in Fds /\ 1 \in Fds
  BY FdsTyped DEF Clean
<1>4. d \in Tables /\ \A n \in Fds : n # s => d[n] = t[n]
  <2>1. d = [t EXCEPT ![s] = t[1]]
    BY DEF Dup, Given
  <2> QED
    BY <1>3, <2>1, CallsTyped DEF Tables
<1>5. Writer(t, fd) = [[d EXCEPT ![1] = d[o]] EXCEPT ![e] = Closed]
  BY DEF Writer, Close, Dup2
<1>6. Writer(t, fd) \in Tables
  BY <1>2, <1>3, CallsTyped DEF Writer
<1> HIDE DEF s, d, e, o
<1>7. s # 0 /\ s # 1 /\ s # o /\ e # 0 /\ e # 1
  BY <1>1, <1>2, <1>3, EndsDiffer
<1> QED
  BY <1>2, <1>3, <1>4, <1>5, <1>6, <1>7 DEF Tables

(* The shell takes the read end for its stdin and closes both: put right,  *)
(* its table has no end of that pipe and all others as before.             *)
LEMMA ReaderRestores ==
    ASSUME NEW t \in Tables, Clean(t), HasRoom(t, 1), NEW k \in Pipes, NEW fd, EndsAt(t, k, fd)
    PROVE  LET u == Reader(t, fd)
               v == Dup2(u, Lowest(t), 0)
           IN  /\ u \in Tables /\ u[0] = ReadEnd(k) /\ u[1] = Terminal
               /\ v \in Tables /\ Clean(v) /\ ~HasEnd(v, k)
               /\ \A j \in Pipes : HasEnd(t, j) => HasEnd(u, j)
<1> DEFINE s == Lowest(t)
           u == Reader(t, fd)
           v == Dup2(u, s, 0)
           e == fd[1]
           o == fd[2]
<1>1. s \in Fds /\ t[s] = Closed
  BY LowestClosed
<1>2. /\ e \in Fds /\ o \in Fds /\ e # o /\ t[e] = ReadEnd(k) /\ t[o] = WriteEnd(k)
      /\ \A n \in Fds : n # e /\ n # o => t[n] # ReadEnd(k) /\ t[n] # WriteEnd(k)
  BY EndsDiffer DEF EndsAt
<1>3. t[0] = Terminal /\ t[1] = Terminal /\ t[2] = Terminal /\ 0 \in Fds /\ 1 \in Fds /\ 2 \in Fds
  BY FdsTyped DEF Clean
<1>4. /\ s # e /\ s # o /\ s \notin {0, 1, 2} /\ e \notin {0, 1, 2} /\ o \notin {0, 1, 2}
  BY <1>1, <1>2, <1>3, EndsDiffer
<1>5. \A n \in Fds : u[n] = (IF n = 0 THEN ReadEnd(k)
                              ELSE IF n = s THEN Terminal
                              ELSE IF n = e \/ n = o THEN Closed
                              ELSE t[n])
  <2> HIDE DEF s, e, o
  <2>1. \A n \in Fds : Dup(t, 0)[n] = (IF n = s THEN Terminal ELSE t[n])
    BY <1>1, <1>3 DEF Dup, Given, Tables, s
  <2>2. DOMAIN Dup(t, 0) = Fds
    BY DEF Dup, Given, Tables
  <2>3. /\ DOMAIN Dup2(Dup(t, 0), e, 0) = Fds
        /\ \A n \in Fds : Dup2(Dup(t, 0), e, 0)[n] =
             (IF n = 0 THEN ReadEnd(k) ELSE IF n = s THEN Terminal ELSE t[n])
    BY <1>2, <1>3, <1>4, <2>1, <2>2 DEF Dup2
  <2>4. u = [Dup2(Dup(t, 0), e, 0) EXCEPT ![e] = Closed, ![o] = Closed]
    BY DEF Reader, CloseBoth, e, o
  <2> HIDE DEF u
  <2> QED
    BY <1>1, <1>2, <1>3, <1>4, <2>3, <2>4
<1>6. u \in Tables
  BY <1>2, FdsTyped, CallsTyped DEF Reader
<1>7. v \in Tables /\ \A n \in Fds : v[n] = (IF n = 0 THEN u[s] ELSE u[n])
  <2> HIDE DEF u, s
  <2> QED
    BY <1>1, <1>6 DEF Dup2, Tables
<1> HIDE DEF s, u, v, e, o
<1>8. \A n \in Fds : v[n] = (IF n = s THEN Terminal ELSE IF n = e \/ n = o THEN Closed ELSE t[n])
  BY <1>1, <1>3, <1>4, <1>5, <1>7
<1>9. \A j \in Pipes : HasEnd(t, j) => HasEnd(u, j)
  <2> SUFFICES ASSUME NEW j \in Pipes, HasEnd(t, j) PROVE HasEnd(u, j)
    OBVIOUS
  <2>1. CASE j = k
    BY <1>3, <1>5, <2>1 DEF HasEnd
  <2>2. CASE j # k
    <3>1. PICK n \in Fds : t[n] = ReadEnd(j) \/ t[n] = WriteEnd(j)
      BY DEF HasEnd
    <3>2. n # 0 /\ n # s /\ n # e /\ n # o
      BY <1>1, <1>2, <1>3, <2>2, <3>1, EndsDiffer
    <3> QED
      BY <1>5, <3>1, <3>2 DEF HasEnd
  <2> QED
    BY <2>1, <2>2
<1>10. ~HasEnd(v, k)
  BY <1>2, <1>8, EndsDiffer DEF HasEnd
<1>11. Clean(v)
  <2>1. v[0] = Terminal /\ v[1] = Terminal /\ v[2] = Terminal /\ \A m \in Fds : v[m] # File
    BY <1>3, <1>4, <1>8, EndsDiffer DEF Clean
  <2>2. ASSUME NEW j \in Pipes, HasEnd(v, j)
        PROVE  (\E m \in Fds : v[m] = ReadEnd(j)) /\ (\E m \in Fds : v[m] = WriteEnd(j))
    <3>1. j # k /\ HasEnd(t, j)
      BY <1>8, <1>10, <2>2, EndsDiffer DEF HasEnd
    <3>2. PICK m \in Fds : t[m] = ReadEnd(j)
      BY <3>1 DEF Clean
    <3>3. PICK n \in Fds : t[n] = WriteEnd(j)
      BY <3>1 DEF Clean
    <3>4. m \notin {s, e, o} /\ n \notin {s, e, o}
      BY <1>1, <1>2, <3>1, <3>2, <3>3, EndsDiffer
    <3> QED
      BY <1>8, <3>2, <3>3, <3>4
  <2> QED
    BY <2>1, <2>2 DEF Clean
<1> QED
  BY <1>3, <1>4, <1>5, <1>6, <1>7, <1>9, <1>10, <1>11 DEF s, u, v

(* stdout becomes the file, and is kept in a descriptor next to it: put    *)
(* right, the table has no file.                                           *)
LEMMA RedirectedRestores ==
    ASSUME NEW t \in Tables, Clean(t), HasRoom(t, 3)
    PROVE  LET u == Redirected(t)
               v == Close(Dup2(u, Lowest(Given(t, File)), 1), Lowest(t))
           IN  /\ u \in Tables /\ u[0] = Terminal /\ u[1] = File
               /\ v \in Tables /\ Clean(v)
               /\ \A j \in Pipes : HasEnd(t, j) => HasEnd(u, j)
<1> DEFINE f == Lowest(t)
           w == Given(t, File)
           s == Lowest(w)
           u == Redirected(t)
           v == Close(Dup2(u, s, 1), f)
<1>1. f \in Fds /\ t[f] = Closed
  BY LowestClosed
<1>2. w \in Tables /\ w = [t EXCEPT ![f] = File] /\ HasRoom(w, 1 + 1)
  <2>1. HasRoom(t, 2 + 1)
    BY DEF HasRoom
  <2>2. HasRoom(w, 2)
    BY <2>1, GivenRoom
  <2>3. HasRoom(w, 1 + 1)
    BY <2>2 DEF HasRoom
  <2>4. w \in Tables /\ w = [t EXCEPT ![f] = File]
    BY <2>1, GivenRoom
  <2> QED
    BY <2>3, <2>4
<1>3. s \in Fds /\ w[s] = Closed
  BY <1>2, LowestClosed
<1>4. t[0] = Terminal /\ t[1] = Terminal /\ t[2] = Terminal /\ 0 \in Fds /\ 1 \in Fds /\ 2 \in Fds
  BY FdsTyped DEF Clean
<1>5. s # f /\ t[s] = Closed
  BY <1>1, <1>2, <1>3, EndsDiffer DEF Tables
<1>6. s \notin {0, 1, 2} /\ f \notin {0, 1, 2}
  BY <1>1, <1>4, <1>5, EndsDiffer
<1>7. u \in Tables /\ u = [[w EXCEPT ![s] = w[1]] EXCEPT ![1] = [w EXCEPT ![s] = w[1]][f]]
  <2>1. u \in Tables
    BY <1>1, <1>4, CallsTyped DEF Redirected
  <2>2. Dup(w, 1) = [w EXCEPT ![s] = w[1]]
    BY DEF Dup, Given
  <2> QED
    BY <2>1, <2>2 DEF Redirected, Dup2
<1> HIDE DEF f, s, w, u
<1>8. \A n \in Fds : u[n] = (IF n = 1 \/ n = f THEN File ELSE IF n = s THEN Terminal ELSE t[n])
  <2>1. \A n \in Fds : w[n] = (IF n = f THEN File ELSE t[n])
    BY <1>1, <1>2 DEF Tables
  <2> QED
    BY <1>1, <1>2, <1>3, <1>4, <1>5, <1>6, <1>7, <2>1 DEF Tables
<1>9. v \in Tables /\ \A n \in Fds : v[n] = (IF n = f THEN Closed ELSE IF n = 1 THEN u[s] ELSE u[n])
  BY <1>1, <1>3, <1>4, <1>7 DEF Close, Dup2, Tables
<1> HIDE DEF v
<1>10. \A n \in Fds : v[n] = (IF n = s THEN Terminal ELSE t[n])
  BY <1>1, <1>3, <1>4, <1>5, <1>6, <1>8, <1>9
<1>11. Clean(v)
  BY <1>4, <1>5, <1>10, EndsDiffer DEF Clean, HasEnd
<1>12. ASSUME NEW j \in Pipes, HasEnd(t, j) PROVE HasEnd(u, j)
  <2>1. PICK n \in Fds : t[n] = ReadEnd(j) \/ t[n] = WriteEnd(j)
    BY <1>12 DEF HasEnd
  <2>2. n # 1 /\ n # f /\ n # s
    BY <1>1, <1>4, <1>5, <2>1, EndsDiffer
  <2> QED
    BY <1>8, <2>1, <2>2 DEF HasEnd
<1>13. u[0] = Terminal /\ u[1] = File
  BY <1>4, <1>6, <1>8
<1> QED
  BY <1>7, <1>9, <1>11, <1>12, <1>13 DEF u, v, s, w, f
-----------------------------------------------------------------------------
(***************************************************************************)
(* The inductive invariant.                                                *)
(***************************************************************************)

(* No child has an end of a pipe but the one of the line being carried     *)
(* out, and one that is gone has nothing open.                             *)
Tabled ==
    /\ fds \in [Processes -> Tables]
    /\ \A q \in Processes \ {"shell"} : pc[q] = "none" => fds[q] = Ended
    /\ \A q \in Kids : fds[q][0] \in {Terminal, Closed} /\ fds[q][1] \in {Terminal, Closed}
    /\ fds["child"][1] # File
    /\ \A k \in Pipes : fds["child"][1] = WriteEnd(k) => HasEnd(fds["shell"], k)

(* A line being carried out is one of Line, for which there is room. *)
Lined ==
    /\ pc["shell"] # "prompt" => line \in Line /\ KnownRedirected(line)
    /\ pc["shell"] = "waiting" => line.form \in {"pipe", "pipes"}
    /\ pc["shell"] = "parsed" => HasRoom(fds["shell"], Needed(line)) /\ got = <<>>

MaybeFd == Fds \cup {NoFd}
Holding ==
    /\ held \in [pipe : Nat, fd : MaybeFd \X MaybeFd, fd2 : MaybeFd \X MaybeFd,
                 saved_stdin : MaybeFd, saved_stdout : MaybeFd, file : MaybeFd]
    /\ pc["shell"] = "waiting" => held.fd \in Fds \X Fds
    /\ pc["shell"] = "waiting" /\ line.form = "pipes" => held.fd2 \in Fds \X Fds

(* The table the shell has, or will have put right, is clean. *)
Tidy ==
    IF pc["shell"] = "running"
    THEN Restored(fds["shell"]) \in Tables /\ Clean(Restored(fds["shell"]))
    ELSE Clean(fds["shell"])

(* Where the command the shell runs reads and prints. *)
Streams ==
    pc["shell"] = "running" =>
      /\ fds["shell"][0] = (IF line.form = "pipe" THEN ReadEnd(held.pipe) ELSE Terminal)
      /\ fds["shell"][1] = (IF line.form = "redirect" THEN File ELSE Terminal)

(* A pipe holds something only while the shell has an end of it. *)
Flow ==
    /\ pipe \in [Pipes -> Seq(Nat)] /\ file \in Seq(Nat) /\ got \in Seq(Nat)
    /\ offset \in 0 .. Len(file)
    /\ \A k \in Pipes : Len(pipe[k]) <= PipeCapacity
    /\ \A k \in Pipes : pipe[k] # <<>> => HasEnd(fds["shell"], k)

(* The process p has printed the first n lines of its command c. *)
Printed(p, c, n) ==
    IF task[p].step = "done" THEN n = c.out
    ELSE n = task[p].said /\ task[p].said + task[p].left = c.out

(* While the shell waits for the first child, the pipe has what it printed. *)
Filling ==
    pc["shell"] = "waiting" /\ line.form = "pipe" =>
      /\ held.pipe \in Pipes /\ EndsAt(fds["shell"], held.pipe, held.fd)
      /\ HasRoom(fds["shell"], 1)
      /\ pc["child"] # "none" =>
           fds["child"][0] = Terminal /\ fds["child"][1] = WriteEnd(held.pipe)
      /\ Printed("child", line.cmds[1], Len(pipe[held.pipe]))
      /\ \A j \in 1 .. Len(pipe[held.pipe]) : pipe[held.pipe][j] = j
      /\ got = <<>>

(* While the shell reads, the pipe has what it has not yet got. *)
Reading ==
    pc["shell"] = "running" /\ line.form = "pipe" =>
      /\ held.pipe \in Pipes /\ ~HasEnd(Restored(fds["shell"]), held.pipe)
      /\ Len(got) + Len(pipe[held.pipe]) = line.cmds[1].out
      /\ \A j \in 1 .. Len(got) : got[j] = j
      /\ \A j \in 1 .. Len(pipe[held.pipe]) : pipe[held.pipe][j] = Len(got) + j
      /\ IF task["shell"].step = "done"
         THEN line.cmds[2].kind = "filter" => pipe[held.pipe] = <<>>
         ELSE task["shell"].kind = line.cmds[2].kind

Redirecting ==
    pc["shell"] = "running" /\ line.form = "redirect" =>
      /\ Printed("shell", line.cmds[1], offset)
      /\ \A j \in 1 .. offset : file[j] = j

Delivered == DescriptorsRestored /\ PipeDelivers /\ RedirectionDelivers

DInv ==
    /\ Tabled /\ Lined /\ Holding /\ Tidy /\ Streams
    /\ Flow /\ Filling /\ Reading /\ Redirecting /\ Delivered
-----------------------------------------------------------------------------
LEMMA Actors ==
    /\ "shell" \in Processes /\ "child" \in Processes /\ Kids \subseteq Processes
    /\ \A p \in Processes : p = "shell" \/ p = "child" \/ p \in Kids
    /\ "shell" \notin Kids /\ "child" \notin Kids /\ "shell" # "child"
  BY ProcessesAssumption DEF Processes

\* The form of a line and its commands.
LEMMA LineTyped ==
    ASSUME NEW l \in Line
    PROVE  /\ l.form \in Forms /\ l.cmds[1] \in Command /\ l.cmds[1].out \in Nat
           /\ l.form = "pipe" => l.cmds[2] \in Command
           /\ l.form = "pipes" => l.cmds[2] \in Command /\ l.cmds[3] \in Command
<1>1. l.form \in Forms
  BY LineAssumption
<1>2. l.cmds[1].out \in Nat
  BY LineCommands, ProcessesAssumption DEF Command
<1> QED
  BY <1>1, <1>2, LineCommands

(* What a step that moves no process and opens and closes nothing leaves   *)
(* to be shown.                                                            *)
LEMMA StandingStill ==
    ASSUME DInv, UNCHANGED <<pc, fds, held, line>>,
           pc["shell"] = "parsed" => got' = got
    PROVE  Tabled' /\ Lined' /\ Holding' /\ Tidy' /\ Streams' /\ DescriptorsRestored'
<1>1. Tabled' /\ Lined' /\ Holding' /\ Streams'
  BY DEF DInv, Tabled, Lined, Holding, Streams
<1>2. Tidy'
  BY DEF DInv, Tidy, Restored
<1>3. DescriptorsRestored'
  BY DEF DInv, Delivered, DescriptorsRestored, AtPrompt
<1> QED
  BY <1>1, <1>2, <1>3

(* A line written to a pipe goes to one the shell has an end of. *)
LEMMA PutFlows ==
    ASSUME DInv, NEW p \in Processes, NEW c \in Nat, NEW pp \in [Pipes -> Seq(Nat)],
           \A k \in Pipes : Len(pp[k]) <= PipeCapacity,
           \A k \in Pipes : pp[k] # <<>> => HasEnd(fds["shell"], k),
           Put(p, c, pp)
    PROVE  /\ pipe' \in [Pipes -> Seq(Nat)] /\ file' \in Seq(Nat) /\ offset' \in 0 .. Len(file')
           /\ \A k \in Pipes : Len(pipe'[k]) <= PipeCapacity
           /\ \A k \in Pipes : pipe'[k] # <<>> => HasEnd(fds["shell"], k)
<1>1. /\ file \in Seq(Nat) /\ offset \in 0 .. Len(file) /\ PipeCapacity \in Nat
  BY ProcessesAssumption DEF DInv, Flow
<1>2. CASE pipe' = pp /\ UNCHANGED <<file, offset>>
  BY <1>1, <1>2
<1>3. CASE file' = Written(c) /\ offset' = offset + 1 /\ pipe' = pp
  <2>1. CASE offset < Len(file)
    <3>1. file' = [file EXCEPT ![offset + 1] = c]
      BY <1>3, <2>1 DEF Written
    <3>2. file' \in Seq(Nat) /\ Len(file') = Len(file)
      <4>1. offset + 1 \in 1 .. Len(file)
        BY <1>1, <2>1
      <4> QED
        BY <1>1, <3>1, <4>1, ExceptSeq
    <3> QED
      BY <1>1, <1>3, <2>1, <3>2
  <2>2. CASE ~(offset < Len(file))
    <3>1. file' = Append(file, c)
      BY <1>3, <2>2 DEF Written
    <3> QED
      BY <1>1, <1>3, <2>2, <3>1
  <2> QED
    BY <2>1, <2>2
<1>4. ASSUME NEW k \in Pipes, fds[p][1] = WriteEnd(k), Len(pp[k]) < PipeCapacity,
             pipe' = [pp EXCEPT ![k] = Append(@, c)], UNCHANGED <<file, offset>>
      PROVE  /\ pipe' \in [Pipes -> Seq(Nat)] /\ file' \in Seq(Nat) /\ offset' \in 0 .. Len(file')
             /\ \A j \in Pipes : Len(pipe'[j]) <= PipeCapacity
             /\ \A j \in Pipes : pipe'[j] # <<>> => HasEnd(fds["shell"], j)
  <2>1. HasEnd(fds["shell"], k)
    <3>1. CASE p = "shell"
      BY <1>4, <3>1, FdsTyped DEF HasEnd
    <3>2. CASE p = "child"
      BY <1>4, <3>2 DEF DInv, Tabled
    <3>3. CASE p \in Kids
      BY <1>4, <3>3, EndsDiffer DEF DInv, Tabled
    <3> QED
      BY <3>1, <3>2, <3>3, Actors
  <2>2. Append(pp[k], c) \in Seq(Nat) /\ Len(Append(pp[k], c)) = Len(pp[k]) + 1
        /\ Len(pp[k]) \in Nat
    OBVIOUS
  <2>3. \A j \in Pipes : pipe'[j] = (IF j = k THEN Append(pp[k], c) ELSE pp[j])
    BY <1>4
  <2>4. pipe' \in [Pipes -> Seq(Nat)]
    BY <1>4, <2>2
  <2> QED
    BY <1>1, <1>4, <2>1, <2>2, <2>3, <2>4
<1> QED
  BY <1>2, <1>3, <1>4 DEF Put

(* Commands of the shell that are not printing or reading. *)
LEMMA QuietStep ==
    ASSUME DInv, NEW p \in Processes,
           UNCHANGED <<pc, fds, held, line, got>>, UNCHANGED output,
           \A q \in Processes \ {p} : task'[q] = task[q],
           p \notin Kids =>
             /\ task[p].step # "done" /\ task'[p].step # "done"
             /\ task'[p].said = task[p].said /\ task'[p].left = task[p].left
             /\ task'[p].kind = task[p].kind
    PROVE  DInv'
<1>1. UNCHANGED <<pipe, file, offset>>
  BY DEF output
<1>2. \A q \in {"shell", "child"} :
        \/ task'[q] = task[q]
        \/ /\ task[q].step # "done" /\ task'[q].step # "done"
           /\ task'[q].said = task[q].said /\ task'[q].left = task[q].left
           /\ task'[q].kind = task[q].kind
  BY Actors
<1>3. Flow'
  BY <1>1 DEF DInv, Flow
<1>4. Filling'
  BY <1>1, <1>2 DEF DInv, Filling, Printed
<1>5. Reading' /\ Redirecting'
  BY <1>1, <1>2 DEF DInv, Reading, Redirecting, Printed, Restored
<1>6. PipeDelivers' /\ RedirectionDelivers'
  BY <1>1 DEF DInv, Delivered, PipeDelivers, RedirectionDelivers, AtPrompt
<1> QED
  BY <1>3, <1>4, <1>5, <1>6, StandingStill DEF DInv, Delivered
-----------------------------------------------------------------------------
LEMMA Appended ==
    ASSUME NEW s \in Seq(Nat), NEW c \in Nat
    PROVE  /\ Append(s, c) \in Seq(Nat) /\ Len(Append(s, c)) = Len(s) + 1 /\ Len(s) \in Nat
           /\ \A j \in 1 .. Len(s) + 1 : Append(s, c)[j] = (IF j = Len(s) + 1 THEN c ELSE s[j])
  OBVIOUS

(* The steps of commands.  Those on the disk, and all of a child of "&". *)
LEMMA DiskSteps ==
    ASSUME IInv, DInv, NEW p \in Processes,
           GetBit(p) \/ ReadVector(p) \/ WriteVector(p) \/ GetInode(p) \/ PutInode(p)
    PROVE  DInv'
<1>1. task \in [Processes -> Task]
  BY DEF IInv, DiskKept, DataTyped
<1>2. /\ UNCHANGED <<pc, fds, held, line, got>> /\ UNCHANGED output
      /\ \A q \in Processes \ {p} : task'[q] = task[q]
      /\ task[p].step # "done" /\ task'[p].step # "done"
      /\ task'[p].said = task[p].said /\ task'[p].left = task[p].left
      /\ task'[p].kind = task[p].kind
  BY <1>1 DEF GetBit, ReadVector, WriteVector, GetInode, PutInode, Running, Task, output
<1> QED
  BY <1>2, QuietStep

LEMMA KidSteps ==
    ASSUME IInv, DInv, NEW p \in Kids, CommandStep(p)
    PROVE  DInv'
<1>1. /\ task \in [Processes -> Task] /\ p \in Processes
      /\ fds[p][0] \in {Terminal, Closed} /\ fds[p][1] \in {Terminal, Closed}
  BY Actors DEF IInv, DiskKept, DataTyped, DInv, Tabled
<1>2. ~Pass(p)
  BY <1>1, EndsDiffer DEF Pass
<1>3. CASE Say(p)
  <2>1. UNCHANGED output
    BY <1>1, <1>3, EndsDiffer DEF Say, Put, output
  <2>2. UNCHANGED <<pc, fds, held, line, got>> /\ \A q \in Processes \ {p} : task'[q] = task[q]
    BY <1>1, <1>3 DEF Say
  <2> QED
    BY <1>1, <2>1, <2>2, QuietStep
<1>4. CASE Finish(p)
  <2>1. UNCHANGED <<pc, fds, held, line, got>> /\ \A q \in Processes \ {p} : task'[q] = task[q]
    BY <1>1, <1>4 DEF Finish
  <2> QED
    BY <1>1, <1>4, <2>1, QuietStep DEF Finish
<1> QED
  BY <1>1, <1>2, <1>3, <1>4, DiskSteps DEF CommandStep

(* The shell prints to the terminal, or to the file. *)
LEMMA ShellSays ==
    ASSUME IInv, DInv, Say("shell")
    PROVE  DInv'
<1>1. /\ task \in [Processes -> Task] /\ "shell" \in Processes /\ pc["shell"] = "running"
      /\ task["shell"].step = "print" /\ task["shell"].left > 0 /\ line \in Line
  BY Actors DEF IInv, DiskKept, DataTyped, Say, Running, DInv, Lined
<1>2. /\ UNCHANGED <<pc, fds, held, line, got>>
      /\ \A q \in Processes \ {"shell"} : task'[q] = task[q]
      /\ task'["shell"].step = "print" /\ task'["shell"].kind = task["shell"].kind
      /\ task'["shell"].said = task["shell"].said + 1
      /\ task'["shell"].left = task["shell"].left - 1
      /\ task["shell"].said \in Nat /\ task["shell"].left \in Nat
      /\ Put("shell", task["shell"].said + 1, pipe)
  BY <1>1 DEF Say, Task
<1>3. CASE line.form # "redirect"
  <2>1. fds["shell"][1] = Terminal
    BY <1>1, <1>3 DEF DInv, Streams
  <2>2. UNCHANGED <<pipe, file, offset>>
    BY <1>2, <2>1, EndsDiffer DEF Put
  <2>3. Flow'
    BY <1>2, <2>2 DEF DInv, Flow
  <2>4. Filling' /\ Redirecting'
    BY <1>1, <1>2, <1>3 DEF Filling, Redirecting
  <2>5. Reading'
    BY <1>1, <1>2, <2>2 DEF DInv, Reading, Restored
  <2>6. PipeDelivers' /\ RedirectionDelivers'
    BY <1>1, <1>2 DEF PipeDelivers, RedirectionDelivers, AtPrompt
  <2> QED
    BY <1>1, <1>2, <2>3, <2>4, <2>5, <2>6, StandingStill DEF DInv, Delivered
<1>4. CASE line.form = "redirect"
  <2> DEFINE c == task["shell"].said + 1
  <2>1. fds["shell"][1] = File
    BY <1>1, <1>4 DEF DInv, Streams
  <2>2. file' = Written(c) /\ offset' = offset + 1 /\ pipe' = pipe
    BY <1>2, <2>1, EndsDiffer DEF Put
  <2>3. c \in Nat /\ pipe \in [Pipes -> Seq(Nat)]
    BY <1>2 DEF DInv, Flow
  <2>4. Flow'
    <3>1. got' \in Seq(Nat) /\ fds' = fds
      BY <1>2 DEF DInv, Flow
    <3>2. /\ \A k \in Pipes : Len(pipe[k]) <= PipeCapacity
          /\ \A k \in Pipes : pipe[k] # <<>> => HasEnd(fds["shell"], k)
      BY DEF DInv, Flow
    <3> HIDE DEF c
    <3>3. Put("shell", c, pipe)
      BY <1>2 DEF c
    <3> QED
      BY <1>1, <2>3, <3>1, <3>2, <3>3, PutFlows DEF Flow
  <2>5. /\ offset = task["shell"].said /\ offset \in 0 .. Len(file) /\ file \in Seq(Nat)
        /\ task["shell"].said + task["shell"].left = line.cmds[1].out
        /\ \A j \in 1 .. offset : file[j] = j
    BY <1>1, <1>4 DEF DInv, Redirecting, Printed, Flow
  <2>6. \A j \in 1 .. offset + 1 : file'[j] = j
    <3>1. CASE offset < Len(file)
      <4>1. offset + 1 \in 1 .. Len(file) /\ file' = [file EXCEPT ![offset + 1] = c]
        BY <2>2, <2>5, <3>1 DEF Written
      <4> QED
        BY <2>5, <4>1
    <3>2. CASE ~(offset < Len(file))
      <4>1. offset = Len(file) /\ file' = Append(file, c) /\ Len(file) \in Nat
        BY <2>2, <2>5, <3>2 DEF Written
      <4>2. \A j \in 1 .. Len(file) + 1 :
              file'[j] = (IF j = Len(file) + 1 THEN c ELSE file[j])
        BY <2>3, <2>5, <4>1, Appended
      <4> QED
        BY <2>5, <4>1, <4>2
    <3> QED
      BY <3>1, <3>2
  <2>7. Redirecting'
    <3>1. /\ line' = line /\ offset' = offset + 1 /\ task'["shell"].step = "print"
          /\ task'["shell"].said = offset + 1
      BY <1>2, <2>2, <2>5
    <3>2. task'["shell"].said + task'["shell"].left = task["shell"].said + task["shell"].left
      BY <1>2
    <3> QED
      BY <2>5, <2>6, <3>1, <3>2 DEF Redirecting, Printed
  <2>8. Filling' /\ Reading'
    BY <1>1, <1>2, <1>4 DEF Filling, Reading
  <2>9. PipeDelivers' /\ RedirectionDelivers'
    BY <1>1, <1>2 DEF PipeDelivers, RedirectionDelivers, AtPrompt
  <2> QED
    BY <1>1, <1>2, <2>4, <2>7, <2>8, <2>9, StandingStill DEF DInv, Delivered
<1> QED
  BY <1>3, <1>4

LEMMA Taken ==
    ASSUME NEW s \in Seq(Nat), s # <<>>
    PROVE  /\ Head(s) \in Nat /\ Head(s) = s[1] /\ Tail(s) \in Seq(Nat)
           /\ Len(s) \in Nat \ {0} /\ Len(Tail(s)) = Len(s) - 1
           /\ \A j \in 1 .. Len(s) - 1 : Tail(s)[j] = s[j + 1]
  BY EmptySeq, HeadTailProperties

(* A pipe from which a line is taken is no fuller. *)
LEMMA TakenPipe ==
    ASSUME Flow, NEW k \in Pipes, pipe[k] # <<>>, NEW pp, pp = [pipe EXCEPT ![k] = Tail(@)]
    PROVE  /\ pp \in [Pipes -> Seq(Nat)] /\ pp[k] = Tail(pipe[k])
           /\ \A j \in Pipes : Len(pp[j]) <= PipeCapacity
           /\ \A j \in Pipes : pp[j] # <<>> => HasEnd(fds["shell"], j)
<1>1. pipe \in [Pipes -> Seq(Nat)] /\ pipe[k] \in Seq(Nat) /\ PipeCapacity \in Nat
  BY ProcessesAssumption DEF Flow
<1>2. /\ Tail(pipe[k]) \in Seq(Nat) /\ Len(Tail(pipe[k])) = Len(pipe[k]) - 1
      /\ Len(pipe[k]) \in Nat
  BY <1>1, Taken
<1>3. \A j \in Pipes : pp[j] = (IF j = k THEN Tail(pipe[k]) ELSE pipe[j])
  BY <1>1
<1>4. pp \in [Pipes -> Seq(Nat)]
  BY <1>1, <1>2
<1>5. Len(pp[k]) <= PipeCapacity
  <2>1. Len(pipe[k]) <= PipeCapacity
    BY DEF Flow
  <2>2. Len(pp[k]) = Len(pipe[k]) - 1
    BY <1>2, <1>3
  <2> QED
    BY <1>1, <1>2, <2>1, <2>2
<1>6. \A j \in Pipes \ {k} : Len(pp[j]) <= PipeCapacity
  BY <1>3 DEF Flow
<1>7. \A j \in Pipes : pp[j] # <<>> => HasEnd(fds["shell"], j)
  BY <1>3 DEF Flow
<1> QED
  BY <1>3, <1>4, <1>5, <1>6, <1>7

(* The filter behind a pipe passes on a line of it. *)
LEMMA ShellPasses ==
    ASSUME IInv, DInv, Pass("shell")
    PROVE  DInv'
<1>1. /\ "shell" \in Processes /\ pc["shell"] = "running"
      /\ task["shell"].step = "print" /\ line \in Line
  BY Actors DEF Pass, Running, DInv, Lined
<1>2. PICK k \in Pipes :
        /\ fds["shell"][0] = ReadEnd(k) /\ pipe[k] # <<>>
        /\ Put("shell", Head(pipe[k]), [pipe EXCEPT ![k] = Tail(@)])
        /\ got' = Append(got, Head(pipe[k]))
  BY DEF Pass
<1>3. line.form = "pipe" /\ held.pipe = k /\ fds["shell"][1] = Terminal
  BY <1>1, <1>2, EndsDiffer DEF DInv, Streams
<1>4. /\ UNCHANGED <<pc, task, fds, held, line, file, offset>>
      /\ pipe' = [pipe EXCEPT ![k] = Tail(@)]
  BY <1>2, <1>3, EndsDiffer DEF Pass, Put
<1>5. Flow /\ pipe \in [Pipes -> Seq(Nat)] /\ pipe[k] \in Seq(Nat) /\ got \in Seq(Nat)
  BY DEF DInv, Flow
<1>6. /\ pipe' \in [Pipes -> Seq(Nat)] /\ pipe'[k] = Tail(pipe[k])
      /\ \A j \in Pipes : Len(pipe'[j]) <= PipeCapacity
      /\ \A j \in Pipes : pipe'[j] # <<>> => HasEnd(fds["shell"], j)
  BY <1>2, <1>4, <1>5, TakenPipe
<1> DEFINE m == Len(got)
           r == Len(pipe[k])
<1>7. /\ Head(pipe[k]) \in Nat /\ Head(pipe[k]) = pipe[k][1]
      /\ r \in Nat \ {0} /\ Len(pipe'[k]) = r - 1
      /\ \A j \in 1 .. r - 1 : pipe'[k][j] = pipe[k][j + 1]
  BY <1>2, <1>5, <1>6, Taken
<1>8. /\ got' \in Seq(Nat) /\ m \in Nat /\ Len(got') = m + 1
      /\ \A j \in 1 .. m + 1 : got'[j] = (IF j = m + 1 THEN pipe[k][1] ELSE got[j])
  BY <1>2, <1>5, <1>7, Appended
<1>f. Flow'
  BY <1>4, <1>5, <1>6, <1>8 DEF Flow
<1>9. Reading'
  <2>1. /\ ~HasEnd(Restored(fds["shell"]), k)
        /\ m + r = line.cmds[1].out
        /\ \A j \in 1 .. m : got[j] = j
        /\ \A j \in 1 .. r : pipe[k][j] = m + j
        /\ task["shell"].kind = line.cmds[2].kind
    BY <1>1, <1>3 DEF DInv, Reading
  <2> HIDE DEF m, r
  <2>2. Len(got') + Len(pipe'[k]) = line.cmds[1].out
    BY <1>7, <1>8, <2>1
  <2>3. \A j \in 1 .. Len(got') : got'[j] = j
    <3>1. pipe[k][1] = m + 1
      BY <1>7, <2>1
    <3> QED
      BY <1>8, <2>1, <3>1
  <2>4. \A j \in 1 .. Len(pipe'[k]) : pipe'[k][j] = Len(got') + j
    <3> SUFFICES ASSUME NEW j \in 1 .. r - 1
                 PROVE  pipe'[k][j] = m + 1 + j
      BY <1>7, <1>8
    <3>1. j + 1 \in 1 .. r /\ m + (j + 1) = m + 1 + j
      BY <1>7, <1>8
    <3>2. pipe[k][j + 1] = m + (j + 1)
      BY <2>1, <3>1
    <3> QED
      BY <1>7, <3>1, <3>2
  <2>5. ~HasEnd(Restored(fds["shell"]), k)'
    BY <1>4, <2>1 DEF Restored, HasEnd
  <2> QED
    BY <1>1, <1>3, <1>4, <2>1, <2>2, <2>3, <2>4, <2>5 DEF Reading
<1>10. Filling' /\ Redirecting' /\ PipeDelivers' /\ RedirectionDelivers'
  BY <1>1, <1>3, <1>4 DEF Filling, Redirecting, PipeDelivers, RedirectionDelivers, AtPrompt
<1> QED
  BY <1>1, <1>4, <1>f, <1>9, <1>10, StandingStill DEF DInv, Delivered

(* A command of the shell has ended; a filter, only with its input. *)
LEMMA ShellFinishes ==
    ASSUME IInv, DInv, Finish("shell")
    PROVE  DInv'
<1>1. /\ task \in [Processes -> Task] /\ "shell" \in Processes /\ pc["shell"] = "running"
      /\ task["shell"].step = "print" /\ task["shell"].left = 0 /\ line \in Line
      /\ task["shell"].said \in Nat
  BY Actors DEF IInv, DiskKept, DataTyped, Finish, Running, DInv, Lined, Task
<1>2. /\ UNCHANGED <<pc, fds, held, line, got, pipe, file, offset>>
      /\ task' = [task EXCEPT !["shell"] = Idle]
  BY DEF Finish, output
<1>3. task'["shell"].step = "done"
  BY <1>1, <1>2, IdleTyped
<1>4. Flow'
  BY <1>2 DEF DInv, Flow
<1>5. Filling' /\ PipeDelivers' /\ RedirectionDelivers'
  BY <1>1, <1>2 DEF Filling, PipeDelivers, RedirectionDelivers, AtPrompt
<1>6. Redirecting'
  BY <1>1, <1>2, <1>3 DEF DInv, Redirecting, Printed
<1>7. ASSUME line.form = "pipe", line.cmds[2].kind = "filter"
      PROVE  pipe[held.pipe] = <<>>
  <2>1. task["shell"].kind = "filter" /\ fds["shell"][0] = ReadEnd(held.pipe)
    BY <1>1, <1>7 DEF DInv, Reading, Streams
  <2>2. AtEnd("shell")
    BY <2>1 DEF Finish
  <2> QED
    BY <2>1, <2>2, EndsDiffer DEF AtEnd
<1>8. Reading'
  <2>1. Restored(fds["shell"])' = Restored(fds["shell"])
    BY <1>2 DEF Restored
  <2> QED
    BY <1>1, <1>2, <1>3, <1>7, <2>1 DEF DInv, Reading, HasEnd
<1> QED
  BY <1>1, <1>2, <1>4, <1>5, <1>6, <1>8, StandingStill DEF DInv, Delivered

(* The child of a line with pipes.  While it is there the shell waits. *)
LEMMA ChildThere ==
    ASSUME IInv, DInv, pc["child"] = "running"
    PROVE  /\ pc["shell"] \in {"waiting", "waiting2"} /\ line \in Line
           /\ pc["shell"] = "waiting2" => line.form = "pipes"
  BY DEF IInv, Scheduled, DInv, Lined

LEMMA ChildSays ==
    ASSUME IInv, DInv, Say("child")
    PROVE  DInv'
<1>1. /\ task \in [Processes -> Task] /\ "child" \in Processes /\ pc["child"] = "running"
      /\ task["child"].step = "print" /\ task["child"].left > 0
      /\ pc["shell"] \in {"waiting", "waiting2"} /\ line \in Line
      /\ pc["shell"] = "waiting2" => line.form = "pipes"
  BY Actors, ChildThere DEF IInv, DiskKept, DataTyped, Say, Running
<1>2. /\ UNCHANGED <<pc, fds, held, line, got>>
      /\ task'["child"].step = "print"
      /\ task'["child"].said = task["child"].said + 1
      /\ task'["child"].left = task["child"].left - 1
      /\ task["child"].said \in Nat /\ task["child"].left \in Nat
      /\ Put("child", task["child"].said + 1, pipe)
  BY <1>1 DEF Say, Task
<1>3. Flow'
  <2> DEFINE c == task["child"].said + 1
  <2>1. c \in Nat /\ pipe \in [Pipes -> Seq(Nat)] /\ got' \in Seq(Nat) /\ fds' = fds
    BY <1>2 DEF DInv, Flow
  <2>2. /\ \A k \in Pipes : Len(pipe[k]) <= PipeCapacity
        /\ \A k \in Pipes : pipe[k] # <<>> => HasEnd(fds["shell"], k)
    BY DEF DInv, Flow
  <2> HIDE DEF c
  <2>3. Put("child", c, pipe)
    BY <1>2 DEF c
  <2> QED
    BY <1>1, <2>1, <2>2, <2>3, PutFlows DEF Flow
<1>4. Filling'
  <2> SUFFICES ASSUME pc["shell"] = "waiting", line.form = "pipe" PROVE Filling'
    BY <1>2 DEF Filling
  <2> DEFINE k == held.pipe
  <2>1. /\ k \in Pipes /\ EndsAt(fds["shell"], k, held.fd) /\ HasRoom(fds["shell"], 1)
        /\ fds["child"][0] = Terminal /\ fds["child"][1] = WriteEnd(k)
        /\ Len(pipe[k]) = task["child"].said
        /\ task["child"].said + task["child"].left = line.cmds[1].out
        /\ \A j \in 1 .. Len(pipe[k]) : pipe[k][j] = j
        /\ got = <<>> /\ pipe \in [Pipes -> Seq(Nat)]
    BY <1>1 DEF DInv, Filling, Printed, Flow
  <2> HIDE DEF k
  <2>2. pipe' = [pipe EXCEPT ![k] = Append(@, task["child"].said + 1)]
    BY <1>2, <2>1, EndsDiffer DEF Put
  <2>3. pipe'[k] = Append(pipe[k], task["child"].said + 1) /\ pipe[k] \in Seq(Nat)
    BY <2>1, <2>2
  <2>4. /\ Len(pipe'[k]) = Len(pipe[k]) + 1
        /\ \A j \in 1 .. Len(pipe[k]) + 1 :
             pipe'[k][j] = (IF j = Len(pipe[k]) + 1 THEN task["child"].said + 1 ELSE pipe[k][j])
    BY <1>2, <2>3, Appended
  <2>5. \A j \in 1 .. Len(pipe'[k]) : pipe'[k][j] = j
    <3> DEFINE r == Len(pipe[k])
    <3>1. r \in Nat /\ task["child"].said = r
      BY <1>2, <2>1
    <3>2. /\ \A j \in 1 .. r : pipe[k][j] = j
          /\ Len(pipe'[k]) = r + 1
          /\ \A j \in 1 .. r + 1 : pipe'[k][j] = (IF j = r + 1 THEN r + 1 ELSE pipe[k][j])
      BY <2>1, <2>4, <3>1
    <3> HIDE DEF r
    <3> QED
      BY <3>1, <3>2
  <2>6. task'["child"].said + task'["child"].left = task["child"].said + task["child"].left
    BY <1>2
  <2>7. Printed("child", line.cmds[1], Len(pipe[k]))'
    BY <1>2, <2>1, <2>4, <2>6 DEF Printed, k
  <2> QED
    BY <1>2, <2>1, <2>5, <2>7 DEF Filling, k
<1>5. Reading' /\ Redirecting' /\ PipeDelivers' /\ RedirectionDelivers'
  BY <1>1, <1>2 DEF Reading, Redirecting, PipeDelivers, RedirectionDelivers, AtPrompt
<1> QED
  BY <1>2, <1>3, <1>4, <1>5, StandingStill DEF DInv, Delivered

(* Only the child of two pipes reads from one. *)
LEMMA ChildPasses ==
    ASSUME IInv, DInv, Pass("child")
    PROVE  DInv'
<1>1. /\ "child" \in Processes /\ pc["child"] = "running"
      /\ pc["shell"] \in {"waiting", "waiting2"}
      /\ pc["shell"] = "waiting2" => line.form = "pipes"
  BY Actors, ChildThere DEF Pass, Running
<1>2. PICK k \in Pipes :
        /\ fds["child"][0] = ReadEnd(k) /\ pipe[k] # <<>>
        /\ Put("child", Head(pipe[k]), [pipe EXCEPT ![k] = Tail(@)])
        /\ got' = Append(got, Head(pipe[k]))
  BY DEF Pass
<1>3. UNCHANGED <<pc, task, fds, held, line>>
  BY DEF Pass
<1>4. /\ Flow /\ got \in Seq(Nat) /\ Head(pipe[k]) \in Nat
  <2>1. Flow /\ pipe[k] \in Seq(Nat) /\ got \in Seq(Nat)
    BY DEF DInv, Flow
  <2> QED
    BY <1>2, <2>1, Taken
<1>5. Flow'
  <2> DEFINE pp == [pipe EXCEPT ![k] = Tail(@)]
             c == Head(pipe[k])
  <2>1. /\ pp \in [Pipes -> Seq(Nat)]
        /\ \A j \in Pipes : Len(pp[j]) <= PipeCapacity
        /\ \A j \in Pipes : pp[j] # <<>> => HasEnd(fds["shell"], j)
    BY <1>2, <1>4, TakenPipe
  <2>2. Put("child", c, pp) /\ c \in Nat /\ got' = Append(got, c)
    BY <1>2, <1>4
  <2> HIDE DEF pp, c
  <2>3. got' \in Seq(Nat) /\ fds' = fds
    BY <1>3, <1>4, <2>2
  <2>4. /\ pipe' \in [Pipes -> Seq(Nat)] /\ file' \in Seq(Nat) /\ offset' \in 0 .. Len(file')
        /\ \A j \in Pipes : Len(pipe'[j]) <= PipeCapacity
        /\ \A j \in Pipes : pipe'[j] # <<>> => HasEnd(fds["shell"], j)
    BY <1>1, <2>1, <2>2, PutFlows
  <2> QED
    BY <2>3, <2>4 DEF Flow
<1>6. ~(pc["shell"] = "waiting" /\ line.form = "pipe")
  BY <1>1, <1>2, EndsDiffer DEF DInv, Filling
<1>7. Filling' /\ Reading' /\ Redirecting' /\ PipeDelivers' /\ RedirectionDelivers'
  BY <1>1, <1>3, <1>6
     DEF Filling, Reading, Redirecting, PipeDelivers, RedirectionDelivers, AtPrompt
<1> QED
  BY <1>1, <1>3, <1>5, <1>7, StandingStill DEF DInv, Delivered

LEMMA ChildFinishes ==
    ASSUME IInv, DInv, Finish("child")
    PROVE  DInv'
<1>1. /\ task \in [Processes -> Task] /\ "child" \in Processes /\ pc["child"] = "running"
      /\ task["child"].step = "print" /\ task["child"].left = 0 /\ task["child"].said \in Nat
      /\ pc["shell"] \in {"waiting", "waiting2"}
  BY Actors, ChildThere DEF IInv, DiskKept, DataTyped, Finish, Running, Task
<1>2. /\ UNCHANGED <<pc, fds, held, line, got, pipe, file, offset>>
      /\ task' = [task EXCEPT !["child"] = Idle]
  BY DEF Finish, output
<1>3. task'["child"].step = "done"
  BY <1>1, <1>2, IdleTyped
<1>4. Flow'
  BY <1>2 DEF DInv, Flow
<1>5. Filling'
  BY <1>1, <1>2, <1>3 DEF DInv, Filling, Printed
<1>6. Reading' /\ Redirecting' /\ PipeDelivers' /\ RedirectionDelivers'
  BY <1>1, <1>2 DEF Reading, Redirecting, PipeDelivers, RedirectionDelivers, AtPrompt
<1> QED
  BY <1>1, <1>2, <1>4, <1>5, <1>6, StandingStill DEF DInv, Delivered

LEMMA CommandDelivers ==
    ASSUME IInv, DInv, NEW p \in Processes, CommandStep(p)
    PROVE  DInv'
<1>1. CASE p \in Kids
  BY <1>1, KidSteps
<1>2. CASE p = "shell"
  BY <1>2, ShellSays, ShellPasses, ShellFinishes, DiskSteps DEF CommandStep
<1>3. CASE p = "child"
  BY <1>3, ChildSays, ChildPasses, ChildFinishes, DiskSteps DEF CommandStep
<1> QED
  BY <1>1, <1>2, <1>3, Actors
-----------------------------------------------------------------------------
(* What a line makes of the shell's table.  Duplicating and closing        *)
(* descriptors makes no table refer to anything new.                       *)
Drawn(u, t) == u \in Tables /\ \A n \in Fds : u[n] = Closed \/ \E m \in Fds : u[n] = t[m]

LEMMA CallsDraw ==
    ASSUME NEW t \in Tables, NEW u, Drawn(u, t)
    PROVE  /\ \A n \in Fds : Drawn(Dup(u, n), t)
           /\ \A n, m \in Fds : Drawn(Dup2(u, n, m), t)
           /\ \A n \in Fds : Drawn(Close(u, n), t)
           /\ \A fd : Drawn(CloseBoth(u, fd), t)
<1>1. u \in Tables /\ \A n \in Fds : u[n] = Closed \/ \E m \in Fds : u[n] = t[m]
  BY DEF Drawn
<1>2. ASSUME NEW n \in Fds PROVE Drawn(Dup(u, n), t)
  <2>1. Dup(u, n) \in Tables /\ \A i \in Fds : Dup(u, n)[i] \in {u[i], u[n]}
    BY <1>1, CallsTyped DEF Dup, Given, Tables
  <2> QED
    BY <1>1, <2>1 DEF Drawn
<1>3. ASSUME NEW n \in Fds, NEW m \in Fds PROVE Drawn(Dup2(u, n, m), t)
  <2>1. Dup2(u, n, m) \in Tables /\ \A i \in Fds : Dup2(u, n, m)[i] \in {u[i], u[n]}
    BY <1>1, CallsTyped DEF Dup2, Tables
  <2> QED
    BY <1>1, <2>1 DEF Drawn
<1>4. ASSUME NEW n \in Fds PROVE Drawn(Close(u, n), t)
  <2>1. Close(u, n) \in Tables /\ \A i \in Fds : Close(u, n)[i] \in {u[i], Closed}
    BY <1>1, CallsTyped DEF Close, Tables
  <2> QED
    BY <1>1, <2>1 DEF Drawn
<1>5. ASSUME NEW fd PROVE Drawn(CloseBoth(u, fd), t)
  <2> DEFINE x == fd[1]
             y == fd[2]
  <2>1. CloseBoth(u, fd) \in Tables /\ \A i \in Fds : CloseBoth(u, fd)[i] \in {u[i], Closed}
    <3>1. CloseBoth(u, fd) \in Tables
      BY <1>1, CallsTyped
    <3>2. CloseBoth(u, fd) = [u EXCEPT ![x] = Closed, ![y] = Closed]
      BY DEF CloseBoth
    <3>3. DOMAIN u = Fds
      BY <1>1 DEF Tables
    <3> HIDE DEF x, y
    <3> QED
      BY <3>1, <3>2, <3>3
  <2> QED
    BY <1>1, <2>1 DEF Drawn
<1> QED
  BY <1>2, <1>3, <1>4, <1>5

\* The tables of the first two children of a line with two pipes.
LEMMA ThreeDraw ==
    ASSUME NEW t \in Tables, NEW fd \in Fds \X Fds, NEW fd2 \in Fds \X Fds
    PROVE  Drawn(FirstOfThree(t, fd, fd2), t) /\ Drawn(SecondOfThree(t, fd, fd2), t)
<1>1. /\ fd[1] \in Fds /\ fd[2] \in Fds /\ fd2[1] \in Fds /\ fd2[2] \in Fds
      /\ 0 \in Fds /\ 1 \in Fds
  BY FdsTyped
<1>2. Drawn(t, t)
  BY DEF Drawn
<1>3. Drawn(Dup(t, 1), t)
  BY <1>1, <1>2, CallsDraw
<1>4. Drawn(FirstOfThree(t, fd, fd2), t)
  <2>1. Drawn(Dup2(Dup(t, 1), fd[2], 1), t)
    BY <1>1, <1>3, CallsDraw
  <2>2. Drawn(Writer(t, fd), t)
    BY <1>1, <2>1, CallsDraw DEF Writer
  <2> QED
    BY <2>2, CallsDraw DEF FirstOfThree
<1>5. Drawn(SecondOfThree(t, fd, fd2), t)
  <2>1. Drawn(Dup(Dup(t, 1), 0), t)
    BY <1>1, <1>3, CallsDraw
  <2>2. Drawn(Dup2(Dup(Dup(t, 1), 0), fd2[2], 1), t)
    BY <1>1, <2>1, CallsDraw
  <2>3. Drawn(Dup2(Dup2(Dup(Dup(t, 1), 0), fd2[2], 1), fd[1], 0), t)
    BY <1>1, <2>2, CallsDraw
  <2> QED
    BY <2>3, CallsDraw DEF SecondOfThree
<1> QED
  BY <1>4, <1>5

LEMMA DrawnHasEnds ==
    ASSUME NEW t \in Tables, Clean(t), NEW u, Drawn(u, t)
    PROVE  /\ u[1] # File
           /\ \A k \in Pipes : u[1] = WriteEnd(k) => HasEnd(t, k)
  BY FdsTyped, EndsDiffer DEF Drawn, Clean, HasEnd

LEMMA LessRoom ==
    ASSUME NEW t, NEW n \in Nat, HasRoom(t, n + 1)
    PROVE  HasRoom(t, n)
<1>1. Room(t) \in SUBSET Fds
  BY DEF Room
<1>2. Cardinality(Room(t)) \in Nat
  BY <1>1, FdsTyped, FS_Subset, FS_CardinalityType
<1> QED
  BY <1>2 DEF HasRoom
-----------------------------------------------------------------------------
(* A line is typed. *)
LEMMA TypedDelivers ==
    ASSUME IInv, DInv, NEW l \in Line, Careful(l), Typed(l)
    PROVE  DInv'
<1>1. /\ pc["shell"] = "prompt" /\ pc'["shell"] = "parsed"
      /\ \A q \in Processes \ {"shell"} : pc'[q] = pc[q]
      /\ line' = l /\ got' = <<>> /\ held' = NothingHeld
      /\ UNCHANGED <<fds, pipe, file, offset>>
      /\ HasRoom(fds["shell"], Needed(l)) /\ KnownRedirected(l)
  BY Actors DEF Typed, IInv, Scheduled, output, HasRoom, Room, Careful
<1>2. Tabled'
  BY <1>1 DEF DInv, Tabled
<1>3. Lined'
  BY <1>1 DEF Lined, KnownRedirected, Needed
<1>4. Holding'
  BY <1>1 DEF Holding, NothingHeld, MaybeFd
<1>5. Tidy'
  BY <1>1 DEF DInv, Tidy
<1>6. Flow'
  BY <1>1 DEF DInv, Flow
<1>7. Streams' /\ Filling' /\ Reading' /\ Redirecting'
  BY <1>1 DEF Streams, Filling, Reading, Redirecting
<1>8. Delivered'
  BY <1>1 DEF Delivered, DescriptorsRestored, PipeDelivers, RedirectionDelivers, AtPrompt
<1> QED
  BY <1>2, <1>3, <1>4, <1>5, <1>6, <1>7, <1>8 DEF DInv

\* Where a command begins, it has printed nothing.
LEMMA BegunPrints ==
    ASSUME NEW p \in Processes, NEW c \in Command, task'[p] = Begun(c)
    PROVE  /\ Printed(p, c, 0)' /\ task'[p].step # "done" /\ task'[p].kind = c.kind
<1>1. c.out \in Nat
  BY ProcessesAssumption DEF Command
<1>2. task'[p].said = 0 /\ task'[p].left = c.out /\ task'[p].step # "done" /\ task'[p].kind = c.kind
  BY DEF Begun
<1> QED
  BY <1>1, <1>2 DEF Printed

(* The shell starts a command in itself ... *)
LEMMA ShellRunsDelivers ==
    ASSUME IInv, DInv, NEW c, NEW t \in Tables, ShellRuns(c, t),
           pc["shell"] \in {"parsed", "waiting", "waiting2"}, pc["child"] = "none",
           UNCHANGED <<line, pipe, file, got>>, offset' \in {0, offset},
           \A k \in Pipes : HasEnd(fds["shell"], k) => HasEnd(t, k),
           Holding', Tidy', Streams', Reading', Redirecting'
    PROVE  DInv'
<1>1. /\ pc'["shell"] = "running" /\ fds'["shell"] = t
      /\ \A q \in Processes \ {"shell"} : pc'[q] = pc[q] /\ fds'[q] = fds[q]
      /\ fds' \in [Processes -> Tables]
  BY Actors DEF ShellRuns, IInv, Scheduled, DInv, Tabled
<1>2. Tabled'
  <2>1. fds["child"] = Ended /\ Ended[1] = Closed
    BY Actors, FdsTyped DEF DInv, Tabled, Ended
  <2>2. \A q \in Processes \ {"shell"} : pc'[q] = "none" => fds'[q] = Ended
    BY <1>1 DEF DInv, Tabled
  <2>3. \A q \in Kids : fds'[q][0] \in {Terminal, Closed} /\ fds'[q][1] \in {Terminal, Closed}
    BY <1>1, Actors DEF DInv, Tabled
  <2> QED
    BY <1>1, <2>1, <2>2, <2>3, Actors, EndsDiffer DEF Tabled
<1>3. Lined'
  BY <1>1 DEF DInv, Lined, KnownRedirected
<1>4. Flow'
  <2>1. offset' \in 0 .. Len(file')
    BY DEF DInv, Flow
  <2> QED
    BY <1>1, <2>1 DEF DInv, Flow
<1>5. Filling' /\ Delivered'
  BY <1>1 DEF Filling, Delivered, DescriptorsRestored, PipeDelivers, RedirectionDelivers, AtPrompt
<1> QED
  BY <1>2, <1>3, <1>4, <1>5 DEF DInv

(* ... or in a child. *)
LEMMA ForksDelivers ==
    ASSUME IInv, DInv, NEW q \in Processes \ {"shell"}, NEW c, NEW t \in Tables, NEW s \in Tables,
           NEW next \in {"prompt", "waiting", "waiting2"}, Forks(q, c, t, s, next),
           pc["shell"] \in {"parsed", "waiting", "waiting2"}, UNCHANGED pipe,
           \A k \in Pipes : HasEnd(fds["shell"], k) => HasEnd(s, k),
           q \in Kids => t[0] \in {Terminal, Closed} /\ t[1] \in {Terminal, Closed},
           q = "child" => t[1] # File /\ \A k \in Pipes : t[1] = WriteEnd(k) => HasEnd(s, k),
           Clean(s), Holding', Filling',
           next = "prompt" => line.form = "background",
           next = "waiting" => line.form \in {"pipe", "pipes"}
    PROVE  DInv'
<1>1. /\ pc'["shell"] = next /\ pc'[q] = "running" /\ fds'["shell"] = s /\ fds'[q] = t
      /\ \A p \in Processes \ {"shell", q} : pc'[p] = pc[p] /\ fds'[p] = fds[p]
      /\ fds' \in [Processes -> Tables] /\ UNCHANGED <<line, file, offset, got>>
  BY Actors DEF Forks, IInv, Scheduled, DInv, Tabled
<1>2. Tabled'
  <2>1. \A p \in Processes \ {"shell"} : pc'[p] = "none" => fds'[p] = Ended
    BY <1>1 DEF DInv, Tabled
  <2>2. \A p \in Kids : fds'[p][0] \in {Terminal, Closed} /\ fds'[p][1] \in {Terminal, Closed}
    BY <1>1, Actors DEF DInv, Tabled
  <2>3. fds'["child"][1] # File /\ \A k \in Pipes : fds'["child"][1] = WriteEnd(k) => HasEnd(s, k)
    BY <1>1, Actors DEF DInv, Tabled
  <2> QED
    BY <1>1, <2>1, <2>2, <2>3 DEF Tabled
<1>3. Lined'
  BY <1>1 DEF DInv, Lined, KnownRedirected
<1>4. Flow'
  BY <1>1 DEF DInv, Flow
<1>5. Tidy' /\ Streams' /\ Reading' /\ Redirecting'
  BY <1>1 DEF Tidy, Streams, Reading, Redirecting
<1>6. Delivered'
  BY <1>1 DEF Delivered, DescriptorsRestored, PipeDelivers, RedirectionDelivers, AtPrompt, Clean
<1> QED
  BY <1>2, <1>3, <1>4, <1>5, <1>6 DEF DInv
-----------------------------------------------------------------------------
(* The lines.  No child of a pipe is left when a line has just been typed. *)
LEMMA ParsedAlone ==
    ASSUME IInv, DInv, pc["shell"] = "parsed"
    PROVE  /\ pc["child"] = "none" /\ line \in Line /\ KnownRedirected(line) /\ got = <<>>
           /\ HasRoom(fds["shell"], Needed(line))
           /\ fds["shell"] \in Tables /\ Clean(fds["shell"]) /\ line.cmds[1] \in Command
<1>1. line \in Line
  BY DEF DInv, Lined
<1>2. line.cmds[1] \in Command
  BY <1>1, LineTyped
<1> QED
  BY <1>1, <1>2, Actors DEF IInv, Scheduled, DInv, Lined, Tabled, Tidy

LEMMA PlainDelivers ==
    ASSUME IInv, DInv, Plain
    PROVE  DInv'
<1> DEFINE t == fds["shell"]
           c == line.cmds[1]
<1>1. /\ pc["shell"] = "parsed" /\ line.form = "plain" /\ ShellRuns(c, t)
      /\ UNCHANGED <<held, line, got, pipe, file, offset>>
  BY DEF Plain, Is, output
<1>2. pc["child"] = "none" /\ t \in Tables /\ Clean(t)
  BY <1>1, ParsedAlone
<1>3. pc'["shell"] = "running" /\ fds'["shell"] = t
  BY <1>1, Actors DEF ShellRuns, IInv, Scheduled, DInv, Tabled
<1>4. Holding'
  BY <1>1, <1>3 DEF DInv, Holding
<1>5. Tidy' /\ Streams'
  BY <1>1, <1>2, <1>3 DEF Tidy, Restored, Streams, Clean
<1>6. Reading' /\ Redirecting'
  BY <1>1 DEF Reading, Redirecting
<1> HIDE DEF t, c
<1>7. \A k \in Pipes : HasEnd(fds["shell"], k) => HasEnd(t, k)
  BY DEF t
<1> QED
  BY <1>1, <1>2, <1>4, <1>5, <1>6, <1>7, ShellRunsDelivers

LEMMA RedirectDelivers ==
    ASSUME IInv, DInv, Redirect
    PROVE  DInv'
<1> DEFINE t == fds["shell"]
           u == Redirected(t)
           c == line.cmds[1]
<1>1. /\ pc["shell"] = "parsed" /\ line.form = "redirect" /\ ShellRuns(c, u)
      /\ held' = [held EXCEPT !.file = Lowest(t), !.saved_stdout = Lowest(Given(t, File))]
      /\ offset' = 0 /\ UNCHANGED <<line, got, pipe, file>>
  BY DEF Redirect, Is
<1>2. /\ pc["child"] = "none" /\ t \in Tables /\ Clean(t) /\ c \in Command
      /\ HasRoom(t, 3) /\ c.kind # "unknown"
  BY <1>1, ParsedAlone DEF Needed, KnownRedirected
<1>3. /\ u \in Tables /\ u[0] = Terminal /\ u[1] = File
      /\ Close(Dup2(u, Lowest(Given(t, File)), 1), Lowest(t)) \in Tables
      /\ Clean(Close(Dup2(u, Lowest(Given(t, File)), 1), Lowest(t)))
      /\ \A k \in Pipes : HasEnd(t, k) => HasEnd(u, k)
  BY <1>2, RedirectedRestores
<1>4. Lowest(t) \in Fds /\ Lowest(Given(t, File)) \in Fds
  <2>1. HasRoom(t, 2 + 1) /\ 2 = 1 + 1
    BY <1>2
  <2>2. Given(t, File) \in Tables /\ HasRoom(Given(t, File), 2)
    BY <1>2, <2>1, GivenRoom
  <2> QED
    BY <1>2, <2>1, <2>2, LowestClosed
<1>5. pc'["shell"] = "running" /\ fds'["shell"] = u /\ task'["shell"] = Begun(c)
  BY <1>1, Actors DEF ShellRuns, IInv, Scheduled, DiskKept, DataTyped, DInv, Tabled
<1> HIDE DEF u, c
<1>6. Holding'
  <2>1. held' \in [pipe : Nat, fd : MaybeFd \X MaybeFd, fd2 : MaybeFd \X MaybeFd,
                   saved_stdin : MaybeFd, saved_stdout : MaybeFd, file : MaybeFd]
    BY <1>1, <1>4 DEF DInv, Holding, MaybeFd
  <2> QED
    BY <1>5, <2>1 DEF Holding
<1>7. held'.file = Lowest(t) /\ held'.saved_stdout = Lowest(Given(t, File))
  BY <1>1 DEF DInv, Holding
<1>8. Tidy' /\ Streams'
  <2>1. Restored(fds["shell"])' = Close(Dup2(u, Lowest(Given(t, File)), 1), Lowest(t))
    BY <1>1, <1>2, <1>5, <1>7 DEF Restored, c
  <2> QED
    BY <1>1, <1>3, <1>5, <2>1 DEF Tidy, Streams
<1>9. Redirecting'
  BY <1>1, <1>2, <1>5, Actors, BegunPrints DEF Redirecting, c
<1>10. Reading'
  BY <1>1 DEF Reading
<1>11. \A k \in Pipes : HasEnd(fds["shell"], k) => HasEnd(u, k)
  BY <1>3
<1> QED
  BY <1>1, <1>2, <1>3, <1>6, <1>8, <1>9, <1>10, <1>11, ShellRunsDelivers

LEMMA BackgroundDelivers ==
    ASSUME IInv, DInv, Background
    PROVE  DInv'
<1> DEFINE t == fds["shell"]
<1>1. /\ pc["shell"] = "parsed" /\ line.form = "background" /\ UNCHANGED <<held, pipe>>
      /\ \E q \in Kids \ Children : Forks(q, line.cmds[1], t, t, "prompt")
  BY DEF Background, Is
<1>2. PICK q \in Kids \ Children : Forks(q, line.cmds[1], t, t, "prompt")
  BY <1>1
<1>3. q \in Processes \ {"shell"} /\ q # "child"
  BY Actors
<1>4. t \in Tables /\ Clean(t) /\ t[0] = Terminal /\ t[1] = Terminal
  BY <1>1, ParsedAlone DEF Clean
<1>5. pc'["shell"] = "prompt" /\ line' = line
  BY <1>2, <1>3, Actors DEF Forks, IInv, Scheduled
<1>6. Holding' /\ Filling'
  BY <1>1, <1>5 DEF DInv, Holding, Filling
<1>7. \A k \in Pipes : HasEnd(fds["shell"], k) => HasEnd(t, k)
  OBVIOUS
<1> HIDE DEF t
<1> QED
  BY <1>1, <1>2, <1>3, <1>4, <1>6, <1>7, ForksDelivers

LEMMA PipeBegins ==
    ASSUME IInv, DInv, Pipe
    PROVE  DInv'
<1> DEFINE t == fds["shell"]
           k == NewPipe(t)
           s == PipeMade(t, k)
           fd == Ends(t)
           c == line.cmds[1]
<1>1. /\ pc["shell"] = "parsed" /\ line.form = "pipe" /\ UNCHANGED pipe
      /\ Forks("child", c, Writer(s, fd), s, "waiting")
      /\ held' = [held EXCEPT !.fd = fd, !.pipe = k]
  BY DEF Pipe, Is
<1>2. /\ pc["child"] = "none" /\ t \in Tables /\ Clean(t) /\ c \in Command
      /\ HasRoom(t, 1 + 2) /\ got = <<>>
  BY <1>1, ParsedAlone DEF Needed
<1>3. k \in Pipes /\ ~HasEnd(t, k)
  BY <1>2, NewPipeFree
<1> HIDE DEF k
<1>4. /\ s \in Tables /\ Clean(s) /\ HasRoom(s, 1) /\ EndsAt(s, k, fd)
      /\ \A j \in Pipes : HasEnd(t, j) => HasEnd(s, j)
  BY <1>2, <1>3, PipeMadeAt
<1>5. /\ Writer(s, fd) \in Tables /\ Writer(s, fd)[0] = Terminal
      /\ Writer(s, fd)[1] = WriteEnd(k) /\ fd \in Fds \X Fds
  BY <1>3, <1>4, WriterStreams DEF EndsAt
<1> HIDE DEF t, s, fd, c
<1>6. pipe[k] = <<>>
  BY <1>3 DEF DInv, Flow, t
<1>7. /\ pc'["shell"] = "waiting" /\ line' = line /\ got' = got
      /\ fds'["shell"] = s /\ fds'["child"] = Writer(s, fd) /\ task'["child"] = Begun(c)
  BY <1>1, Actors DEF Forks, IInv, Scheduled, DiskKept, DataTyped, DInv, Tabled
<1>8. Holding' /\ held'.fd = fd /\ held'.pipe = k
  <2>1. /\ held' \in [pipe : Nat, fd : MaybeFd \X MaybeFd, fd2 : MaybeFd \X MaybeFd,
                   saved_stdin : MaybeFd, saved_stdout : MaybeFd, file : MaybeFd]
        /\ held'.fd = fd /\ held'.pipe = k
    BY <1>1, <1>3, <1>5, FdsTyped DEF DInv, Holding, MaybeFd
  <2> QED
    BY <1>1, <1>5, <1>7, <2>1 DEF Holding
<1>9. Filling'
  <2>1. Printed("child", c, 0)'
    BY <1>2, <1>7, Actors, BegunPrints DEF c
  <2>2. pipe'[k] = <<>> /\ Len(pipe'[k]) = 0
    BY <1>1, <1>6
  <2> QED
    BY <1>2, <1>3, <1>4, <1>5, <1>7, <1>8, <2>1, <2>2 DEF Filling, c
<1>10. /\ Writer(s, fd)[1] # File
       /\ \A j \in Pipes : Writer(s, fd)[1] = WriteEnd(j) => HasEnd(s, j)
  BY <1>4, <1>5, EndsDiffer DEF EndsAt, HasEnd
<1>11. \A j \in Pipes : HasEnd(fds["shell"], j) => HasEnd(s, j)
  BY <1>4 DEF t
<1> QED
  BY <1>1, <1>4, <1>5, <1>8, <1>9, <1>10, <1>11, Actors, ForksDelivers

LEMMA ReaderBegins ==
    ASSUME IInv, DInv, PipeReader
    PROVE  DInv'
<1> DEFINE t == fds["shell"]
           k == held.pipe
           u == Reader(t, held.fd)
           c == line.cmds[2]
<1>1. /\ pc["shell"] = "waiting" /\ line.form = "pipe" /\ Waited /\ ShellRuns(c, u)
      /\ held' = [held EXCEPT !.saved_stdin = Lowest(t)]
      /\ UNCHANGED <<line, got, pipe, file, offset>>
  BY DEF PipeReader, output
<1>2. pc["child"] = "none" /\ task["child"] = Idle
  BY <1>1, Actors, WaitedAlone DEF IInv
<1>3. /\ t \in Tables /\ Clean(t) /\ k \in Pipes /\ EndsAt(t, k, held.fd)
      /\ HasRoom(t, 0 + 1) /\ line \in Line /\ c \in Command /\ got = <<>>
      /\ Printed("child", line.cmds[1], Len(pipe[k]))
      /\ \A j \in 1 .. Len(pipe[k]) : pipe[k][j] = j
  BY <1>1, Actors, LineTyped DEF DInv, Tabled, Tidy, Filling, Lined
<1>4. /\ u \in Tables /\ u[0] = ReadEnd(k) /\ u[1] = Terminal
      /\ Dup2(u, Lowest(t), 0) \in Tables /\ Clean(Dup2(u, Lowest(t), 0))
      /\ ~HasEnd(Dup2(u, Lowest(t), 0), k)
      /\ \A j \in Pipes : HasEnd(t, j) => HasEnd(u, j)
  BY <1>3, ReaderRestores
<1>5. Lowest(t) \in Fds
  BY <1>3, LowestClosed
<1> HIDE DEF u, c, k
<1>6. pc'["shell"] = "running" /\ fds'["shell"] = u /\ task'["shell"] = Begun(c)
  BY <1>1, Actors DEF ShellRuns, IInv, Scheduled, DiskKept, DataTyped, DInv, Tabled
<1>7. Holding' /\ held'.pipe = k /\ held'.saved_stdin = Lowest(t)
  <2>1. /\ held' \in [pipe : Nat, fd : MaybeFd \X MaybeFd, fd2 : MaybeFd \X MaybeFd,
                      saved_stdin : MaybeFd, saved_stdout : MaybeFd, file : MaybeFd]
        /\ held'.pipe = k /\ held'.saved_stdin = Lowest(t)
    BY <1>1, <1>5 DEF DInv, Holding, MaybeFd, k
  <2> QED
    BY <1>6, <2>1 DEF Holding
<1>8. Restored(fds["shell"])' = Dup2(u, Lowest(t), 0)
  BY <1>1, <1>6, <1>7 DEF Restored
<1>9. Tidy' /\ Streams'
  BY <1>1, <1>4, <1>6, <1>7, <1>8 DEF Tidy, Streams
<1>10. Reading'
  <2>1. Len(pipe[k]) = line.cmds[1].out /\ Len(pipe[k]) \in Nat
    BY <1>2, <1>3, IdleTyped DEF Printed, DInv, Flow
  <2>2. task'["shell"].step # "done" /\ task'["shell"].kind = c.kind
    BY <1>3, <1>6, Actors, BegunPrints
  <2>3. got' = <<>> /\ Len(got') = 0
    BY <1>1, <1>3
  <2>4. ~HasEnd(Restored(fds["shell"]), k)'
    BY <1>4, <1>7, <1>8 DEF HasEnd, k
  <2>5. Len(got') + Len(pipe'[k]) = line.cmds[1].out
    BY <1>1, <2>1, <2>3
  <2>6. \A j \in 1 .. Len(pipe'[k]) : pipe'[k][j] = Len(got') + j
    BY <1>1, <1>3, <2>1, <2>3
  <2>7. \A j \in 1 .. Len(got') : got'[j] = j
    BY <2>3
  <2> QED
    BY <1>1, <1>3, <1>4, <1>7, <1>8, <2>2, <2>5, <2>6, <2>7 DEF Reading, c
<1>11. Redirecting'
  BY <1>1 DEF Redirecting
<1>12. \A j \in Pipes : HasEnd(fds["shell"], j) => HasEnd(u, j)
  BY <1>4
<1> QED
  BY <1>1, <1>2, <1>4, <1>7, <1>9, <1>10, <1>11, <1>12, ShellRunsDelivers

LEMMA TwoPipesBegin ==
    ASSUME IInv, DInv, TwoPipes
    PROVE  DInv'
<1> DEFINE t == fds["shell"]
           k == NewPipe(t)
           one == PipeMade(t, k)
           k2 == NewPipe(one)
           s == PipeMade(one, k2)
           fd == Ends(t)
           fd2 == Ends(one)
           c == line.cmds[1]
           u == FirstOfThree(s, fd, fd2)
<1>1. /\ pc["shell"] = "parsed" /\ line.form = "pipes" /\ UNCHANGED pipe
      /\ Forks("child", c, u, s, "waiting")
      /\ held' = [held EXCEPT !.fd = fd, !.fd2 = fd2]
  BY DEF TwoPipes, Is
<1>2. t \in Tables /\ Clean(t) /\ HasRoom(t, 4 + 2)
  BY <1>1, ParsedAlone DEF Needed
<1>3. k \in Pipes /\ ~HasEnd(t, k)
  BY <1>2, NewPipeFree
<1> HIDE DEF k
<1>4. /\ one \in Tables /\ Clean(one) /\ HasRoom(one, 4) /\ EndsAt(one, k, fd)
      /\ \A j \in Pipes : HasEnd(t, j) => HasEnd(one, j)
  BY <1>2, <1>3, PipeMadeAt
<1> HIDE DEF one, t
<1>5. k2 \in Pipes /\ ~HasEnd(one, k2)
  BY <1>4, NewPipeFree
<1> HIDE DEF k2
<1>6. /\ s \in Tables /\ Clean(s) /\ EndsAt(s, k2, fd2)
      /\ \A j \in Pipes : HasEnd(one, j) => HasEnd(s, j)
  <2>1. HasRoom(one, 2 + 2)
    BY <1>4
  <2> QED
    BY <1>4, <1>5, <2>1, PipeMadeAt
<1>7. fd \in Fds \X Fds /\ fd2 \in Fds \X Fds
  BY <1>4, <1>6 DEF EndsAt
<1> HIDE DEF s, fd, fd2, c
<1>8. /\ u \in Tables /\ u[1] # File
      /\ \A j \in Pipes : u[1] = WriteEnd(j) => HasEnd(s, j)
  <2>1. Drawn(u, s)
    BY <1>6, <1>7, ThreeDraw
  <2> HIDE DEF u
  <2> QED
    BY <1>6, <2>1, DrawnHasEnds DEF Drawn
<1> HIDE DEF u
<1>9. pc'["shell"] = "waiting" /\ line' = line
  BY <1>1, Actors DEF Forks, IInv, Scheduled
<1>10. Holding'
  <2>1. /\ held' \in [pipe : Nat, fd : MaybeFd \X MaybeFd, fd2 : MaybeFd \X MaybeFd,
                      saved_stdin : MaybeFd, saved_stdout : MaybeFd, file : MaybeFd]
        /\ held'.fd = fd /\ held'.fd2 = fd2
    BY <1>1, <1>7 DEF DInv, Holding, MaybeFd
  <2> QED
    BY <1>7, <2>1 DEF Holding
<1>11. Filling'
  BY <1>1, <1>9 DEF Filling
<1>12. \A j \in Pipes : HasEnd(fds["shell"], j) => HasEnd(s, j)
  BY <1>4, <1>6 DEF t
<1> QED
  BY <1>1, <1>6, <1>8, <1>10, <1>11, <1>12, Actors, ForksDelivers

LEMMA SecondBegins ==
    ASSUME IInv, DInv, SecondChild
    PROVE  DInv'
<1> DEFINE t == fds["shell"]
           c == line.cmds[2]
           u == SecondOfThree(t, held.fd, held.fd2)
<1>1. /\ pc["shell"] = "waiting" /\ line.form = "pipes" /\ UNCHANGED <<held, pipe>>
      /\ Forks("child", c, u, t, "waiting2")
  BY DEF SecondChild
<1>2. /\ t \in Tables /\ Clean(t) /\ held.fd \in Fds \X Fds /\ held.fd2 \in Fds \X Fds
  BY <1>1, Actors DEF DInv, Tabled, Tidy, Holding
<1>3. /\ u \in Tables /\ u[1] # File
      /\ \A j \in Pipes : u[1] = WriteEnd(j) => HasEnd(t, j)
  <2>1. Drawn(u, t)
    BY <1>2, ThreeDraw
  <2> HIDE DEF u, t
  <2> QED
    BY <1>2, <2>1, DrawnHasEnds DEF Drawn
<1>4. pc'["shell"] = "waiting2" /\ line' = line
  BY <1>1, Actors DEF Forks, IInv, Scheduled
<1>5. Holding' /\ Filling'
  BY <1>1, <1>4 DEF DInv, Holding, Filling
<1>6. \A j \in Pipes : HasEnd(fds["shell"], j) => HasEnd(t, j)
  OBVIOUS
<1> HIDE DEF t, c, u
<1> QED
  BY <1>1, <1>2, <1>3, <1>5, <1>6, Actors, ForksDelivers

LEMMA ThirdBegins ==
    ASSUME IInv, DInv, ThirdCommand
    PROVE  DInv'
<1> DEFINE t == fds["shell"]
           c == line.cmds[3]
<1>1. /\ pc["shell"] = "waiting2" /\ Waited /\ ShellRuns(c, t)
      /\ UNCHANGED <<held, line, got, pipe, file, offset>>
  BY DEF ThirdCommand, output
<1>2. pc["child"] = "none" /\ line.form = "pipes" /\ t \in Tables /\ Clean(t)
  BY <1>1, Actors, WaitedAlone DEF IInv, Scheduled, DInv, Tabled, Tidy
<1>3. pc'["shell"] = "running" /\ fds'["shell"] = t
  BY <1>1, Actors DEF ShellRuns, IInv, Scheduled, DInv, Tabled
<1>4. Holding'
  BY <1>1, <1>3 DEF DInv, Holding
<1>5. Tidy' /\ Streams'
  BY <1>1, <1>2, <1>3 DEF Tidy, Restored, Streams, Clean
<1>6. Reading' /\ Redirecting'
  BY <1>1, <1>2 DEF Reading, Redirecting
<1>7. \A j \in Pipes : HasEnd(fds["shell"], j) => HasEnd(t, j)
  OBVIOUS
<1> HIDE DEF t, c
<1> QED
  BY <1>1, <1>2, <1>4, <1>5, <1>6, <1>7, ShellRunsDelivers

(* The prompt comes back. *)
LEMMA ReturnDelivers ==
    ASSUME IInv, DInv, Return
    PROVE  DInv'
<1> DEFINE t == Restored(fds["shell"])
<1>1. /\ pc["shell"] = "running" /\ task["shell"].step = "done"
      /\ pc' = [pc EXCEPT !["shell"] = "prompt"] /\ fds' = [fds EXCEPT !["shell"] = t]
      /\ pipe' = [j \in Pipes |-> IF HasEnd(t, j) THEN pipe[j] ELSE <<>>]
      /\ held' = [NothingHeld EXCEPT !.pipe = held.pipe]
      /\ UNCHANGED <<line, file, offset, got>>
  BY DEF Return, Running
<1>2. t \in Tables /\ Clean(t)
  BY <1>1 DEF DInv, Tidy
<1> HIDE DEF t
<1>3. /\ pc'["shell"] = "prompt" /\ fds'["shell"] = t
      /\ \A q \in Processes \ {"shell"} : pc'[q] = pc[q] /\ fds'[q] = fds[q]
      /\ fds' \in [Processes -> Tables] /\ pc["child"] = "none"
  BY <1>1, <1>2, Actors DEF IInv, Scheduled, DInv, Tabled
<1>4. Tabled'
  <2>1. fds["child"] = Ended /\ Ended[1] = Closed
    BY <1>3, Actors, FdsTyped DEF DInv, Tabled, Ended
  <2>2. \A q \in Processes \ {"shell"} : pc'[q] = "none" => fds'[q] = Ended
    BY <1>3 DEF DInv, Tabled
  <2>3. \A q \in Kids : fds'[q][0] \in {Terminal, Closed} /\ fds'[q][1] \in {Terminal, Closed}
    BY <1>3, Actors DEF DInv, Tabled
  <2> QED
    BY <1>3, <2>1, <2>2, <2>3, Actors, EndsDiffer DEF Tabled
<1>5. Holding' /\ held'.pipe = held.pipe
  <2>1. held.pipe \in Nat /\ held'.pipe = held.pipe
    BY <1>1 DEF DInv, Holding, NothingHeld
  <2>2. held' \in [pipe : Nat, fd : MaybeFd \X MaybeFd, fd2 : MaybeFd \X MaybeFd,
                      saved_stdin : MaybeFd, saved_stdout : MaybeFd, file : MaybeFd]
    BY <1>1, <2>1 DEF NothingHeld, MaybeFd
  <2> QED
    BY <1>3, <2>1, <2>2 DEF Holding
<1>6. Flow'
  <2>1. /\ pipe \in [Pipes -> Seq(Nat)] /\ PipeCapacity \in Nat
        /\ \A j \in Pipes : Len(pipe[j]) <= PipeCapacity
    BY ProcessesAssumption DEF DInv, Flow
  <2>2. pipe' \in [Pipes -> Seq(Nat)]
    BY <1>1, <2>1
  <2>3. \A j \in Pipes : Len(pipe'[j]) <= PipeCapacity
    BY <1>1, <2>1
  <2>4. \A j \in Pipes : pipe'[j] # <<>> => HasEnd(t, j)
    BY <1>1
  <2>5. /\ file' \in Seq(Nat) /\ got' \in Seq(Nat) /\ offset' \in 0 .. Len(file')
    BY <1>1 DEF DInv, Flow
  <2> QED
    BY <1>3, <2>2, <2>3, <2>4, <2>5 DEF Flow
<1>7. Lined' /\ Tidy' /\ Streams' /\ Filling' /\ Reading' /\ Redirecting'
  BY <1>2, <1>3 DEF Lined, Tidy, Streams, Filling, Reading, Redirecting
<1>8. DescriptorsRestored'
  <2>1. line.form = "pipe" => ~HasEnd(t, held.pipe)
    BY <1>1 DEF DInv, Reading, t
  <2>2. \A n \in 0 .. 2 : t[n] = Terminal
    <3>1. \A n \in 0 .. 2 : n = 0 \/ n = 1 \/ n = 2
      OBVIOUS
    <3> QED
      BY <1>2, <3>1 DEF Clean
  <2>3. \A n \in Fds : t[n] # File
    BY <1>2 DEF Clean
  <2>4. line.form = "pipe" => ~HasEnd(fds["shell"], held.pipe)'
    BY <1>3, <1>5, <2>1 DEF HasEnd
  <2> QED
    BY <1>1, <1>3, <2>2, <2>3, <2>4 DEF DescriptorsRestored
<1>9. PipeDelivers'
  <2> SUFFICES ASSUME line.form = "pipe", line.cmds[2].kind = "filter"
               PROVE  got = [j \in 1 .. line.cmds[1].out |-> j]
    BY <1>1 DEF PipeDelivers
  <2> DEFINE n == line.cmds[1].out
  <2>1. /\ Len(got) + Len(pipe[held.pipe]) = n
        /\ \A j \in 1 .. Len(got) : got[j] = j
        /\ pipe[held.pipe] = <<>> /\ got \in Seq(Nat)
    BY <1>1 DEF DInv, Reading, Flow
  <2>2. Len(pipe[held.pipe]) = 0 /\ Len(got) \in Nat
    BY <2>1
  <2> HIDE DEF n
  <2>3. Len(got) = n
    BY <2>1, <2>2
  <2>4. got = [j \in 1 .. Len(got) |-> got[j]]
    BY <2>1
  <2> QED
    BY <2>1, <2>3, <2>4 DEF n
<1>10. RedirectionDelivers'
  BY <1>1 DEF DInv, Redirecting, Printed, RedirectionDelivers
<1> QED
  BY <1>4, <1>5, <1>6, <1>7, <1>8, <1>9, <1>10 DEF DInv, Delivered

(* A child exits; the shell keeps what it has. *)
LEMMA ExitDelivers ==
    ASSUME IInv, DInv, NEW q \in Processes \ {"shell"}, Exit(q)
    PROVE  DInv'
<1>1. /\ pc' = [pc EXCEPT ![q] = "none"] /\ fds' = [fds EXCEPT ![q] = Ended]
      /\ UNCHANGED <<task, held, line, got, pipe, file, offset>>
  BY DEF Exit, output
<1>2. /\ pc'["shell"] = pc["shell"] /\ fds'["shell"] = fds["shell"]
      /\ \A p \in Processes : pc'[p] = (IF p = q THEN "none" ELSE pc[p])
      /\ \A p \in Processes : fds'[p] = (IF p = q THEN Ended ELSE fds[p])
  BY <1>1, Actors DEF IInv, Scheduled, DInv, Tabled
<1>3. Tabled'
  <2>1. Ended \in Tables /\ Ended[0] = Closed /\ Ended[1] = Closed
    BY FdsTyped DEF Ended, Tables
  <2>2. fds' \in [Processes -> Tables]
    BY <1>1, <2>1 DEF DInv, Tabled
  <2>3. \A p \in Processes \ {"shell"} : pc'[p] = "none" => fds'[p] = Ended
    BY <1>2 DEF DInv, Tabled
  <2>4. \A p \in Kids : fds'[p][0] \in {Terminal, Closed} /\ fds'[p][1] \in {Terminal, Closed}
    BY <1>2, <2>1, Actors DEF DInv, Tabled
  <2>5. fds'["child"] \in {Ended, fds["child"]}
    BY <1>2, Actors
  <2> QED
    BY <1>2, <2>1, <2>2, <2>3, <2>4, <2>5, EndsDiffer DEF DInv, Tabled
<1>4. Lined' /\ Holding'
  BY <1>1, <1>2 DEF DInv, Lined, Holding, KnownRedirected
<1>5. Tidy' /\ Streams'
  BY <1>1, <1>2 DEF DInv, Tidy, Streams, Restored
<1>6. Flow'
  BY <1>1, <1>2 DEF DInv, Flow
<1>7. Filling'
  BY <1>1, <1>2, Actors DEF DInv, Filling, Printed
<1>8. Reading' /\ Redirecting'
  BY <1>1, <1>2 DEF DInv, Reading, Redirecting, Restored, Printed
<1>9. Delivered'
  BY <1>1, <1>2
     DEF DInv, Delivered, DescriptorsRestored, PipeDelivers, RedirectionDelivers, AtPrompt
<1> QED
  BY <1>3, <1>4, <1>5, <1>6, <1>7, <1>8, <1>9 DEF DInv
-----------------------------------------------------------------------------
LEMMA DInvInit == Init => DInv
<1> SUFFICES ASSUME Init PROVE DInv
  OBVIOUS
<1>1. /\ pc = [p \in Processes |-> IF p = "shell" THEN "prompt" ELSE "none"]
      /\ fds = [p \in Processes |->
                  [n \in Fds |-> IF p = "shell" /\ n <= 2 THEN Terminal ELSE Closed]]
      /\ held = NothingHeld /\ line = NoLine /\ pipe = [k \in Pipes |-> <<>>]
      /\ file = <<>> /\ offset = 0 /\ got = <<>>
  BY DEF Init
<1>2. /\ pc["shell"] = "prompt" /\ pc["child"] = "none"
      /\ \A n \in Fds : fds["shell"][n] = (IF n <= 2 THEN Terminal ELSE Closed)
      /\ \A q \in Processes \ {"shell"} : fds[q] = Ended
  BY <1>1, Actors DEF Ended
<1>3. /\ fds["shell"][0] = Terminal /\ fds["shell"][1] = Terminal /\ fds["shell"][2] = Terminal
      /\ \A n \in Fds : fds["shell"][n] \in {Terminal, Closed}
  <2>1. 0 \in Fds /\ 1 \in Fds /\ 2 \in Fds
    BY FdsTyped
  <2>2. fds["shell"][0] = Terminal
    BY <1>2, <2>1
  <2>3. fds["shell"][1] = Terminal
    BY <1>2, <2>1
  <2>4. fds["shell"][2] = Terminal
    BY <1>2, <2>1
  <2> QED
    BY <1>2, <2>2, <2>3, <2>4
<1>4. Tabled
  <2>1. fds \in [Processes -> Tables]
    BY <1>1 DEF Tables
  <2>2. Ended[0] = Closed /\ Ended[1] = Closed
    BY FdsTyped DEF Ended
  <2> QED
    BY <1>2, <2>1, <2>2, Actors, EndsDiffer DEF Tabled
<1>5. Clean(fds["shell"])
  BY <1>3, EndsDiffer DEF Clean, HasEnd
<1>6. Lined /\ Tidy /\ Streams /\ Filling /\ Reading /\ Redirecting
  BY <1>2, <1>5 DEF Lined, Tidy, Streams, Filling, Reading, Redirecting
<1>7. Holding
  BY <1>1, <1>2 DEF Holding, NothingHeld, MaybeFd
<1>8. Flow
  BY <1>1, ProcessesAssumption DEF Flow
<1>9. Delivered
  <2>1. \A n \in 0 .. 2 : n = 0 \/ n = 1 \/ n = 2
    OBVIOUS
  <2>2. DescriptorsRestored
    BY <1>1, <1>3, <2>1, EndsDiffer DEF DescriptorsRestored, NoLine
  <2> QED
    BY <1>1, <2>2 DEF Delivered, PipeDelivers, RedirectionDelivers, NoLine
<1> QED
  BY <1>4, <1>6, <1>7, <1>8, <1>9 DEF DInv

LEMMA DInvStep == IInv /\ DInv /\ [CarefulNext]_vars => DInv'
<1> SUFFICES ASSUME IInv, DInv, [CarefulNext]_vars PROVE DInv'
  OBVIOUS
<1>1. CASE \E l \in Line : Careful(l) /\ Typed(l)
  BY <1>1, TypedDelivers
<1>2. CASE ShellStep
  BY <1>2, Actors, PlainDelivers, RedirectDelivers, BackgroundDelivers, PipeBegins, ReaderBegins,
     TwoPipesBegin, SecondBegins, ThirdBegins, ReturnDelivers, CommandDelivers DEF ShellStep
<1>3. CASE \E q \in Processes \ {"shell"} : ChildStep(q)
  BY <1>3, CommandDelivers, ExitDelivers DEF ChildStep
<1>4. CASE UNCHANGED vars
  <2>1. UNCHANGED <<pc, task, fds, held, line, got, pipe, file, offset>>
    BY <1>4 DEF vars
  <2>2. Flow' /\ Filling'
    BY <2>1 DEF DInv, Flow, Filling, Printed
  <2>3. Reading' /\ Redirecting'
    BY <2>1 DEF DInv, Reading, Redirecting, Printed, Restored
  <2>4. PipeDelivers' /\ RedirectionDelivers'
    BY <2>1 DEF DInv, Delivered, PipeDelivers, RedirectionDelivers, AtPrompt
  <2> QED
    BY <2>1, <2>2, <2>3, <2>4, StandingStill DEF DInv, Delivered
<1> QED
  BY <1>1, <1>2, <1>3, <1>4 DEF CarefulNext

LEMMA DInvAlways == CarefulSpec => [](IInv /\ DInv)
<1>1. Init => IInv /\ DInv
  BY InvInit, DInvInit
<1>2. IInv /\ DInv /\ [CarefulNext]_vars => IInv' /\ DInv'
  BY InvStep, DInvStep
<1> QED
  BY <1>1, <1>2, PTL DEF CarefulSpec
-----------------------------------------------------------------------------
(* No command prints more than it may, or looks for a bit further than one *)
(* behind the last.                                                        *)
Bounded == \A p \in Processes : task[p].left <= MaxOut /\ task[p].bit <= NBits + 1

LEMMA StartsBounded ==
    ASSUME IInv, Bounded, NEW p \in Processes, NEW c \in Command,
           task' = [task EXCEPT ![p] = Begun(c)]
    PROVE  Bounded'
<1>1. c.out <= MaxOut /\ 1 <= NBits + 1
  BY ProcessesAssumption DEF Command
<1>2. Begun(c).left = c.out /\ Begun(c).bit = 1
  BY DEF Begun
<1>3. \A q \in Processes : task'[q] = (IF q = p THEN Begun(c) ELSE task[q])
  BY DEF IInv, DiskKept, DataTyped
<1> QED
  BY <1>1, <1>2, <1>3 DEF Bounded

LEMMA CommandBounded ==
    ASSUME IInv, Bounded, NEW p \in Processes, CommandStep(p)
    PROVE  Bounded'
<1>1. /\ task \in [Processes -> Task] /\ task[p] \in Task /\ NBits \in Nat /\ MaxOut \in Nat
      /\ task[p].left \in Nat /\ task[p].bit \in Nat
      /\ task[p].left <= MaxOut /\ task[p].bit <= NBits + 1
  BY ProcessesAssumption DEF IInv, DiskKept, DataTyped, Bounded, Task
<1>2. \A q \in Processes \ {p} : task'[q] = task[q]
  BY <1>1 DEF CommandStep, Say, Pass, Finish, GetBit, ReadVector, WriteVector, GetInode, PutInode
<1>3. task'[p].left <= MaxOut /\ task'[p].bit <= NBits + 1
  <2>1. CASE Say(p)
    <3>1. task'[p].left = task[p].left - 1 /\ task'[p].bit = task[p].bit
      BY <1>1, <2>1 DEF Say, Task
    <3> QED
      BY <1>1, <3>1
  <2>2. CASE GetBit(p)
    <3>1. task'[p].left = task[p].left
      BY <1>1, <2>2 DEF GetBit, Task
    <3>2. \/ task'[p].bit = task[p].bit
          \/ task'[p].bit = task[p].bit + 1 /\ task[p].bit \in 1 .. NBits
      BY <1>1, <2>2 DEF GetBit, InVector, Bits, Task
    <3> QED
      BY <1>1, <3>1, <3>2
  <2>3. CASE Finish(p)
    <3>1. task'[p].left = 0 /\ task'[p].bit = 0
      BY <1>1, <2>3 DEF Finish, Idle
    <3> QED
      BY <1>1, <3>1
  <2>4. CASE Pass(p) \/ ReadVector(p) \/ WriteVector(p) \/ GetInode(p) \/ PutInode(p)
    <3>1. task'[p].left = task[p].left /\ task'[p].bit = task[p].bit
      BY <1>1, <2>4 DEF Pass, ReadVector, WriteVector, GetInode, PutInode, Task
    <3> QED
      BY <1>1, <3>1
  <2> QED
    BY <2>1, <2>2, <2>3, <2>4 DEF CommandStep
<1> QED
  BY <1>2, <1>3 DEF Bounded

LEMMA BoundedStep == IInv /\ Bounded /\ [CarefulNext]_vars => Bounded'
<1> SUFFICES ASSUME IInv, Bounded, [CarefulNext]_vars PROVE Bounded'
  OBVIOUS
<1>1. ASSUME UNCHANGED task PROVE Bounded'
  BY <1>1 DEF Bounded
<1>2. ASSUME pc["shell"] \in {"parsed", "waiting", "waiting2"}
      PROVE  /\ line.cmds[1] \in Command
             /\ line.form = "pipe" => line.cmds[2] \in Command
             /\ line.form = "pipes" => line.cmds[2] \in Command /\ line.cmds[3] \in Command
  BY <1>2, LineCommands DEF IInv, Scheduled
<1>3. ASSUME Plain \/ Redirect \/ Background \/ Pipe \/ TwoPipes PROVE Bounded'
  <2>1. \E p \in Processes : task' = [task EXCEPT ![p] = Begun(line.cmds[1])]
    BY <1>3, Actors DEF Plain, Redirect, Background, Pipe, TwoPipes, ShellRuns, Forks
  <2>2. line.cmds[1] \in Command
    BY <1>2, <1>3 DEF Plain, Redirect, Background, Pipe, TwoPipes, Is
  <2> QED
    BY <2>1, <2>2, StartsBounded
<1>4. ASSUME PipeReader \/ SecondChild PROVE Bounded'
  <2>1. \E p \in Processes : task' = [task EXCEPT ![p] = Begun(line.cmds[2])]
    BY <1>4, Actors DEF PipeReader, SecondChild, ShellRuns, Forks
  <2>2. line.cmds[2] \in Command
    BY <1>2, <1>4 DEF PipeReader, SecondChild
  <2> QED
    BY <2>1, <2>2, StartsBounded
<1>5. ASSUME ThirdCommand PROVE Bounded'
  <2>1. task' = [task EXCEPT !["shell"] = Begun(line.cmds[3])]
    BY <1>5 DEF ThirdCommand, ShellRuns
  <2>2. line.cmds[3] \in Command
    BY <1>2, <1>5 DEF ThirdCommand, IInv, Scheduled
  <2> QED
    BY <2>1, <2>2, Actors, StartsBounded
<1>6. ASSUME (\E l \in Line : Typed(l)) \/ Return \/ (\E q \in Processes : Exit(q)) PROVE Bounded'
  BY <1>1, <1>6 DEF Typed, Return, Exit
<1>7. CASE UNCHANGED vars
  BY <1>1, <1>7 DEF vars
<1> QED
  BY <1>3, <1>4, <1>5, <1>6, <1>7, Actors, CommandBounded DEF CarefulNext, ShellStep, ChildStep

LEMMA TypesKept == IInv /\ DInv /\ Bounded => TypeOK
<1> SUFFICES ASSUME IInv, DInv, Bounded PROVE TypeOK
  OBVIOUS
<1>1. ASSUME NEW p \in Processes
      PROVE  /\ task[p].kind \in Kinds \cup {"none"} /\ task[p].left \in 0 .. MaxOut
             /\ task[p].buf \subseteq Bits /\ task[p].bit \in 0 .. NBits + 1
  <2>1. task[p] \in Task
    BY DEF IInv, DiskKept, DataTyped
  <2>2. task[p].left \in Nat /\ task[p].bit \in Nat
    BY <2>1 DEF Task
  <2>3. task[p].left <= MaxOut /\ task[p].bit <= NBits + 1
    BY DEF Bounded
  <2>4. task[p].left \in 0 .. MaxOut /\ task[p].bit \in 0 .. NBits + 1
    BY <2>2, <2>3, ProcessesAssumption
  <2> QED
    BY <2>1, <2>4 DEF Task
<1>2. ASSUME NEW p \in Processes
      PROVE  /\ DOMAIN fds[p] = Fds
             /\ Range(fds[p]) \subseteq {Closed, Terminal, File}
                     \cup {ReadEnd(k) : k \in Pipes} \cup {WriteEnd(k) : k \in Pipes}
  <2>1. fds[p] \in Tables
    BY DEF DInv, Tabled
  <2> QED
    BY <2>1, Zenon DEF Tables, EndsOfPipes, Range
<1>3. /\ \A k \in Pipes : Len(pipe[k]) <= PipeCapacity
      /\ offset \in 0 .. Len(file)
  BY DEF DInv, Flow
<1> QED
  BY <1>1, <1>2, <1>3 DEF TypeOK, IInv, Scheduled, DiskKept, DataTyped
-----------------------------------------------------------------------------
(* Descriptors, pipes and commands stay well typed: no command looks       *)
(* further than behind the last bit, no pipe takes more than it holds, and *)
(* the redirected output is written inside its file.                       *)
THEOREM ProcessesTyped == CarefulSpec => []TypeOK
<1>1. Init => Bounded
  BY ProcessesAssumption DEF Init, Bounded, Idle
<1> QED
  BY <1>1, BoundedStep, TypesKept, DInvAlways, PTL DEF CarefulSpec

(* However many descriptors earlier lines have used up, the shell comes    *)
(* back to its prompt reading from the terminal and writing to it, without *)
(* the redirection file, and after a pipe without an end of it.            *)
THEOREM PromptHasTerminal == CarefulSpec => []DescriptorsRestored
<1>1. DInv => DescriptorsRestored
  BY DEF DInv, Delivered
<1> QED
  BY <1>1, DInvAlways, PTL

(* A filter behind a pipe gets all the first command prints, in order, and *)
(* nothing that children of other lines print.                             *)
THEOREM PipesDeliver == CarefulSpec => []PipeDelivers
<1>1. DInv => PipeDelivers
  BY DEF DInv, Delivered
<1> QED
  BY <1>1, DInvAlways, PTL

(* The file has all that the redirected command printed, from its first    *)
(* line on, whatever the file had before and whoever prints meanwhile.     *)
THEOREM RedirectionsDeliver == CarefulSpec => []RedirectionDelivers
<1>1. DInv => RedirectionDelivers
  BY DEF DInv, Delivered
<1> QED
  BY <1>1, DInvAlways, PTL
=============================================================================
