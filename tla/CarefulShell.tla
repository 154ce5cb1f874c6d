---------------------------- MODULE CarefulShell ----------------------------
(***************************************************************************)
(* The shell used with care.  The directory code checks little: which      *)
(* conditions must the one who types the commands keep for the name space  *)
(* to stay a tree whose link counts are right and for the shell to survive?*)
(* CarefulSpec lets a command through only under the condition named after *)
(* it, and the invariants below hold of it; each condition is there        *)
(* because without it one of them fails.                                   *)
(***************************************************************************)
EXTENDS Shell

Here(n) == INumberOf(tab, wd, FALSE, n)
TypeOf(n) == tab[Here(n)].type

\* rm -fr has left wd's cursor at the end: only commands that look twice are safe.
CursorClosed == ~atEnd

\* A file whose name is to be taken over must not be a directory, which
\* would lose its contents, nor have other names, which would keep its number.
Replaceable(d, n) ==
    LET in == INumberOf(tab, d, FALSE, n)
    IN  in = 0 \/ (tab[in].type # iTypeDirectory /\ tab[in].count = 0)

CarefulRm(n) == CursorClosed /\ (n \in Dotted => TypeOf(n) # iTypeDirectory)

\* Every directory on the way down holds one entry at most.
CarefulRmRecursion(n) ==
    LET top == DirectoryPointer(tab, wd, n)
        entered == {Descent(tab, top)[j] : j \in 0 .. NInodes} \ {0}
    IN  Here(n) # 0 =>
          /\ TypeOf(n) = iTypeDirectory
          /\ \A x \in entered :
               /\ Len(tab[x].entries) <= 3
               /\ \A k \in 3 .. Len(tab[x].entries) : tab[tab[x].entries[k].in].count = 0

CarefulLsRecursion(n) == TypeOf(n) = iTypeDirectory

CarefulChDir(n) ==
    LET name == IF TypeOf(n) = iTypeSoftLink THEN tab[Here(n)].path ELSE n
    IN  CursorClosed /\ (Here(name) # 0 => TypeOf(name) = iTypeDirectory)

CarefulCopy33(s, d) ==
    /\ CursorClosed
    /\ IF TypeOf(s) = iTypeSoftLink THEN Here(d) = 0
       ELSE INumberOf(tab, Root, FALSE, s) # 0 => Replaceable(Root, d)

\* No directory is moved, because its ".." stays; no name is taken over in wd.
CarefulMv(s, d) ==
    Here(s) # 0 =>
      /\ TypeOf(s) # iTypeDirectory
      /\ (TypeOf(s) = iTypeSoftLink \/ {s, d} \subseteq Dotted) => (d = s \/ Here(d) = 0)
      /\ (TypeOf(s) # iTypeSoftLink /\ d \in Plain) =>
           /\ TypeOf(d) = iTypeDirectory
           /\ Replaceable(Here(d), s)

CarefulLn(o, n) == CursorClosed /\ TypeOf(o) \in {0, iTypeOrdinary}

CarefulLnPath(d, f) ==
    /\ CursorClosed /\ Here(f) = 0
    /\ tab[INumberOf(tab, Here(d), FALSE, f)].type = iTypeOrdinary

\* Before mkfs, only the commands that say they need it.
CarefulInvoke(c) == globalsNeeded[c] = "v"

CarefulNext ==
    \/ DoMakeFV
    \/ \E c \in DOMAIN globalsNeeded : CarefulInvoke(c) /\ InvokeCmd(c)
    \/ Running /\
       \/ \E n \in Names :
            \/ CarefulRm(n) /\ DoRm(n)
            \/ CarefulRmRecursion(n) /\ DoRmRecursion(n)
            \/ CarefulLsRecursion(n) /\ DoLsRecursion(n)
       \/ DoInodeFile
       \/ DoPwd
       \/ \E n \in Names \cup {".."} : CarefulChDir(n) /\ DoChDir(n)
       \/ Room /\ \E n \in Names :
            DoMkDir(n) \/ (Replaceable(Root, n) /\ DoCopyTo(n))
       \/ Room /\ \E s, d \in Names :
            \/ CarefulCopy33(s, d) /\ DoCopy33(s, d)
            \/ CarefulMv(s, d) /\ DoMv(s, d)
            \/ CarefulLn(s, d) /\ DoLn(s, d)
            \/ CursorClosed /\ DoLnS(s, d)
       \/ Room /\ \E d \in Plain, f \in Dotted : CarefulLnPath(d, f) /\ DoLnPath(d, f)

CarefulSpec == Init /\ [][CarefulNext]_vars
-----------------------------------------------------------------------------
(* No name occurs twice in a directory. *)
UniqueNames ==
    \A d \in LiveDirectories :
      \A j, k \in DOMAIN tab[d].entries : tab[d].entries[j].name = tab[d].entries[k].name => j = k

(* The link count of a file or soft link is one less than the number of    *)
(* its names, a directory has one name, and no directory names an i-node   *)
(* that is free: nothing is lost and nothing dangles.                      *)
LinkCounts ==
    /\ \A i \in InodeNumbers \ {0, Root} : Live(i) =>
         Cardinality(Links(i)) = (IF tab[i].type = iTypeDirectory THEN 1 ELSE tab[i].count + 1)
    /\ \A d \in LiveDirectories : \A k \in DOMAIN tab[d].entries : Live(tab[d].entries[k].in)

(* The directories are a tree: each begins with "." and with ".." for the  *)
(* directory that names it, the working directory is one of them, and pwd  *)
(* climbs from every one of them to the root.                              *)
DirectoryTree ==
    /\ wd \in LiveDirectories \cup {NoVolume}
    /\ \A d \in LiveDirectories :
         /\ PwdReturns(tab, d)
         /\ \E parent \in LiveDirectories :
              /\ SubSeq(tab[d].entries, 1, 2) = Dots(d, parent)
              /\ d = Root \/ \E l \in Links(d) : l[1] = parent

(* The shell follows no NULL pointer and recurses to an end. *)
NoCrash == ~crashed
=============================================================================
