-------------------------- MODULE DirectoryEntries --------------------------
(***************************************************************************)
(* What the methods of Directory that read and write its file promise: a   *)
(* directory is the sequence of its entries, looked through from the head; *)
(* an object whose last call was deleteFile() has its cursor at the end,   *)
(* and its next lookup finds nothing.  Module Directory is written on this *)
(* view; DirectoryFile shows that the code implements it.                  *)
(***************************************************************************)
EXTENDS Naturals, Sequences, SequencesExt

CONSTANTS Objects,     \* the Directory objects on one directory
          Names, Numbers,
          Dots         \* the entries "." and "..", with which it begins

VARIABLES entries,
          atEnd,       \* the objects whose cursor is at the end
          answer       \* what the last method returned

Named(n) == SelectInSeq(entries, LAMBDA e : e.name = n)
Found(o, n) == o \notin atEnd /\ Named(n) # 0
Number(n) == entries[Named(n)].in

Init == entries = Dots /\ atEnd = {} /\ answer = 0

INumberOf(o, n) ==
    /\ answer' = IF Found(o, n) THEN Number(n) ELSE 0
    /\ atEnd' = atEnd \ {o}
    /\ UNCHANGED entries

AddLeafName(o, n, i) ==
    /\ entries' = IF Found(o, n) THEN entries ELSE Append(entries, [name |-> n, in |-> i])
    /\ atEnd' = atEnd \ {o}
    /\ UNCHANGED answer

DeleteFile(o, n) ==
    /\ entries' = IF Found(o, n) THEN RemoveAt(entries, Named(n)) ELSE entries
    /\ answer' = IF Found(o, n) THEN Number(n) ELSE 0
    /\ atEnd' = atEnd \cup {o}

NamesEnd(o) == o \in atEnd /\ atEnd' = atEnd \ {o} /\ UNCHANGED <<entries, answer>>

Next ==
    \E o \in Objects :
       \/ NamesEnd(o)
       \/ \E n \in Names :
            INumberOf(o, n) \/ DeleteFile(o, n) \/ \E i \in Numbers : AddLeafName(o, n, i)

Spec == Init /\ [][Next]_<<entries, atEnd, answer>>
=============================================================================
