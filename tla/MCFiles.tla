------------------------------ MODULE MCFiles ------------------------------
(***************************************************************************)
(* The bytes of a directory and of ordinary files, for TLC.  They share no *)
(* variable, so a behaviour takes the steps of one of the two only; which  *)
(* is chosen at its beginning.                                             *)
(***************************************************************************)
EXTENDS DirectoryFile, FileCopy

VARIABLE part

\* One name is the end of another.
MCDot == <<46>>
MCDotDot == <<46, 46>>
MCNames == {<<1>>, <<2, 1>>}

\* Files that end within a block and at its end, and a stream.
MCHostFiles == {<<1>>, <<2, 3, 4>>, <<5, 6, 7, 8, 9, 10>>}
MCHostStreams == {<<11, 12, 13, 14>>}

FilesInit == Init /\ CopyInit /\ part \in {"directory", "copies"}
FilesNext ==
    /\ \/ part = "directory" /\ Next /\ UNCHANGED copyVars
       \/ part = "copies" /\ CopyNext /\ UNCHANGED vars
    /\ UNCHANGED part

FilesSpec == FilesInit /\ [][FilesNext]_<<vars, copyVars, part>>
=============================================================================
