------------------------------ MODULE MCShell ------------------------------
(* A shell for TLC, on names that are interchangeable within each kind. *)
EXTENDS CarefulShell
Symmetry == Permutations(Plain) \cup Permutations(Dotted)
=============================================================================
