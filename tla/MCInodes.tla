------------------------------ MODULE MCInodes ------------------------------
(* Small volumes for TLC.  What the values stand for is said in README.md. *)
EXTENDS Inodes
=============================================================================
