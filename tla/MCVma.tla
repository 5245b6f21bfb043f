------------------------------- MODULE MCVma -------------------------------
(* Small instances of Vma for TLC.                                         *)
EXTENDS Vma
=============================================================================
