----------------------------- MODULE MCAvlTree -----------------------------
(* Small instances of AvlTree for TLC.                                     *)
EXTENDS AvlTree
=============================================================================
