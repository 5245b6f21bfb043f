------------------------------- MODULE MCPmm -------------------------------
(* Small instances of Pmm for TLC.                                         *)
EXTENDS Pmm
=============================================================================
