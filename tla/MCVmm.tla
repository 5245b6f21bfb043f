------------------------------- MODULE MCVmm -------------------------------
(* Small instances of Vmm for TLC: two entries per table, so that four     *)
(* adjacent pages span two PTs.                                            *)
EXTENDS Vmm
=============================================================================
