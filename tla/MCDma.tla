------------------------------- MODULE MCDma -------------------------------
(* Instances of the DMA and MMIO wrappers.                                 *)
EXTENDS Dma

(* An aligned area of a page and one that starts inside a page and ends in *)
(* the next.                                                               *)
MCDevices == {[phys |-> 20, size |-> 2], [phys |-> 25, size |-> 2]}
=============================================================================
