----------------------------- MODULE MCKmalloc -----------------------------
(* Instances of the kernel heap.                                           *)
EXTENDS Kmalloc
=============================================================================
