------------------------------ MODULE PageMap ------------------------------
(***************************************************************************)
(* What the virtual memory manager promises: a partial function from       *)
(* virtual pages to frames. A mapping call writes only the pages it        *)
(* addresses and never one that is already mapped; an unmapping call       *)
(* clears only the pages it addresses; a demand fault gives an unmapped    *)
(* page a frame that no other page has. Module Vmm, the translation of     *)
(* vmm.c's page table walks, is shown to implement it for as long as the   *)
(* walks stay inside page tables (broken is FALSE).                        *)
(***************************************************************************)
EXTENDS Integers

CONSTANTS
  VPages,       (* Virtual page numbers.                                   *)
  Fan,          (* Entries per table, so pages per huge page.              *)
  None          (* Not mapped.                                             *)

VARIABLES
  map,          (* Page -> None, or its frame and whether it is writeable. *)
  op,           (* The call in progress.                                   *)
  ret,          (* Result of the last call.                                *)
  broken        (* A walk left the page tables: nothing is promised.       *)

vars == <<map, op, ret, broken>>

(* Pages of the huge page that holds v.                                    *)
Block(v) == {x \in VPages : x \div Fan = v \div Fan}

Init == map = [v \in VPages |-> None] /\ broken = FALSE

(* Starts and ends of calls, failures and reads change no mapping.         *)
Quiet == op.kind \notin {"map", "unmap"} /\ UNCHANGED map

(* A mapping call stops at a page that is mapped.                          *)
MapExists ==
  /\ op.kind = "map" /\ op'.kind = "none" /\ ret' = "EEXIST"
  /\ op.huge \/ map[op.v] # None
  /\ UNCHANGED map

MapPage ==
  /\ op.kind = "map" /\ ~op.huge
  /\ map[op.v] = None
  /\ map' = [map EXCEPT ![op.v] = [frame |-> op.p, w |-> op.w]]

MapHuge ==
  /\ op.kind = "map" /\ op.huge
  /\ \A x \in Block(op.v) : map[x] = None
  /\ map' = [x \in VPages |->
              IF x \in Block(op.v)
                THEN [frame |-> op.p - (op.p % Fan) + (x % Fan), w |-> op.w]
                ELSE map[x]]

UnmapPage ==
  /\ op.kind = "unmap"
  /\ \/ map' = [map EXCEPT ![op.v] = None]
     \/ map' = [x \in VPages |-> IF x \in Block(op.v) THEN None ELSE map[x]]

DemandPage(v, f) ==
  /\ op.kind \in {"none", "pin"}
  /\ map[v] = None
  /\ \A x \in VPages : map[x] # None => map[x].frame # f
  /\ map' = [map EXCEPT ![v] = [frame |-> f, w |-> TRUE]]

Next ==
  \/ broken'
  \/ /\ ~broken'
     /\ \/ Quiet
        \/ MapExists
        \/ MapPage
        \/ MapHuge
        \/ UnmapPage
        \/ \E v \in VPages : DemandPage(v, map'[v].frame)

Spec == Init /\ [][Next]_vars
=============================================================================
