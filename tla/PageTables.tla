----------------------------- MODULE PageTables -----------------------------
(***************************************************************************)
(* The page tables of the virtual memory manager (memory/vmm.c) as a value *)
(* and the functions on it: four levels of tables held in frames, walked   *)
(* and extended on demand, an iteration of vmm_map, demand paging          *)
(* (vma_demand_paging), and the processor's own walk. Module Vmm makes     *)
(* them the steps of calls. A table has Fan entries; virtual addresses     *)
(* are page numbers.                                                       *)
(***************************************************************************)
EXTENDS Integers

CONSTANTS
  Fan,          (* Entries per table: 512 in the code.                     *)
  Root,         (* Frame of the PML4.                                      *)
  Ram,          (* Frames the PMM may hand out.                            *)
  Devices       (* Frames of device memory.                                *)

(* Pages of the address space: four levels of tables.                      *)
PageTotal == Fan * Fan * Fan * Fan

ASSUME FanAssumption == Fan \in Nat \ {0}
ASSUME FrameAssumption ==
  /\ Root \in Nat \ {0} /\ Ram \subseteq Nat \ {0, Root} /\ Devices \subseteq Nat
  /\ Devices \cap (Ram \cup {0, Root}) = {}

VPages == 0 .. (PageTotal - 1)
Slots == 0 .. (Fan - 1)
Frames == {0, Root} \cup Ram \cup Devices
None == [frame |-> -1, w |-> FALSE]

Empty == [present |-> FALSE, w |-> FALSE, huge |-> FALSE, frame |-> 0]
ZeroTable == [i \in Slots |-> Empty]

(* What a frame nobody owns may contain: its last owner's data, which read *)
(* as a table would be full of mappings.                                   *)
Garbage == [i \in Slots |-> [present |-> TRUE, w |-> TRUE, huge |-> FALSE, frame |-> 0]]

-----------------------------------------------------------------------------
(* Index of page v in the table of a level: 4 is the PML4, 1 the PT. Each  *)
(* level shifts the page number by the bits of one index.                  *)
Upper(v) == v \div Fan
Index(v, level) ==
  CASE level = 1 -> v % Fan
    [] level = 2 -> Upper(v) % Fan
    [] level = 3 -> Upper(Upper(v)) % Fan
    [] level = 4 -> Upper(Upper(Upper(v))) % Fan

(* pmm_allocate_frames(1, 4096): a free frame, zeroed; else NULL. Which    *)
(* frame it takes is the business of module Pmm.                           *)
Allocated(m) == IF m.free = {} THEN 0 ELSE CHOOSE f \in m.free : TRUE

(* Mutant: a table is linked with the content its frame happens to have.   *)
AfterAllocateUncleared(m) ==
  IF m.free = {} THEN [m EXCEPT !.broken = TRUE]
  ELSE [m EXCEPT !.free = @ \ {Allocated(m)}]

AfterAllocate(m) ==
  IF m.free = {} THEN [m EXCEPT !.broken = TRUE]
  ELSE [m EXCEPT !.free = @ \ {Allocated(m)}, !.tab[Allocated(m)] = ZeroTable]

(* Entry i of the table in frame t.                                        *)
At(m, t, i) == m.tab[t][i]

SetEntry(m, t, i, e) == [m EXCEPT !.tab[t][i] = e]

(* vmm_walk_and_crate_next_table: the memory after it and the next table.  *)
(* The frame of a new table is not checked for NULL; a huge entry is       *)
(* followed like any other.                                                *)
Walk(m, t, i) ==
  LET e == At(m, t, i)
      f == Allocated(m)
  IN  IF e.present
        THEN [m |-> [m EXCEPT !.broken = @ \/ e.huge], t |-> e.frame]
        ELSE [m |-> SetEntry(AfterAllocate(m), t, i,
                             [e EXCEPT !.present = TRUE, !.w = TRUE, !.frame = f]),
              t |-> f]

ToPD(m, v) == LET pdpt == Walk(m, Root, Index(v, 4))
              IN  Walk(pdpt.m, pdpt.t, Index(v, 3))

ToPT(m, v) == LET pd == ToPD(m, v)
              IN  Walk(pd.m, pd.t, Index(v, 2))

PdEntry(m, v) == At(ToPD(m, v).m, ToPD(m, v).t, Index(v, 2))

(* The entry vmm_get_pte points to, with the memory after the walk.        *)
Pte(m, v) ==
  LET pd == ToPD(m, v)
      pt == ToPT(m, v)
  IN  IF PdEntry(m, v).huge
        THEN [m |-> pd.m, t |-> pd.t, i |-> Index(v, 2), e |-> PdEntry(m, v)]
        ELSE [m |-> pt.m, t |-> pt.t, i |-> Index(v, 1), e |-> At(pt.m, pt.t, Index(v, 1))]

(* Mutant: an existing mapping is overwritten.                             *)
MapSmallOver(m, v, p, w) ==
  LET pt == ToPT(m, v)
  IN  [m |-> SetEntry(pt.m, pt.t, Index(v, 1),
                      [Empty EXCEPT !.present = TRUE, !.w = w, !.frame = p]),
       ok |-> TRUE]

(* One iteration of vmm_map without PT_HUGE_PAGE.                          *)
MapSmall(m, v, p, w) ==
  LET pt == ToPT(m, v)
      e  == At(pt.m, pt.t, Index(v, 1))
  IN  IF e.present THEN [m |-> pt.m, ok |-> FALSE]
      ELSE [m |-> SetEntry(pt.m, pt.t, Index(v, 1),
                           [e EXCEPT !.present = TRUE, !.w = w, !.frame = p]),
            ok |-> TRUE]

MapHuge(m, v, p, w) ==
  LET pd == ToPD(m, v)
      e  == At(pd.m, pd.t, Index(v, 2))
  IN  IF e.present THEN [m |-> pd.m, ok |-> FALSE]
      ELSE [m |-> SetEntry(pd.m, pd.t, Index(v, 2),
                           [present |-> TRUE, w |-> w, huge |-> TRUE,
                            frame |-> p - (p % Fan)]),
            ok |-> TRUE]

(* vma_demand_paging for a page of a regular region: neither the frame nor *)
(* the result of vmm_map is checked.                                       *)
Demand(m, v) == MapSmall(AfterAllocate(m), v, Allocated(m), TRUE).m

(* The processor's own walk.                                               *)
Translate(m, v) ==
  LET e4 == At(m, Root, Index(v, 4))
      e3 == At(m, e4.frame, Index(v, 3))
      e2 == At(m, e3.frame, Index(v, 2))
      e1 == At(m, e2.frame, Index(v, 1))
  IN  IF ~(e4.present /\ e3.present /\ e2.present) THEN None
      ELSE IF e2.huge THEN [frame |-> e2.frame + (v % Fan), w |-> e4.w /\ e3.w /\ e2.w]
      ELSE IF ~e1.present THEN None
      ELSE [frame |-> e1.frame, w |-> e4.w /\ e3.w /\ e2.w /\ e1.w]

(* Pages of the huge page that holds v.                                    *)
Block(v) == {x \in VPages : x \div Fan = v \div Fan}
=============================================================================
