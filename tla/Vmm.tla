-------------------------------- MODULE Vmm --------------------------------
(***************************************************************************)
(* The virtual memory manager (memory/vmm.c): its calls, each a sequence   *)
(* of steps on the page tables (module PageTables), with demand paging and *)
(* the TLB of one processor.                                               *)
(*                                                                         *)
(* vmm_map, vmm_unmap and vmm_pin_pages take one step per page. Virtual    *)
(* addresses are page numbers, except for the byte address that            *)
(* vmm_pin_pages rounds.                                                   *)
(***************************************************************************)
EXTENDS PageTables

CONSTANTS
  PageBytes,    (* Bytes per page: 4096 in the code.                       *)
  Pages,        (* Virtual pages callers use.                              *)
  Regular,      (* Those in a VMA_REGULAR region of the kernel heap.       *)
  MapCounts,    (* Page counts given to vmm_map and vmm_unmap.             *)
  PinAddrs,     (* Byte addresses given to vmm_pin_pages...                *)
  PinCounts,    (* ... and byte counts.                                    *)
  HugeCalls     (* Whether some caller passes PT_HUGE_PAGE.                *)

ASSUME BytesAssumption == PageBytes \in Nat \ {0}
ASSUME PageAssumption == Pages \subseteq 0 .. (PageTotal - 1) /\ Regular \subseteq Pages
ASSUME ArgsAssumption ==
  /\ MapCounts \subseteq Nat /\ PinAddrs \subseteq Nat /\ PinCounts \subseteq Nat
  /\ HugeCalls \in BOOLEAN

(* Callers map device memory, and pin buffers that end in the address      *)
(* space.                                                                  *)
ASSUME CallerAssumption ==
  /\ \A p \in Devices, n \in MapCounts : \A i \in 0 .. (n - 1) : p + i \notin Ram \cup {Root}
  /\ HugeCalls => \A p \in Devices, k \in 0 .. (Fan - 1) : p - (p % Fan) + k \notin Ram
  /\ \A addr \in PinAddrs, n \in PinCounts : (addr + n) \div PageBytes < PageTotal

VARIABLES
  mem,          (* tab: the content of each frame, read as a table; free:  *)
                (* the frames the PMM considers free; broken: history, a   *)
                (* walk has left the tables because a frame was missing or *)
                (* a huge page was taken for a table.                      *)
  op,           (* The call in progress, Idle when there is none.          *)
  ret,          (* What the last call returned.                            *)
  tlb,          (* Translations the processor has cached, None elsewhere.  *)
  halted        (* The kernel has stopped in PANIC.                        *)

vars == <<mem, op, ret, tlb, halted>>

(* invlpg                                                                  *)
Flush(pages) == tlb' = [x \in VPages |-> IF x \in pages THEN None ELSE tlb[x]]

-----------------------------------------------------------------------------
Idle == [kind |-> "none", v |-> 0, p |-> 0, n |-> 0, w |-> FALSE, huge |-> FALSE,
         first |-> 0, need |-> 0]   (* History: see MapCall and PinCall.     *)

Code(c) == [code |-> c, frame |-> 0]
Return(c) == op' = Idle /\ ret' = Code(c)

(* The kernel's tables map none of the modelled pages when it starts, and  *)
(* free frames hold what the firmware left there.                          *)
Init ==
  /\ mem = [tab |-> [f \in Frames |-> IF f \in Ram THEN Garbage ELSE ZeroTable],
            free |-> Ram, broken |-> FALSE]
  /\ op = Idle
  /\ ret = Code("OK")
  /\ tlb = [x \in VPages |-> None]
  /\ halted = FALSE

Ready == op = Idle /\ ~halted

(* Calls whose count is 0 return at once.                                  *)
CallZero ==
  /\ Ready /\ 0 \in MapCounts
  /\ Return("EINVAL")
  /\ UNCHANGED <<mem, tlb, halted>>

(* Mutant: an empty range is not refused.                                  *)
MapCallEmpty(v, p, n, w, huge) ==
  /\ Ready
  /\ op' = [Idle EXCEPT !.kind = "map", !.v = v, !.p = p, !.n = n, !.w = w, !.huge = huge,
                   !.first = v, !.need = p]
  /\ UNCHANGED <<mem, ret, tlb, halted>>

MapCall(v, p, n, w, huge) ==
  /\ Ready /\ n # 0
  /\ op' = [Idle EXCEPT !.kind = "map", !.v = v, !.p = p, !.n = n, !.w = w, !.huge = huge,
                   !.first = v, !.need = p]
  /\ UNCHANGED <<mem, ret, tlb, halted>>

(* Page number after the step to the next page or huge page.               *)
Ahead(v, by) == (v + by) % PageTotal

(* The loop goes on, or the call returns 0 after its last page.            *)
Continue(by, frames) ==
  IF op.n = 1 THEN Return("OK")
  ELSE /\ op' = [op EXCEPT !.v = Ahead(op.v, by), !.p = @ + frames, !.n = @ - 1]
       /\ UNCHANGED ret

MapStep ==
  /\ op.kind = "map" /\ ~op.huge
  /\ LET r == MapSmall(mem, op.v, op.p, op.w)
     IN  /\ mem' = r.m
         /\ IF r.ok THEN Continue(1, 1) /\ Flush({op.v})
                    ELSE Return("EEXIST") /\ UNCHANGED tlb
  /\ UNCHANGED halted

(* p_addr is not advanced between huge pages.                              *)
MapHugeStep ==
  /\ op.kind = "map" /\ op.huge
  /\ LET r == MapHuge(mem, op.v, op.p, op.w)
     IN  /\ mem' = r.m
         /\ IF r.ok THEN Continue(Fan, 0) /\ Flush(Block(op.v))
                    ELSE Return("EEXIST") /\ UNCHANGED tlb
  /\ UNCHANGED halted

UnmapCall(v, n) ==
  /\ Ready /\ n # 0
  /\ op' = [Idle EXCEPT !.kind = "unmap", !.v = v, !.n = n]
  /\ UNCHANGED <<mem, ret, tlb, halted>>

(* Mutant: the translation stays in the TLB.                               *)
UnmapStepCached ==
  /\ op.kind = "unmap"
  /\ LET pte == Pte(mem, op.v)
     IN  /\ mem' = SetEntry(pte.m, pte.t, pte.i, Empty)
         /\ IF pte.e.huge THEN Continue(Fan, 0) ELSE Continue(1, 0)
  /\ UNCHANGED <<tlb, halted>>

(* The walk is the one of vmm_get_pte; the entry's raw value becomes 0.    *)
UnmapStep ==
  /\ op.kind = "unmap"
  /\ LET pte == Pte(mem, op.v)
     IN  /\ mem' = SetEntry(pte.m, pte.t, pte.i, Empty)
         /\ IF pte.e.huge THEN Continue(Fan, 0) /\ Flush(Block(op.v))
                          ELSE Continue(1, 0) /\ Flush({op.v})
  /\ UNCHANGED halted

(* Mutant: the walk stops at the page directory.                           *)
GetPhysicalShort(v) ==
  /\ Ready
  /\ mem' = Pte(mem, v).m /\ ret' = [code |-> "phys", frame |-> PdEntry(mem, v).frame]
  /\ UNCHANGED <<op, tlb, halted>>

(* vmm_get_physical_from_virtual: for a huge page its first frame.         *)
GetPhysical(v) ==
  /\ Ready
  /\ LET pte == Pte(mem, v)
     IN  mem' = pte.m /\ ret' = [code |-> "phys", frame |-> pte.e.frame]
  /\ UNCHANGED <<op, tlb, halted>>

-----------------------------------------------------------------------------
(* vmm_pin_pages. The last page is computed from the start of the first    *)
(* page, not from the address; need is the last page the buffer is in.     *)
PinLast(addr, n) == ((addr \div PageBytes) * PageBytes + n - 1) \div PageBytes

PinCall(addr, n, w) ==
  /\ Ready
  /\ IF addr < PageBytes - 1 THEN Return("EFAULT")
     ELSE IF n = 0 THEN Return("EINVAL")
     ELSE /\ op' = [Idle EXCEPT !.kind = "pin", !.v = addr \div PageBytes, !.w = w,
                      !.n = PinLast(addr, n), !.first = addr \div PageBytes,
                      !.need = (addr + n - 1) \div PageBytes]
          /\ UNCHANGED ret
  /\ UNCHANGED <<mem, tlb, halted>>

PinNext ==
  IF op.v >= op.n THEN Return("OK")
  ELSE op' = [op EXCEPT !.v = @ + 1] /\ UNCHANGED ret

(* Mutant: write access is not looked at.                                  *)
PinPresentUnchecked ==
  /\ op.kind = "pin"
  /\ LET pte == Pte(mem, op.v)
     IN  pte.e.present /\ mem' = pte.m /\ PinNext
  /\ UNCHANGED <<tlb, halted>>

PinPresent ==
  /\ op.kind = "pin"
  /\ LET pte == Pte(mem, op.v)
     IN  /\ pte.e.present
         /\ mem' = pte.m
         /\ IF op.w /\ ~pte.e.w THEN Return("EFAULT") ELSE PinNext
  /\ UNCHANGED <<tlb, halted>>

(* A missing page is an error for a reader. For a writer it is paged in,   *)
(* and 0, the success of vma_demand_paging, is taken for its failure; on   *)
(* its failure the entry is read again and found not writeable.            *)
PinMissing ==
  /\ op.kind = "pin"
  /\ LET pte == Pte(mem, op.v)
     IN  /\ ~pte.e.present
         /\ mem' = IF op.w /\ op.v \in Regular THEN Demand(pte.m, op.v) ELSE pte.m
         /\ IF op.w /\ op.v \notin Regular /\ pte.e.w THEN PinNext ELSE Return("EFAULT")
  /\ UNCHANGED <<tlb, halted>>

-----------------------------------------------------------------------------
(* The processor.                                                          *)

(* An access that translates fills the TLB.                                *)
Access(v) ==
  /\ Ready
  /\ Translate(mem, v) # None /\ tlb[v] = None
  /\ tlb' = [tlb EXCEPT ![v] = Translate(mem, v)]
  /\ UNCHANGED <<mem, op, ret, halted>>

(* vmm_page_fault_callback for a page that is not present.                 *)
PageFaultMissing(v) ==
  /\ Ready
  /\ Translate(mem, v) = None /\ tlb[v] = None
  /\ IF v \in Regular THEN mem' = Demand(mem, v) /\ UNCHANGED halted
                      ELSE halted' = TRUE /\ UNCHANGED mem
  /\ UNCHANGED <<op, ret, tlb>>

(* A write to a present, read-only page.                                   *)
PageFaultPresent(v) ==
  /\ Ready
  /\ Translate(mem, v) # None /\ ~Translate(mem, v).w
  /\ halted' = TRUE
  /\ UNCHANGED <<mem, op, ret, tlb>>

Halted == halted /\ UNCHANGED vars

Work == MapStep \/ MapHugeStep \/ UnmapStep \/ PinPresent \/ PinMissing

Next ==
  \/ CallZero
  \/ \E v \in Pages, n \in MapCounts :
       \/ UnmapCall(v, n)
       \/ \E p \in Devices, w \in BOOLEAN :
            \/ MapCall(v, p, n, w, FALSE)
            \/ HugeCalls /\ MapCall(v, p, n, w, TRUE)
  \/ \E v \in Pages : GetPhysical(v)
  \/ \E addr \in PinAddrs, n \in PinCounts, w \in BOOLEAN : PinCall(addr, n, w)
  \/ Work
  \/ \E v \in Pages : Access(v) \/ PageFaultMissing(v) \/ PageFaultPresent(v)
  \/ Halted

Spec == Init /\ [][Next]_vars

(* Bounds the model: nothing is claimed once a walk has left the tables.   *)
Intact == ~mem.broken

-----------------------------------------------------------------------------
(* PROPERTIES                                                              *)

TypeOK ==
  /\ mem.free \subseteq Ram /\ mem.broken \in BOOLEAN
  /\ \A f \in Frames, i \in Slots :
       At(mem, f, i) \in [present : BOOLEAN, w : BOOLEAN, huge : BOOLEAN, frame : Nat]
  /\ op.kind \in {"none", "map", "unmap", "pin"}
  /\ op.v \in VPages /\ op.n \in Nat
  /\ halted \in BOOLEAN

(* Entries of the tables T that point to a table one level down, and the   *)
(* tables they point to.                                                   *)
Links(T) == {l \in T \X Slots : At(mem, l[1], l[2]).present /\ ~At(mem, l[1], l[2]).huge}
Target(l) == At(mem, l[1], l[2]).frame
Below(T) == {Target(l) : l \in Links(T)}

(* As long as no walk has left the tables, every table has one parent      *)
(* entry, the frames of tables are never free and never mapped as data,    *)
(* and a frame of RAM is mapped at one page at most, never while it is     *)
(* free: walks that create tables (lines 256-271) and demand paging take   *)
(* frames nobody else has. The tables and the call have their types.       *)
NoAlias ==
  TypeOK /\ (~mem.broken =>
    LET pdpts  == Below({Root})
        pds    == Below(pdpts)
        pts    == Below(pds)
        tables == {Root} \cup pdpts \cup pds \cup pts
        inner  == Links({Root} \cup pdpts \cup pds)
        leaves == Links(pts)
    IN  /\ \A l, k \in inner : Target(l) = Target(k) => l = k
        /\ \A l \in inner : Target(l) \in Ram \ mem.free
        /\ \A l \in leaves : Target(l) \notin tables \cup mem.free
        /\ \A l, k \in leaves : Target(l) = Target(k) /\ Target(l) \in Ram => l = k)

(* The TLB never disagrees with the tables: every change of a translation  *)
(* is followed by the invlpg that drops it (lines 63, 90, 118, 128).       *)
TlbCoherent ==
  ~mem.broken => \A v \in VPages : tlb[v] # None => tlb[v] = Translate(mem, v)

(* The tables implement a partial function from pages to frames that every *)
(* operation changes at the addressed pages only.                          *)
PM == INSTANCE PageMap WITH
        map <- [v \in VPages |-> Translate(mem, v)],
        op <- op, ret <- ret.code, broken <- mem.broken, None <- None
ImplementsPageMap == PM!Spec

(* The step in which a call of vmm_pin_pages returns c.                    *)
PinReturns(c) == op.kind = "pin" /\ op' = Idle /\ ret'.code = c

Pinned(m, v, w) == Translate(m, v) # None /\ (w => Translate(m, v).w)

PinTrue ==
  PinReturns("OK") /\ ~mem'.broken => \A v \in op.first .. op.n : Pinned(mem', v, op.w)
PhysicalTrue ==
  \A v \in Pages :
    /\ GetPhysical(v) /\ ~mem'.broken
    /\ Translate(mem, v) # None /\ ~PdEntry(mem, v).huge
    => ret'.frame = Translate(mem', v).frame

(* What callers are told is what the processor does: when vmm_pin_pages    *)
(* returns 0 for a buffer that starts at the beginning of a page, every    *)
(* page of it is present, and writeable if asked; and the result of        *)
(* vmm_get_physical_from_virtual is the translation of every page that is  *)
(* mapped by an entry of its own, although it may create tables.           *)
AnswersSound == [][PinTrue /\ PhysicalTrue]_vars

-----------------------------------------------------------------------------
(* What the comments of vmm.c say.                                         *)

(* Line 207: vmm_pin_pages pins count bytes from the address.              *)
PinCoversBuffer ==
  [][PinReturns("OK") /\ ~mem'.broken =>
       \A v \in op.first .. op.need : Pinned(mem', v, op.w)]_vars

(* Line 211: -EFAULT is for an invalid buffer, which one is not whose      *)
(* page is in a regular region and has been given a frame.                 *)
PinFaultIsInvalid ==
  [][PinReturns("EFAULT") /\ ~mem'.broken => ~Pinned(mem', op.v, op.w)]_vars

(* Line 135: vmm_get_physical_from_virtual returns the physical address of *)
(* the virtual one.                                                        *)
PhysicalIsTranslation ==
  [][\A v \in Pages :
       GetPhysical(v) /\ ~mem'.broken /\ Translate(mem, v) # None
       => ret'.frame = Translate(mem, v).frame]_vars

(* Lines 24 and 27: a mapping call covers consecutive physical memory.     *)
MapIsConsecutive ==
  [][op.kind = "map" /\ op'.kind = "none" /\ ret'.code = "OK" /\ ~mem'.broken =>
       Translate(mem', op.v).frame = op.need + (op.v - op.first)]_vars
=============================================================================
