-------------------------------- MODULE Dma --------------------------------
(***************************************************************************)
(* The DMA and MMIO wrappers of memory/kmalloc.c: they take frames from    *)
(* the PMM, a range of the MMIO tree from the VMA, mappings from the VMM   *)
(* and, for scattered buffers, an array from the heap, one after another,  *)
(* and each of them may be refused.                                        *)
(*                                                                         *)
(* The PMM answers with any run of free frames, or NULL if there is none.  *)
(* The VMA answers with any free range, or NULL at any time: its search    *)
(* may miss one that fits. Addresses are in bytes, frames and pages are    *)
(* numbers, and PageBytes bytes make a page.                               *)
(***************************************************************************)
EXTENDS Integers, Sequences, FiniteSets, Functions

CONSTANTS
  PageBytes,
  Frames,       (* Frames of RAM that the PMM has for these calls.         *)
  Pages,        (* Pages of the kernel's MMIO range.                       *)
  Counts,       (* Page counts callers ask for.                            *)
  Devices       (* Device areas callers map, as [phys, size] in bytes.     *)

ASSUME DmaAssumption ==
  /\ PageBytes \in Nat \ {0}
  /\ Frames \cup Pages \subseteq Nat \ {0}
  /\ Counts \subseteq Nat
  /\ \A d \in Devices : d.phys \in Nat /\ d.size \in Nat \ {0}

VARIABLES
  free,         (* Frames that are free in the PMM.                        *)
  map,          (* Page -> frame, or 0: the page tables.                   *)
  regions,      (* Ranges in use of the MMIO tree: [start, pages, type].   *)
  arrays,       (* Arrays of physical addresses on the heap.               *)
  call,         (* The running kallocate_scatter_dma, or Idle.             *)
  held,         (* Blocks that callers hold.                               *)
  lost,         (* History: frames and ranges that a failed call kept.     *)
  stained,      (* History: pages of scattered buffers that were freed or  *)
                (* lost, and have not been unmapped since.                 *)
  halted        (* A NULL tree node has been dereferenced.                 *)

memory == <<free, map, regions, arrays>>
vars == <<memory, call, held, lost, stained, halted>>

Idle == [pages |-> 0, start |-> 0, phys |-> <<>>]

Init ==
  /\ free = Frames
  /\ map = [p \in Pages |-> 0]
  /\ regions = {} /\ arrays = 0 /\ call = Idle
  /\ held = {}
  /\ lost = [frames |-> {}, starts |-> {}]
  /\ stained = {} /\ halted = FALSE

Ready == ~halted /\ call = Idle

Span(start, n) == start .. (start + n - 1)
Run(start, n) == [i \in 1 .. n |-> start + i - 1]
PagesOf(r) == Span(r.start, r.pages)
InUse == UNION {PagesOf(r) : r \in regions}

(* Ranges and runs of n that the VMA and the PMM can answer with.          *)
FreeRanges(n) == {p \in Pages : n > 0 /\ Span(p, n) \subseteq Pages \ InUse}
FreeRuns(n) == {f \in Frames : n > 0 /\ Span(f, n) \subseteq free}

(* vmm_map of consecutive pages: it stops at the first one that is mapped. *)
Mapped(m, start, phys) ==
  LET done == {i \in DOMAIN phys : \A j \in 1 .. i : m[start + j - 1] = 0}
  IN  [p \in Pages |-> IF p - start + 1 \in done THEN phys[p - start + 1] ELSE m[p]]
Unmapped(m, ps) == [p \in Pages |-> IF p \in ps THEN 0 ELSE m[p]]

Block(kind, virt, size, phys) == [kind |-> kind, virt |-> virt, size |-> size, phys |-> phys]

-----------------------------------------------------------------------------
(* kmap_mmio: the area is widened to whole pages, and the pointer that is  *)
(* returned has the offset of the physical address in its page.            *)

(* Mutant: the size is not rounded up.                                     *)
MmioPagesDown(d) == (d.size + (d.phys % PageBytes)) \div PageBytes

MmioPages(d) == (d.size + (d.phys % PageBytes) + PageBytes - 1) \div PageBytes

MapRegion(start, phys) ==
  /\ regions' = regions \cup {[start |-> start, pages |-> Len(phys), type |-> "mmio"]}
  /\ map' = Mapped(map, start, phys)

kmap_mmio(d) ==
  /\ Ready
  /\ \E start \in FreeRanges(MmioPages(d)) :
       LET phys == Run(d.phys \div PageBytes, MmioPages(d))
           virt == start * PageBytes + (d.phys % PageBytes)
       IN  /\ MapRegion(start, phys)
           /\ held' = held \cup {Block("mmio", virt, d.size, phys)}
  /\ UNCHANGED <<free, arrays, call, lost, stained, halted>>

(* Every call that fails without having taken anything.                    *)
ReturnNull == Ready /\ UNCHANGED vars

(* kallocate_dma                                                           *)
kallocate_dma(n) ==
  /\ Ready
  /\ \E frame \in FreeRuns(n), start \in FreeRanges(n) :
       /\ free' = free \ Span(frame, n)
       /\ MapRegion(start, Run(frame, n))
       /\ held' = held \cup {Block("dma", start * PageBytes, n * PageBytes, Run(frame, n))}
  /\ UNCHANGED <<arrays, call, lost, stained, halted>>

(* kmap_mmio returns NULL: the frames stay allocated.                      *)
kallocate_dma_unmapped(n) ==
  /\ Ready
  /\ \E frame \in FreeRuns(n) :
       /\ free' = free \ Span(frame, n)
       /\ lost' = [lost EXCEPT !.frames = @ \cup Span(frame, n)]
  /\ UNCHANGED <<map, regions, arrays, call, held, stained, halted>>

-----------------------------------------------------------------------------
(* kallocate_scatter_dma: an array, a range, then one frame after another. *)

kallocate_scatter_dma(n) ==
  /\ Ready
  /\ \E start \in FreeRanges(n) :
       /\ regions' = regions \cup {[start |-> start, pages |-> n, type |-> "unmanaged"]}
       /\ call' = [pages |-> n, start |-> start, phys |-> <<>>]
  /\ arrays' = arrays + 1
  /\ UNCHANGED <<free, map, held, lost, stained, halted>>

(* Mutant: a frame is not checked against NULL, and taken from a neighbour.*)
ScatterPageShared ==
  /\ Len(call.phys) < call.pages
  /\ \E frame \in Frames :
       /\ free' = free \ {frame}
       /\ map' = Mapped(map, call.start + Len(call.phys), <<frame>>)
       /\ call' = [call EXCEPT !.phys = Append(@, frame)]
  /\ UNCHANGED <<regions, arrays, held, lost, stained, halted>>

ScatterPage ==
  /\ Len(call.phys) < call.pages
  /\ \E frame \in FreeRuns(1) :
       /\ free' = free \ {frame}
       /\ map' = Mapped(map, call.start + Len(call.phys), <<frame>>)
       /\ call' = [call EXCEPT !.phys = Append(@, frame)]
  /\ UNCHANGED <<regions, arrays, held, lost, stained, halted>>

(* Out of frames: only the array is given back.                            *)
ScatterFail ==
  /\ Len(call.phys) < call.pages /\ FreeRuns(1) = {}
  /\ arrays' = arrays - 1
  /\ lost' = [frames |-> lost.frames \cup Range(call.phys), starts |-> lost.starts \cup {call.start}]
  /\ stained' = stained \cup Span(call.start, call.pages)
  /\ call' = Idle
  /\ UNCHANGED <<free, map, regions, held, halted>>

ScatterDone ==
  /\ call # Idle /\ Len(call.phys) = call.pages
  /\ held' = held \cup {Block("scatter", call.start * PageBytes, call.pages * PageBytes, call.phys)}
  /\ call' = Idle
  /\ UNCHANGED <<memory, lost, stained, halted>>

-----------------------------------------------------------------------------
(* Frees of what a caller holds. The VMA looks for a region that starts at *)
(* the address, unmaps it if it is an MMIO one, and dereferences NULL if   *)
(* there is none.                                                          *)

RegionsAt(virt) == {r \in regions : r.start * PageBytes = virt}

FreeRegion(r) ==
  /\ regions' = regions \ {r}
  /\ IF r.type = "mmio"
       THEN map' = Unmapped(map, PagesOf(r)) /\ stained' = stained \ PagesOf(r)
       ELSE stained' = stained \cup PagesOf(r) /\ UNCHANGED map

(* Mutant: device memory is given to the PMM.                              *)
kunmap_mmio_frames(b) ==
  /\ Ready /\ b.kind = "mmio"
  /\ \E r \in RegionsAt(b.virt) : FreeRegion(r)
  /\ free' = free \cup Range(b.phys)
  /\ held' = held \ {b}
  /\ UNCHANGED <<arrays, call, lost, halted>>

kunmap_mmio(b) ==
  /\ Ready /\ b.kind = "mmio"
  /\ \E r \in RegionsAt(b.virt) : FreeRegion(r)
  /\ held' = held \ {b}
  /\ UNCHANGED <<free, arrays, call, lost, halted>>

kunmap_mmio_fault(b) ==
  /\ Ready /\ b.kind = "mmio" /\ RegionsAt(b.virt) = {}
  /\ halted' = TRUE
  /\ UNCHANGED <<memory, call, held, lost, stained>>

kfree_dma(b) ==
  /\ Ready /\ b.kind = "dma"
  /\ free' = free \cup Range(b.phys)
  /\ \E r \in RegionsAt(b.virt) : FreeRegion(r)
  /\ held' = held \ {b}
  /\ UNCHANGED <<arrays, call, lost, halted>>

(* Mutant: the array of physical addresses is forgotten.                   *)
kfree_scatter_dma_array(b) ==
  /\ Ready /\ b.kind = "scatter"
  /\ \E r \in RegionsAt(b.virt) : FreeRegion(r)
  /\ free' = free \cup Range(b.phys)
  /\ held' = held \ {b}
  /\ UNCHANGED <<arrays, call, lost, halted>>

kfree_scatter_dma(b) ==
  /\ Ready /\ b.kind = "scatter"
  /\ \E r \in RegionsAt(b.virt) : FreeRegion(r)
  /\ free' = free \cup Range(b.phys)
  /\ arrays' = arrays - 1
  /\ held' = held \ {b}
  /\ UNCHANGED <<call, lost, halted>>

Halted == halted /\ UNCHANGED vars

Next ==
  \/ \E d \in Devices : kmap_mmio(d)
  \/ \E n \in Counts : kallocate_dma(n) \/ kallocate_dma_unmapped(n) \/ kallocate_scatter_dma(n)
  \/ ScatterPage \/ ScatterFail \/ ScatterDone
  \/ \E b \in held : kunmap_mmio(b) \/ kunmap_mmio_fault(b) \/ kfree_dma(b) \/ kfree_scatter_dma(b)
  \/ ReturnNull \/ Halted

Spec == Init /\ [][Next]_vars

-----------------------------------------------------------------------------
(* PROPERTIES                                                              *)

TypeOK ==
  /\ free \subseteq Frames /\ stained \subseteq Pages
  /\ map \in [Pages -> Nat]
  /\ \A r \in regions : PagesOf(r) \subseteq Pages /\ r.type \in {"mmio", "unmanaged"}
  /\ Len(call.phys) <= call.pages

(* RAM that the caller of b owns.                                          *)
Ram(b) == IF b.kind = "mmio" THEN {} ELSE Range(b.phys)
Taken == (UNION {Ram(b) : b \in held}) \cup Range(call.phys)

(* Whichever step is refused, every frame has exactly one owner: the PMM,  *)
(* one block, the running call or, after kallocate_dma or                  *)
(* kallocate_scatter_dma returned NULL, nobody. The ranges of the MMIO     *)
(* tree are disjoint: one for each block, the running call and each        *)
(* scatter allocation that failed. The heap has one array for each         *)
(* scattered block and the call.                                           *)
OwnedOnce ==
  /\ TypeOK
  /\ free \cup Taken \cup lost.frames = Frames
  /\ free \cap (Taken \cup lost.frames) = {} /\ Taken \cap lost.frames = {}
  /\ \A b, c \in held : b # c => Ram(b) \cap Ram(c) = {}
  /\ \A b \in held : Ram(b) \cap Range(call.phys) = {}
  /\ \A b \in held : b.kind # "mmio" => Cardinality(Ram(b)) = Len(b.phys)
  /\ {r.start : r \in regions} =
       {b.virt \div PageBytes : b \in held} \cup lost.starts \cup ({call.start} \ {0})
  /\ \A r, s \in regions : r # s => PagesOf(r) \cap PagesOf(s) = {}
  /\ Cardinality(regions) = Cardinality(held) + Cardinality(lost.starts) + Cardinality({call.start} \ {0})
  /\ arrays = Cardinality({b \in held : b.kind = "scatter"}) + Cardinality({call.start} \ {0})

(* Where the i-th byte of a block should be, and where it is.              *)
Intended(b, i) ==
  LET at == (b.virt % PageBytes) + i
  IN  b.phys[(at \div PageBytes) + 1] * PageBytes + (at % PageBytes)
Actual(b, i) == map[(b.virt + i) \div PageBytes] * PageBytes + ((b.virt + i) % PageBytes)
PagesOfBlock(b) == (b.virt \div PageBytes) .. ((b.virt + b.size - 1) \div PageBytes)

(* The pointer that a caller gets reaches every byte it asked for, at the  *)
(* physical address the block names, whatever has been mapped and freed in *)
(* these pages before; except where a scattered buffer used to be, which   *)
(* kfree_scatter_dma leaves mapped. No other page is mapped without owner. *)
HeldReachable ==
  /\ \A b \in held : PagesOfBlock(b) \cap stained = {} =>
       /\ PagesOfBlock(b) = Span(b.virt \div PageBytes, Len(b.phys))
       /\ \A i \in 0 .. (b.size - 1) : Actual(b, i) = Intended(b, i)
  /\ \A p \in Pages \ (InUse \cup stained) : map[p] = 0

-----------------------------------------------------------------------------
(* What the comments of kmalloc.c say.                                     *)

(* Line 280: kunmap_mmio unmaps what kmap_mmio mapped.                     *)
UnmapReturns == ~halted

(* Line 266: kfree_scatter_dma frees the area; nothing that is free again  *)
(* is still mapped.                                                        *)
FreeIsUnmapped == \A p \in Pages : map[p] \notin free
=============================================================================
