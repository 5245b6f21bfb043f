-------------------------------- MODULE Boot --------------------------------
(***************************************************************************)
(* The UEFI boot loader (bootloader/efi.c): it builds the frame bitmap,    *)
(* the boot information and the page tables that the kernel starts with.   *)
(* Memory is a function from frames to types; a step is one AllocatePages  *)
(* of the firmware with what is done with its result. A failure of the     *)
(* firmware halts (check_EFI_error).                                       *)
(*                                                                         *)
(* "conv" is conventional memory, "boot" loader and boot services memory,  *)
(* "acpi" reclaimable ACPI memory, "run" other RAM of the firmware, "hole" *)
(* no RAM. What the loader allocates becomes loader data.                  *)
(***************************************************************************)
EXTENDS Integers, Sequences, FiniteSets, FiniteSetsExt

CONSTANTS
  Layouts,      (* Memory maps: sequences of types, frame 0 first.         *)
  ImagePages,   (* Pages of the PT_LOAD segments of the kernel.            *)
  StackPages,   (* KERNEL_STACK_PAGE_COUNT: 8.                             *)
  BitsPerByte,  (* 8: the bitmap is made of bytes.                         *)
  Spans,        (* Pages a table of each level below the PML4 maps.        *)
  DirectBase, ImageBase, StackBase,  (* Virtual pages.                     *)
  GdtFrame      (* The frame with the loader's GDT, mapped to itself.      *)

(* The virtual pages of the image, the top of the stack and the GDT, and   *)
(* those that map a memory of n frames directly.                           *)
ImageRange == ImageBase .. (ImageBase + ImagePages - 1)
DirectRange(n) == DirectBase .. (DirectBase + n - 1)

ASSUME SizeAssumption == ImagePages \in Nat /\ StackPages \in Nat \ {0} /\ BitsPerByte \in Nat \ {0}
ASSUME LayoutAssumption ==
  Layouts \subseteq Seq({"conv", "boot", "acpi", "run", "hole"})
ASSUME AddressAssumption ==
  /\ DirectBase \in Nat /\ ImageBase \in Nat /\ StackBase \in Nat /\ GdtFrame \in Nat
  /\ StackBase - 1 \notin ImageRange \cup {GdtFrame} /\ GdtFrame \notin ImageRange
  /\ \A l \in Layouts :
       /\ GdtFrame < Len(l)
       /\ DirectRange(Len(l)) \cap (ImageRange \cup {StackBase - 1, GdtFrame}) = {}

VARIABLES
  pc, layout, policy, use, total, used, max, busy, tables, map, queue
vars == <<pc, layout, policy, use, total, used, max, busy, tables, map, queue>>

Frames == 0 .. (Len(layout) - 1)
Type(f) == layout[f + 1]
Ram == {f \in Frames : Type(f) # "hole"}
Legal == {f \in Frames : Type(f) \in {"conv", "boot"}}

(* policy: the firmware allocates from the bottom or from the top.         *)
Init ==
  /\ pc = "survey" /\ layout \in Layouts /\ policy \in {"low", "high"}
  /\ use = [f \in Frames |-> "none"]
  /\ total = 0 /\ used = 0 /\ max = 0 /\ busy = {} /\ queue = <<>>
  /\ tables = <<>> /\ map = <<>>

(* AllocatePages of one page. Frame 0 is never given.                      *)
Available == {f \in Frames \ {0} : Type(f) = "conv" /\ use[f] = "none"}
AllocatePages(f) == f \in Available /\ f = IF policy = "low" THEN Min(Available) ELSE Max(Available)
Took(f, what) == use' = [use EXCEPT ![f] = what]

Fail ==
  /\ pc \notin {"kernel", "halted"}
  /\ pc' = "halted"
  /\ UNCHANGED <<layout, policy, use, total, used, max, busy, tables, map, queue>>

-----------------------------------------------------------------------------
(* The bitmap.                                                             *)

(* get_memory_map allocates its buffer.                                    *)
Survey ==
  /\ pc = "survey" /\ pc' = "bitmap"
  /\ \E f \in Frames : AllocatePages(f) /\ Took(f, "buffer")
  /\ total' = Cardinality(Ram) /\ used' = Cardinality(Ram \ Legal) /\ max' = Max(Legal) + 1
  /\ UNCHANGED <<layout, policy, busy, tables, map, queue>>

Bits == ((max + BitsPerByte - 1) \div BitsPerByte) * BitsPerByte

(* Mutant: one bit more than the bitmap has is set.                        *)
AllBusyPast == 0 .. Bits

AllBusy == 0 .. (Bits - 1)

(* Everything is busy at first.                                            *)
AllocBitmap ==
  /\ pc = "bitmap" /\ pc' = "build"
  /\ \E f \in Frames : AllocatePages(f) /\ Took(f, "bitmap")
  /\ busy' = AllBusy
  /\ UNCHANGED <<layout, policy, total, used, max, tables, map, queue>>

(* Mutant: the memory of the ACPI tables is free too.                      *)
FreedAcpi == {f \in Frames : Type(f) \in {"conv", "boot", "acpi"}}

Freed == Legal

Build ==
  /\ pc = "build" /\ pc' = "info"
  /\ \E f \in Frames : AllocatePages(f) /\ Took(f, "buffer")
  /\ busy' = busy \ Freed
  /\ UNCHANGED <<layout, policy, total, used, max, tables, map, queue>>

(* Mutant: frame 0 is counted whatever its bit is.                         *)
SentinelAlways == 1

Sentinel == IF 0 \in busy THEN 0 ELSE 1

(* The bitmap itself, frame 0 and the boot information are noted as busy.  *)
AllocInfo ==
  /\ pc = "info" /\ pc' = "pml4"
  /\ \E f \in Frames : AllocatePages(f) /\ Took(f, "info") /\ busy' = busy \cup {0, f} \cup {g \in Frames : use[g] = "bitmap"}
  /\ used' = used + 2 + Sentinel
  /\ UNCHANGED <<layout, policy, total, max, tables, map, queue>>

AllocPml4 ==
  /\ pc = "pml4" /\ pc' = "file"
  /\ \E f \in Frames : AllocatePages(f) /\ Took(f, "pml4") /\ busy' = busy \cup {f}
  /\ used' = used + 1
  /\ UNCHANGED <<layout, policy, total, max, tables, map, queue>>

(* The frame buffer, the kernel's file and its buffer.                     *)
ReadFile ==
  /\ pc = "file" /\ pc' = "image"
  /\ \E f \in Frames : AllocatePages(f) /\ Took(f, "buffer")
  /\ UNCHANGED <<layout, policy, total, used, max, busy, tables, map, queue>>

-----------------------------------------------------------------------------
(* map_vaddr_to_paddr, for the first pair of a virtual page and a frame    *)
(* in queue: a table is allocated for each level that misses one.          *)

Key(level, page) == <<level, page \div Spans[level]>>
MissingLevels == {l \in DOMAIN Spans : Key(l, Head(queue)[1]) \notin DOMAIN tables}

(* Mutant: a new table is not noted in the bitmap.                         *)
NewTableUnmarked(f) == Took(f, "table") /\ UNCHANGED <<busy, used>>

NewTable(f) == Took(f, "table") /\ busy' = busy \cup {f} /\ used' = used + 1

Walk ==
  /\ pc \notin {"kernel", "halted"} /\ queue # <<>> /\ MissingLevels # {}
  /\ \E f \in Frames :
       /\ AllocatePages(f) /\ NewTable(f)
       /\ LET k == Key(Min(MissingLevels), Head(queue)[1])
          IN  tables' = [x \in DOMAIN tables \cup {k} |-> IF x = k THEN f ELSE tables[x]]
  /\ UNCHANGED <<pc, layout, policy, total, max, map, queue>>

MapPage ==
  /\ pc \notin {"kernel", "halted"} /\ queue # <<>> /\ MissingLevels = {}
  /\ LET v == Head(queue)[1] IN
       map' = [x \in DOMAIN map \cup {v} |-> IF x = v THEN Head(queue)[2] ELSE map[x]]
  /\ queue' = Tail(queue)
  /\ UNCHANGED <<pc, layout, policy, use, total, used, max, busy, tables>>

-----------------------------------------------------------------------------
(* The mappings.                                                           *)

Count(what) == Cardinality({f \in Frames : use[f] = what})

LoadPage ==
  /\ pc = "image" /\ queue = <<>> /\ Count("image") < ImagePages
  /\ \E f \in Frames :
       /\ AllocatePages(f) /\ Took(f, "image")
       /\ queue' = <<<<ImageBase + Count("image"), f>>>>
       /\ busy' = busy \cup {f} /\ used' = used + 1
  /\ UNCHANGED <<pc, layout, policy, total, max, tables, map>>

(* Mutant: only conventional memory is mapped directly.                    *)
DirectConventional == {f \in Frames : Type(f) = "conv" /\ use[f] = "none"}

DirectFrames == Legal \cup {f \in Frames : Type(f) = "acpi"}

Direct ==
  /\ pc = "image" /\ queue = <<>> /\ Count("image") = ImagePages
  /\ pc' = "stack"
  /\ \E f \in Frames : AllocatePages(f) /\ Took(f, "buffer")
  /\ queue' = LET D == DirectFrames IN
       [i \in 1 .. Cardinality(D) |->
          LET f == CHOOSE f \in D : Cardinality({g \in D : g < f}) = i - 1 IN <<DirectBase + f, f>>]
  /\ UNCHANGED <<layout, policy, total, used, max, busy, tables, map>>

(* Every page of the stack is mapped to the same virtual page, and none is *)
(* noted in the bitmap.                                                    *)
StackPage ==
  /\ pc = "stack" /\ queue = <<>> /\ Count("stack") < StackPages
  /\ \E f \in Frames : AllocatePages(f) /\ Took(f, "stack") /\ queue' = <<<<StackBase - 1, f>>>>
  /\ UNCHANGED <<pc, layout, policy, total, used, max, busy, tables, map>>

Identity ==
  /\ pc = "stack" /\ queue = <<>> /\ Count("stack") = StackPages
  /\ pc' = "exit" /\ queue' = <<<<GdtFrame, GdtFrame>>>>
  /\ UNCHANGED <<layout, policy, use, total, used, max, busy, tables, map>>

ExitBootServices ==
  /\ pc = "exit" /\ queue = <<>> /\ pc' = "kernel"
  /\ \E f \in Frames : AllocatePages(f) /\ Took(f, "buffer")
  /\ UNCHANGED <<layout, policy, total, used, max, busy, tables, map, queue>>

Next ==
  \/ Survey \/ AllocBitmap \/ Build \/ AllocInfo \/ AllocPml4 \/ ReadFile \/ Walk \/ MapPage
  \/ LoadPage \/ Direct \/ StackPage \/ Identity \/ ExitBootServices \/ Fail

Spec == Init /\ [][Next]_vars

-----------------------------------------------------------------------------
(* Properties.                                                             *)

Uses == {"none", "buffer", "bitmap", "info", "pml4", "table", "image", "stack"}
Early == {"survey", "bitmap", "build"}

(* Only bits the bitmap has are set, and mappings lead to frames.          *)
TypeOK ==
  /\ busy \subseteq 0 .. (Bits - 1) /\ use \in [Frames -> Uses]
  /\ \A v \in DOMAIN map : map[v] \in Frames
  /\ \A k \in DOMAIN tables : use[tables[k]] = "table"

KernelFrames == {f \in Frames : use[f] \in {"bitmap", "info", "pml4", "table", "image"}}

(* A frame that the bitmap calls free is RAM that the firmware leaves to   *)
(* the kernel. What the kernel goes on using is busy: the bitmap, the boot *)
(* information, the page tables and its image, although most of it is      *)
(* allocated after the bitmap was built.                                   *)
BitmapExact ==
  /\ TypeOK
  /\ pc \notin {"bitmap", "halted"} => \A f \in 0 .. (Bits - 1) : f \notin busy => f \in Legal
  /\ pc \notin Early \cup {"info", "halted"} => KernelFrames \subseteq busy

(* Used and free frames add up to the RAM of the machine, as pmm_init      *)
(* takes them over: no frame is counted twice or forgotten.                *)
UsedExact ==
  pc \notin Early \cup {"info", "halted"} => used + Cardinality((0 .. (Bits - 1)) \ busy) = total

(* The kernel reaches all it needs when it starts: its image, page by      *)
(* page, a page of stack, and through the direct map every frame that is   *)
(* free or that the loader has filled for it.                              *)
KernelReaches ==
  pc = "kernel" =>
    /\ \A i \in 0 .. (ImagePages - 1) : use[map[ImageBase + i]] = "image"
    /\ \A i, j \in 0 .. (ImagePages - 1) : map[ImageBase + i] = map[ImageBase + j] => i = j
    /\ use[map[StackBase - 1]] = "stack"
    /\ \A f \in KernelFrames \cup ((0 .. (Bits - 1)) \ busy) :
         DirectBase + f \in DOMAIN map /\ map[DirectBase + f] = f

-----------------------------------------------------------------------------
(* What the code's comments say and the code does not do.                  *)

(* "Now, we can note down any kernel permenent things for the PMM to       *)
(* track" (efi.c:112): the stack is one of them.                           *)
StackBusy == pc = "kernel" => map[StackBase - 1] \in busy

(* "Allocate n pages for the kernel and then map them to the designated    *)
(* kernel stack area" (efi.c:286): n pages are mapped.                     *)
StackMapped == pc = "kernel" => {f \in Frames : use[f] = "stack"} \subseteq {map[v] : v \in DOMAIN map \ (DirectBase .. (DirectBase + Len(layout)))}

(* "Initialized to 1 -> mark as busy unless told otherwise. Handles        *)
(* potential holes and MMIO, etc." (efi.c:78): the frames pmm_init is told *)
(* to manage have a bit each.                                              *)
ManagedHaveBits == pc = "kernel" => total <= Bits
=============================================================================
