-------------------------------- MODULE Vma --------------------------------
(***************************************************************************)
(* The virtual memory allocator (memory/vma.c): the kernel's heap range    *)
(* and MMIO range are each cut into regions kept in an AVL tree ordered by *)
(* address and augmented with the largest free region below each node. The *)
(* tree nodes come from a slab that is refilled, while a node is being     *)
(* taken from it, with a page allocated from the heap tree itself.         *)
(*                                                                         *)
(* Addresses and sizes are in pages. The heap is 1 .. HeapPages, the MMIO  *)
(* range follows after a guard page. Frames are abstracted: see pt.        *)
(***************************************************************************)
EXTENDS Integers, Sequences, FiniteSets, SequencesExt

CONSTANTS
  HeapPages,    (* KERNEL_HEAP_SIZE                                        *)
  MmioPages,    (* KERNEL_MMIO_SIZE                                        *)
  SlabNodes,    (* Nodes per slab page: 4096 / sizeof(vm_ds_node).         *)
  MinNodes,     (* MINIMUM_AVAILABLE_NODES                                 *)
  Slabs,        (* Bounds the model: slab pages there are nodes for.       *)
  IntPages,     (* Pages in 2^32 bytes: comparisons return a 32-bit int.   *)
  Wrap,         (* Sizes are modulo this: 2^52 pages in the code.          *)
  Sizes,        (* Region sizes callers ask for.                           *)
  Types         (* Region types callers ask for.                           *)

ASSUME VmaAssumption ==
  /\ {HeapPages, MmioPages, SlabNodes, Slabs, IntPages, Wrap} \subseteq Nat \ {0}
  /\ MinNodes \in Nat
  /\ Sizes \subseteq Nat \ {0}
  /\ Types \subseteq {"regular", "mmio", "unmanaged"}

VARIABLES
  vm,           (* Trees and slab: see the fields in VmaInit.              *)
  pt,           (* Page -> what it is mapped to: "none", "frame" (from the *)
                (* PMM), "zero" (frame 0), "device", "dma".                *)
  sentinel,     (* The bitmap bit of frame 0 is set.                       *)
  panic,        (* The kernel has stopped.                                 *)
  torn,         (* History: avl_remove was used in one of its defective    *)
                (* cases.                                                  *)
  nested,       (* History: the slab was refilled inside a heap request.   *)
  oversize,     (* History: a request exceeded the region chosen for it.   *)
  leftover      (* History: an unmanaged region was freed while mapped.    *)

history == <<torn, nested, oversize, leftover>>
vars == <<vm, pt, sentinel, panic, history>>

MmioStart == HeapPages + 2
HeapRange == 1 .. HeapPages
MmioRange == MmioStart .. (MmioStart + MmioPages - 1)
Pages == HeapRange \cup MmioRange
Trees == {"heap", "mmio"}

Null == 0
NodeIds == 1 .. (SlabNodes * Slabs)

-----------------------------------------------------------------------------
(* Callbacks of the tree.                                                  *)

(* The difference of two addresses, truncated to a signed int.             *)
Truncated(d) == ((d + IntPages \div 2) % IntPages) - IntPages \div 2

vm_avl_comp_addr(h, a, b) == Truncated(h[a].start - h[b].start)

FreeSize(h, n) == IF h[n].type = "free" THEN h[n].size ELSE 0
MaxSlot(h, n) == IF n = Null THEN 0 ELSE h[n].max

Biggest(S) == CHOOSE x \in S : \A y \in S : y <= x

vm_avl_update(h, n) ==
  [h EXCEPT ![n].max =
     Biggest({MaxSlot(h, h[n].left), MaxSlot(h, h[n].right), FreeSize(h, n)})]

(* Mutant: a region is taken to hold the address that follows it.          *)
SearchInclusive(h, n, key) ==
  CASE key.by = "addr" -> Truncated(h[n].start - key.addr)
    [] key.by = "space" ->
         IF h[n].start <= key.addr /\ h[n].start + h[n].size >= key.addr THEN 0
         ELSE IF h[n].start > key.addr THEN 1 ELSE -1
    [] key.by = "max" ->
         IF h[n].size = h[n].max /\ h[n].type = "free" THEN 0
         ELSE IF h[n].left # Null /\ h[h[n].left].max = h[n].max THEN 1 ELSE -1

(* vm_avl_comp_addr, vm_avl_comp_addr_space and vm_avl_comp_max_free_slot  *)
(* as they are used in lookups.                                            *)
Search(h, n, key) ==
  CASE key.by = "addr" -> Truncated(h[n].start - key.addr)
    [] key.by = "space" ->
         IF h[n].start <= key.addr /\ h[n].start + h[n].size > key.addr THEN 0
         ELSE IF h[n].start > key.addr THEN 1 ELSE -1
    [] key.by = "max" ->
         IF h[n].size = h[n].max /\ h[n].type = "free" THEN 0
         ELSE IF h[n].left # Null /\ h[h[n].left].max = h[n].max THEN 1 ELSE -1

T == INSTANCE Avl WITH Comp <- vm_avl_comp_addr, Update <- vm_avl_update

init_vm_ds_node(start, size, type) ==
  [parent |-> Null, left |-> Null, right |-> Null, depth |-> 0,
   start |-> start, size |-> size, type |-> type, max |-> size]

Blank == [init_vm_ds_node(0, 0, "free") EXCEPT !.max = 0]

avl_get_node(s, tree, key) == T!avl_get_node_rec(s.h, s.root[tree], key)
AtAddress(a) == [by |-> "addr", addr |-> a]
Containing(a) == [by |-> "space", addr |-> a]
WorstFit == [by |-> "max", addr |-> 0]

-----------------------------------------------------------------------------
(* Operators from one value of vm to the next.                             *)

(* vma_init: the first slab page is the first heap page.                   *)
VmaInit ==
  LET h0 == [n \in NodeIds \cup {Null} |->
               CASE n = 1 -> init_vm_ds_node(1, 1, "regular")
                 [] n = 2 -> init_vm_ds_node(2, HeapPages - 1, "free")
                 [] n = 3 -> init_vm_ds_node(MmioStart, MmioPages, "free")
                 [] OTHER -> Blank]
      heap == T!With(h0, LAMBDA h : T!avl_insert(h, 1, 2))
  IN  [h |-> heap.h, root |-> [heap |-> heap.n, mmio |-> 3],
       list |-> 4 .. SlabNodes,         (* The nodes of free_list.          *)
       count |-> SlabNodes - 3,         (* free_node_count                  *)
       slabs |-> <<1>>]                 (* Pages that hold nodes.           *)

(* The node at the head of free_list. Which one that is makes no           *)
(* difference, so the list is a set and its least node is taken.           *)
Spare(s) == CHOOSE x \in s.list : \A y \in s.list : x <= y

(* Mutant: the counter is not decremented.                                 *)
PoppedUncounted(s) == [s EXCEPT !.list = @ \ {Spare(s)}, !.h[Spare(s)] = Blank]

Popped(s) == [s EXCEPT !.list = @ \ {Spare(s)}, !.count = @ - 1, !.h[Spare(s)] = Blank]

(* Mutant: the rest of the region starts one page too early.               *)
SplitShort(s, tree, n, x, size, type) ==
  LET h1 == [s.h EXCEPT
               ![x] = init_vm_ds_node(s.h[n].start + size - 1, (s.h[n].size - size) % Wrap, "free"),
               ![n].type = type, ![n].size = size]
  IN  T!With(T!With(h1, LAMBDA g : T!avl_insert(g, s.root[tree], x)),
             LAMBDA r : [s EXCEPT !.h = r.h, !.root[tree] = r.n])

(* Mutant: the size of the rest is signed.                                 *)
SplitSigned(s, tree, n, x, size, type) ==
  LET h1 == [s.h EXCEPT
               ![x] = init_vm_ds_node(s.h[n].start + size, s.h[n].size - size, "free"),
               ![n].type = type, ![n].size = size]
  IN  T!With(T!With(h1, LAMBDA g : T!avl_insert(g, s.root[tree], x)),
             LAMBDA r : [s EXCEPT !.h = r.h, !.root[tree] = r.n])

(* The request takes the start of region n, node x the rest.               *)
Split(s, tree, n, x, size, type) ==
  LET h1 == [s.h EXCEPT
               ![x] = init_vm_ds_node(s.h[n].start + size, (s.h[n].size - size) % Wrap, "free"),
               ![n].type = type, ![n].size = size]
  IN  T!With(T!With(h1, LAMBDA g : T!avl_insert(g, s.root[tree], x)),
             LAMBDA r : [s EXCEPT !.h = r.h, !.root[tree] = r.n])

(* The whole of region n is the request. Its maximum is not updated.       *)
Exact(s, n, type) == [s EXCEPT !.h[n].type = type]

(* The allocation of a slab page: vma_allocate_memory_from_tree within a   *)
(* replenish cycle. The node chosen for it, and the state after.           *)
SlabRegion(s) == avl_get_node(s, "heap", WorstFit)
SlabTaken(s) ==
  LET n == SlabRegion(s)
  IN  IF s.h[n].size = 1 THEN Exact(s, n, "regular")
      ELSE Split(Popped(s), "heap", n, Spare(s), 1, "regular")

(* replenish_slab_from_tree                                                *)
replenish_slab_from_tree(s) ==
  LET k == Len(s.slabs)
      t == SlabTaken(s)
  IN  [t EXCEPT !.list = @ \cup {SlabNodes * k + i : i \in 1 .. SlabNodes},
                !.count = @ + SlabNodes,
                !.slabs = Append(@, s.h[SlabRegion(s)].start)]

Low(s) == s.count < MinNodes

(* alloc_vm_ds_node outside a replenish cycle: the state after.            *)
alloc_vm_ds_node(s) ==
  LET p == Popped(s) IN IF Low(p) THEN replenish_slab_from_tree(p) ELSE p

(* avl_remove in one of the cases in which it goes wrong (module AvlTree). *)
Defective(s, tree, x) ==
  LET kids == T!Children(s.h, x)
  IN  Cardinality(kids) = 2 \/ (x = s.root[tree] /\ kids # {})

(* Node x leaves the tree; its record is scratch until it is used again.   *)
Removed(s, tree, x) ==
  LET r == T!avl_remove(s.h, s.root[tree], x)
  IN  [s EXCEPT !.h = [r.h EXCEPT ![x] = Blank], !.root[tree] = r.n]

IsFree(s, n) == n # Null /\ s.h[n].type = "free"

(* Mutant: the region before n is not looked at.                           *)
BeforeIgnored(s, n) == Null

(* The neighbours of n that are free and are merged with it.               *)
Before(s, n) == LET p == T!avl_get_predecessor(s.h, n) IN IF IsFree(s, p) THEN p ELSE Null
After(s, n) == LET p == T!avl_get_successor(s.h, n) IN IF IsFree(s, p) THEN p ELSE Null

(* Nodes that the coalescing of n removes, in the order of the removals.   *)
Victims(s, n) ==
  (IF After(s, n) # Null THEN <<After(s, n)>> ELSE <<>>)
    \o (IF Before(s, n) # Null THEN <<n>> ELSE <<>>)

(* The sizes and types are set first. With both neighbours free, and with  *)
(* only the one before, n keeps its own type and leaves the tree.          *)
Merged(s, n) ==
  LET keep == IF Before(s, n) # Null THEN Before(s, n) ELSE n
      add  == (IF keep = n THEN 0 ELSE s.h[n].size)
                + (IF After(s, n) = Null THEN 0 ELSE s.h[After(s, n)].size)
  IN  [s EXCEPT !.h[keep].size = @ + add, !.h[keep].type = "free"]

(* The end of vma_free_memory_from_tree: the state, and whether avl_remove *)
(* was used in a defective case.                                           *)
Coalesced(s, tree, n) ==
  LET v == Victims(s, n)
      r == FoldLeft(LAMBDA a, x : [s |-> Removed(a.s, tree, x),
                                   torn |-> a.torn \/ Defective(a.s, tree, x)],
                    [s |-> Merged(s, n), torn |-> FALSE], v)
  IN  [r EXCEPT !.s.list = @ \cup {v[i] : i \in 1 .. Len(v)}, !.s.count = @ + Len(v)]

-----------------------------------------------------------------------------
Init ==
  /\ vm = VmaInit
  /\ pt = [p \in Pages |-> IF p = 1 THEN "frame" ELSE "none"]
  /\ sentinel = TRUE
  /\ panic = FALSE
  /\ torn = FALSE /\ nested = FALSE /\ oversize = FALSE /\ leftover = FALSE

TreeOf(type) == IF type = "regular" THEN "heap" ELSE "mmio"
Region(h, n) == h[n].start .. (h[n].start + h[n].size - 1)

(* What the backing of a new region does to the page tables. An MMIO       *)
(* region is mapped by one vmm_map call, which stops at a mapped page; the *)
(* caller of an unmanaged one maps its pages one by one, ignoring errors.  *)
Backed(m, start, size, type) ==
  LET pages == (start .. (start + size - 1)) \cap Pages
  IN  [p \in Pages |->
        CASE p \in pages /\ type = "mmio" /\ \A q \in pages : q <= p => m[q] = "none" -> "device"
          [] p \in pages /\ type = "unmanaged" /\ m[p] = "none" -> "dma"
          [] OTHER -> m[p]]

(* A slab page is written as soon as it is allocated.                      *)
SlabTouched(s) == [p \in Pages |-> IF \E i \in 1 .. Len(s.slabs) : s.slabs[i] = p
                                     THEN "frame" ELSE pt[p]]

Request(type) == avl_get_node(vm, TreeOf(type), WorstFit)

(* NULL is returned.                                                       *)
AllocNone(size, type) ==
  /\ ~panic /\ Request(type) = Null
  /\ UNCHANGED vars

AllocExact(size, type) ==
  /\ ~panic /\ Request(type) # Null
  /\ vm.h[Request(type)].size = size
  /\ vm' = Exact(vm, Request(type), type)
  /\ pt' = Backed(pt, vm.h[Request(type)].start, size, type)
  /\ UNCHANGED <<sentinel, panic, history>>

(* The region is chosen before the node for the rest is taken, and the     *)
(* taking may refill the slab from the heap tree.                          *)
AllocSplit(size, type) ==
  /\ ~panic /\ Request(type) # Null
  /\ vm.h[Request(type)].size # size
  /\ Low(Popped(vm)) => SlabRegion(Popped(vm)) # Null /\ Len(vm.slabs) < Slabs
  /\ \E n \in {Request(type)}, s \in {alloc_vm_ds_node(vm)} :
         /\ vm' = Split(s, TreeOf(type), n, Spare(vm), size, type)
         /\ pt' = Backed(SlabTouched(s), vm.h[n].start, size, type)
         /\ nested' = (nested \/ (type = "regular" /\ Low(Popped(vm))))
         /\ oversize' = (oversize \/ size > vm.h[n].size)
  /\ UNCHANGED <<sentinel, panic, torn, leftover>>

(* The slab cannot be refilled: the code writes through NULL.              *)
AllocPanic(size, type) ==
  /\ ~panic /\ Request(type) # Null
  /\ vm.h[Request(type)].size # size
  /\ Low(Popped(vm)) /\ SlabRegion(Popped(vm)) = Null
  /\ panic' = TRUE
  /\ UNCHANGED <<vm, pt, sentinel, history>>

-----------------------------------------------------------------------------
(* vma_free_memory_from_ktree. Callers never hold the address of a slab    *)
(* page.                                                                   *)
TreeAt(a) == IF a \in HeapRange THEN "heap" ELSE "mmio"
Freed(a) == avl_get_node(vm, TreeAt(a), AtAddress(a))

FreeUnknown(a) ==
  /\ ~panic /\ Freed(a) = Null
  /\ panic' = TRUE
  /\ UNCHANGED <<vm, pt, sentinel, history>>

(* Each page of a regular region that was never touched gives frame 0 to   *)
(* pmm_free_frames; the second one is a double free.                       *)
Untouched(n) == {p \in Region(vm.h, n) : pt[p] = "none"}

(* Mutant: the mapping of a device stays.                                  *)
UnmappedRegularOnly == {"regular"}

(* Types of the regions that are unmapped when they are freed.             *)
UnmappedTypes == {"regular", "mmio"}

FreeRegion(a) ==
  /\ ~panic /\ Freed(a) # Null
  /\ \A i \in 1 .. Len(vm.slabs) : vm.slabs[i] # a
  /\ \E n \in {Freed(a)}, c \in {Coalesced(vm, TreeAt(a), Freed(a))} :
     LET type == vm.h[n].type
         lost == IF type = "regular" THEN Cardinality(Untouched(n)) ELSE 0
     IN  /\ sentinel' = (sentinel /\ lost = 0)
         /\ panic' = (lost > 1 \/ T!Faulted(vm.h, c.s.h))
         /\ vm' = IF lost > 1 THEN vm ELSE c.s
         /\ torn' = (torn \/ c.torn)
         /\ leftover' = (leftover \/ type = "unmanaged")
         /\ pt' = [p \in Pages |-> IF p \in Region(vm.h, n) /\ type \in UnmappedTypes
                                     THEN "none" ELSE pt[p]]
  /\ UNCHANGED <<nested, oversize>>

(* vma_demand_paging on the first access to a page of the heap.            *)
TouchPage(p) ==
  /\ ~panic /\ pt[p] = "none"
  /\ LET n == avl_get_node(vm, "heap", Containing(p))
     IN  IF n # Null /\ vm.h[n].type = "regular"
           THEN pt' = [pt EXCEPT ![p] = "frame"] /\ UNCHANGED panic
           ELSE panic' = TRUE /\ UNCHANGED pt
  /\ UNCHANGED <<vm, sentinel, history>>

Halted == panic /\ UNCHANGED vars

Next ==
  \/ \E size \in Sizes, type \in Types :
       AllocNone(size, type) \/ AllocExact(size, type)
         \/ AllocSplit(size, type) \/ AllocPanic(size, type)
  \/ \E a \in Pages : FreeUnknown(a) \/ FreeRegion(a)
  \/ \E p \in HeapRange : TouchPage(p)
  \/ Halted

Spec == Init /\ [][Next]_vars

(* Bounds the model: nothing is claimed after one of these.                *)
Sound == ~torn /\ ~nested /\ ~oversize /\ sentinel

-----------------------------------------------------------------------------
(* PROPERTIES                                                              *)

RECURSIVE Under(_, _)
(* Nodes of the subtree at n.                                              *)
Under(h, n) == IF n = Null THEN {} ELSE {n} \cup Under(h, h[n].left) \cup Under(h, h[n].right)

InTree(tree) == Under(vm.h, vm.root[tree])
Extent(tree) == IF tree = "heap" THEN HeapRange ELSE MmioRange

TypeOK ==
  /\ \A n \in NodeIds :
       /\ vm.h[n].size \in 0 .. (Wrap - 1)
       /\ vm.h[n].type \in {"free", "regular", "mmio", "unmanaged"}
  /\ pt \in [Pages -> {"none", "frame", "device", "dma"}]

Tiled ==
  \A tree \in Trees :
    /\ \A n \in InTree(tree) : vm.h[n].size > 0 /\ Region(vm.h, n) \subseteq Extent(tree)
    /\ \A p \in Extent(tree) : \E n \in InTree(tree) : p \in Region(vm.h, n)
    /\ \A n, m \in InTree(tree) :
         n # m => /\ Region(vm.h, n) \cap Region(vm.h, m) = {}
                  /\ ~(/\ vm.h[n].type = "free" /\ vm.h[m].type = "free"
                       /\ vm.h[n].start + vm.h[n].size = vm.h[m].start)

(* What vma_demand_paging finds for an address of the heap.                *)
DemandLookup ==
  \A p \in HeapRange :
    LET n == avl_get_node(vm, "heap", Containing(p))
    IN  n \in InTree("heap") /\ p \in Region(vm.h, n)

(* Splitting and coalescing lose no address and give none away twice: the  *)
(* regions of a tree tile its range, free regions never touch, and for     *)
(* every address of the heap vma_demand_paging finds the region that holds *)
(* it, whatever rotations the tree went through. Sizes keep their width.   *)
Tiling == TypeOK /\ (Sound => Tiled /\ DemandLookup)

(* No node is lost or used twice, even when taking a node for an MMIO      *)
(* region refills the slab from the heap tree: every node of a slab is in  *)
(* one tree or in the free list, and the pages that hold nodes stay mapped *)
(* in regions of their own.                                                *)
NodesConserved ==
  Sound =>
    /\ InTree("heap") \cap InTree("mmio") = {}
    /\ vm.list \cap (InTree("heap") \cup InTree("mmio")) = {}
    /\ Cardinality(vm.list) = vm.count
    /\ vm.list \cup InTree("heap") \cup InTree("mmio") = 1 .. (SlabNodes * Len(vm.slabs))
    /\ \A i \in 1 .. Len(vm.slabs) :
         /\ pt[vm.slabs[i]] = "frame"
         /\ \E n \in InTree("heap") :
              vm.h[n].start = vm.slabs[i] /\ vm.h[n].size = 1 /\ vm.h[n].type = "regular"

(* Both at once, for the instance in which taking a node refills the slab  *)
(* from the tree that is being changed (vma.c:314): no address and no node *)
(* is lost or has two owners.                                              *)
RegionsConserved == Tiling /\ NodesConserved

(* The page tables agree with the regions: the pages of an MMIO region all *)
(* reach its device, and a free region has no mapping left.                *)
MappingsMatch ==
  \A n \in InTree("mmio"), p \in MmioRange :
    p \in Region(vm.h, n) =>
      /\ vm.h[n].type = "mmio" => pt[p] = "device"
      /\ vm.h[n].type = "free" => pt[p] = "none"
MappingsAgree == Sound /\ ~leftover => MappingsMatch

-----------------------------------------------------------------------------
(* What the comments and messages of the code say.                         *)

(* vma.c lines 143 and 150: the request gets a part of the region, and the *)
(* new node is the hole that remains.                                      *)
RefillKeepsTiling == ~torn /\ ~oversize /\ sentinel => Tiled

(* vma.c line 139: a request fails because the tree is out of contiguous   *)
(* virtual memory.                                                         *)
FailsOnlyWhenOut ==
  Sound => \A size \in Sizes, type \in Types :
    Request(type) = Null => \A n \in InTree(TreeOf(type)) : FreeSize(vm.h, n) < size

(* vma.c line 139, the converse: a request larger than every free region   *)
(* cannot be fulfilled.                                                    *)
SucceedsOnlyWhenFits == ~oversize

(* efi.c line 119: frame 0 is a sentinel; freeing a region never frees it. *)
SentinelKept == sentinel

(* avl.h line 14: a comparison is positive exactly when a > b.             *)
ComparesAddresses ==
  \A a, b \in InTree("heap") :
    (vm_avl_comp_addr(vm.h, a, b) > 0) = (vm.h[a].start > vm.h[b].start)

(* kmalloc.c lines 145 and 149: kmap_mmio returns a pointer to the mapped  *)
(* device area.                                                            *)
MmioIsMapped ==
  Sound => \A n \in InTree("mmio") :
    vm.h[n].type = "mmio" => \A p \in Region(vm.h, n) : pt[p] = "device"
=============================================================================
