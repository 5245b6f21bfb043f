------------------------------ MODULE Kmalloc ------------------------------
(***************************************************************************)
(* The kernel heap (kmalloc and kfree of memory/kmalloc.c): pages cut into *)
(* blocks of one size, each page on the free list (it has a free block) or *)
(* on the full list of its bucket, both doubly linked through the          *)
(* descriptor at the start of the page.                                    *)
(*                                                                         *)
(* Pages come from the VMA, which is taken to hand out any run of unused   *)
(* pages or NULL. A pointer is a page and an offset in it. The chain of a  *)
(* page's free blocks is a set, of which the least block is taken: no      *)
(* property tells apart which free block a caller gets.                    *)
(***************************************************************************)
EXTENDS KmallocSizes, FiniteSets, FiniteSetsExt

CONSTANTS
  PageIds,      (* Pages of the kernel heap range.                         *)
  Sizes,        (* Sizes that callers ask for.                             *)
  MaxHeld       (* Bounds the model: blocks held once unfilled is true.    *)

ASSUME PageAssumption == PageIds \subseteq Nat \ {0} /\ Sizes \cup {MaxHeld} \subseteq Nat

Null == 0

VARIABLES
  page,         (* Page -> descriptor, for the pages of the heap.          *)
  heap,         (* Pages that are cut into blocks.                         *)
  free_page_list,
  full_page_list,
  held,         (* History: what callers hold, as [page, offset, size].    *)
  unfilled,     (* History: a block of a full page has been freed.         *)
  broken        (* The code has used a descriptor that is not one: it has  *)
                (* faulted, or written to memory that is not its own.      *)

lists == <<free_page_list, full_page_list>>
vars == <<page, heap, lists, held, unfilled, broken>>

NoPage == [bucket |-> 0, used |-> 0, free |-> {}, prev |-> Null, next |-> Null]

(* kmalloc_init                                                            *)
Init ==
  /\ page = [p \in PageIds |-> NoPage]
  /\ heap = {}
  /\ free_page_list = [b \in Buckets |-> Null]
  /\ full_page_list = [b \in Buckets |-> Null]
  /\ held = {}
  /\ unfilled = FALSE
  /\ broken = FALSE

(* Pages that back a request for whole pages, and those the VMA has left.  *)
Pages(x) == x.page .. (x.page + (rounded_size(x.size) \div PageBytes) - 1)
Unused == PageIds \ (heap \cup UNION {Pages(x) : x \in {y \in held : y.offset = 0}})

Break == broken' = TRUE /\ UNCHANGED <<page, heap, lists, held, unfilled>>

-----------------------------------------------------------------------------
(* kmalloc                                                                 *)

SetPrev(pg, p, q) == IF p = Null THEN pg ELSE [pg EXCEPT ![p].prev = q]

(* The first free block of p is taken.                                     *)
Took(pg, p) == [pg EXCEPT ![p].used = @ + 1, ![p].free = @ \ {Min(@)}]
Fills(pg, p) == pg[p].used + 1 = total_blocks(pg[p].bucket)

(* p, the head of the free list, becomes the head of the full list.        *)
MovedToFull(pg, p, b) ==
  [SetPrev(SetPrev(pg, pg[p].next, Null), full_page_list[b], p)
     EXCEPT ![p].prev = Null, ![p].next = full_page_list[b]]

(* Descriptors that are written when p is taken from, besides its own.     *)
Touched(pg, p, b) == IF Fills(pg, p) THEN {pg[p].next, full_page_list[b]} \ {Null} ELSE {}

Take(pg, p, b, size) ==
  /\ held' = held \cup {[page |-> p, offset |-> Min(pg[p].free), size |-> size]}
  /\ IF Fills(pg, p)
       THEN /\ page' = MovedToFull(Took(pg, p), p, b)
            /\ free_page_list' = [free_page_list EXCEPT ![b] = pg[p].next]
            /\ full_page_list' = [full_page_list EXCEPT ![b] = p]
       ELSE /\ page' = Took(pg, p)
            /\ free_page_list' = [free_page_list EXCEPT ![b] = p]
            /\ UNCHANGED full_page_list
  /\ UNCHANGED <<unfilled, broken>>

kmalloc_zero(size) == ~broken /\ size = 0 /\ UNCHANGED vars

kmalloc_whole(size) ==
  /\ ~broken /\ size # 0 /\ get_bucket_from_size(size) = Whole
  /\ \E p \in Unused :
       LET x == [page |-> p, offset |-> 0, size |-> size]
       IN  Pages(x) \subseteq Unused /\ held' = held \cup {x}
  /\ UNCHANGED <<page, heap, lists, unfilled, broken>>

(* The bucket has a page on its free list. A page there without a free     *)
(* block has the NULL at the end of its list followed.                     *)
kmalloc_block(size) ==
  LET b == get_bucket_from_size(size)
      p == free_page_list[b]
  IN  /\ ~broken /\ size # 0 /\ b # Whole /\ p # Null
      /\ IF p \in heap /\ page[p].free # {} /\ Touched(page, p, b) \subseteq heap
           THEN Take(page, p, b, size) /\ UNCHANGED heap
           ELSE Break

(* allocate_page_for_bucket: the new page is the only one of the list.     *)
NewPage(b) == [NoPage EXCEPT !.bucket = b, !.free = Blocks(b)]

kmalloc_new_page(size) ==
  LET b == get_bucket_from_size(size)
  IN  /\ ~broken /\ size # 0 /\ b # Whole /\ free_page_list[b] = Null
      /\ \E p \in Unused :
           /\ heap' = heap \cup {p}
           /\ Take([page EXCEPT ![p] = NewPage(b)], p, b, size)

(* The VMA returns NULL.                                                   *)
kmalloc_null(size) ==
  /\ ~broken /\ size # 0
  /\ get_bucket_from_size(size) # Whole => free_page_list[get_bucket_from_size(size)] = Null
  /\ UNCHANGED vars

-----------------------------------------------------------------------------
(* kfree of what a caller holds.                                           *)

kfree_whole(x) ==
  /\ ~broken /\ x.offset = 0
  /\ held' = held \ {x}
  /\ UNCHANGED <<page, heap, lists, unfilled, broken>>

Given(x) == [page EXCEPT ![x.page].used = @ - 1, ![x.page].free = @ \cup {x.offset}]

(* Descriptors after p has left the list it is in, and the list heads of   *)
(* its bucket.                                                             *)
Unlinked(pg, p) ==
  LET prev == pg[p].prev
      next == pg[p].next
  IN  SetPrev(IF prev = Null THEN pg ELSE [pg EXCEPT ![prev].next = next], next, prev)

(* Mutant: the list keeps its head.                                        *)
HeadsUnchanged(heads, p) == heads

HeadsAfter(heads, p) ==
  IF page[p].prev = Null THEN [heads EXCEPT ![page[p].bucket] = page[p].next] ELSE heads

Neighbours(p) == {page[p].prev, page[p].next} \ {Null}

Full(p) == page[p].used = total_blocks(page[p].bucket)

(* Mutant: a block that is given back stays counted.                       *)
kfree_block_counted(x) ==
  /\ ~broken /\ x.offset # 0
  /\ ~Full(x.page) /\ page[x.page].used # 1
  /\ page' = [page EXCEPT ![x.page].free = @ \cup {x.offset}]
  /\ held' = held \ {x}
  /\ UNCHANGED <<heap, lists, unfilled, broken>>

(* The page neither was full nor becomes empty.                            *)
kfree_block(x) ==
  /\ ~broken /\ x.offset # 0
  /\ ~Full(x.page) /\ page[x.page].used # 1
  /\ page' = Given(x)
  /\ held' = held \ {x}
  /\ UNCHANGED <<heap, lists, unfilled, broken>>

(* The page was full. It leaves the full list of its bucket and is then    *)
(* put at the head of the full list of bucket 0. If the bucket has a free  *)
(* list, the head of its full list, NULL or not, is written to.            *)
kfree_full(x) ==
  LET p    == x.page
      b    == page[p].bucket
      full == HeadsAfter(full_page_list, p)
      pg   == Unlinked(Given(x), p)
      head == IF free_page_list[b] # Null THEN {full[b]} ELSE {}
  IN  /\ ~broken /\ x.offset # 0 /\ Full(p)
      /\ IF Neighbours(p) \cup head \subseteq heap
           THEN /\ page' = [q \in PageIds |->
                     IF q = p THEN [pg[p] EXCEPT !.prev = Null, !.next = full[0]]
                     ELSE IF q \in head THEN [pg[q] EXCEPT !.prev = p] ELSE pg[q]]
                /\ full_page_list' = [full EXCEPT ![0] = p]
                /\ held' = held \ {x}
                /\ unfilled' = TRUE
                /\ UNCHANGED <<heap, free_page_list, broken>>
           ELSE Break

(* The page becomes empty and goes back to the VMA.                        *)
kfree_cull(x) ==
  LET p == x.page
  IN  /\ ~broken /\ x.offset # 0 /\ ~Full(p) /\ page[p].used = 1
      /\ IF Neighbours(p) \subseteq heap
           THEN /\ page' = [Unlinked(page, p) EXCEPT ![p] = NoPage]
                /\ free_page_list' = HeadsAfter(free_page_list, p)
                /\ heap' = heap \ {p}
                /\ held' = held \ {x}
                /\ UNCHANGED <<full_page_list, unfilled, broken>>
           ELSE Break

Stopped == broken /\ UNCHANGED vars

Next ==
  \/ \E size \in Sizes :
       \/ kmalloc_zero(size) \/ kmalloc_whole(size) \/ kmalloc_block(size)
       \/ kmalloc_new_page(size) \/ kmalloc_null(size)
  \/ \E x \in held : kfree_whole(x) \/ kfree_block(x) \/ kfree_full(x) \/ kfree_cull(x)
  \/ Stopped

Spec == Init /\ [][Next]_vars

(* Bounds the model: after the defect of kfree_full, MaxHeld blocks.       *)
Bounded == unfilled => Cardinality(held) <= MaxHeld

-----------------------------------------------------------------------------
(* PROPERTIES                                                              *)

TypeOK ==
  /\ heap \subseteq PageIds
  /\ page \in [PageIds -> [bucket : Buckets, used : Nat, free : SUBSET (1 .. (PageBytes - 1)),
                           prev : PageIds \cup {Null}, next : PageIds \cup {Null}]]
  /\ free_page_list \in [Buckets -> PageIds \cup {Null}]
  /\ full_page_list \in [Buckets -> PageIds \cup {Null}]
  /\ unfilled \in BOOLEAN /\ broken \in BOOLEAN

(* Offsets in page p that callers hold.                                    *)
HeldIn(p) == {x.offset : x \in {y \in held : y.page = p /\ y.offset # 0}}

(* Bytes that what a caller holds covers.                                  *)
Bytes(x) == (x.page * PageBytes + x.offset) .. (x.page * PageBytes + x.offset + x.size - 1)
Header(p) == (p * PageBytes) .. (p * PageBytes + HeaderBytes - 1)

Separate ==
  /\ \A x, y \in held : x # y => Bytes(x) \cap Bytes(y) = {}
  /\ \A x \in held, p \in heap : Bytes(x) \cap Header(p) = {}

(* Whatever order kmalloc and kfree are called in, and even after the      *)
(* lists have gone wrong, every block of a heap page is either held by one *)
(* caller or in the page's free list, blocks_in_use counts the held ones,  *)
(* and the page goes back to the VMA with its last block and not before.   *)
(* Up to the first kfree that takes a page off a full list, callers share  *)
(* no byte with each other or with a descriptor.                           *)
BlocksConserved ==
  /\ TypeOK
  /\ \A x \in held : x.offset # 0 => x.page \in heap
  /\ \A p \in heap :
       /\ HeldIn(p) \cup page[p].free = Blocks(page[p].bucket)
       /\ HeldIn(p) \cap page[p].free = {}
       /\ Cardinality(HeldIn(p)) = page[p].used
       /\ page[p].used > 0
  /\ ~unfilled => Separate

(* The pages of a list, in order: its head and what next leads to.         *)
Follow(head) ==
  LET at[k \in 0 .. Cardinality(PageIds)] ==
        IF k = 0 THEN head ELSE IF at[k - 1] = Null THEN Null ELSE page[at[k - 1]].next
  IN  at
Listed(head) == {Follow(head)[k] : k \in DOMAIN Follow(head)} \ {Null}

Linked(head) ==
  /\ Follow(head)[Cardinality(PageIds)] = Null
  /\ \A k \in DOMAIN Follow(head) :
       Follow(head)[k] # Null =>
         page[Follow(head)[k]].prev = IF k = 0 THEN Null ELSE Follow(head)[k - 1]

(* The free list of a bucket holds its pages with a free block, the full   *)
(* list the others, and both are properly linked in both directions. A new *)
(* page is therefore only asked for when no block is left. This holds up   *)
(* to the first kfree that takes a page off a full list.                   *)
ListsExact ==
  ~unfilled /\ ~broken =>
    \A b \in Buckets :
      /\ Linked(free_page_list[b]) /\ Linked(full_page_list[b])
      /\ Listed(free_page_list[b]) = {p \in heap : page[p].bucket = b /\ ~Full(p)}
      /\ Listed(full_page_list[b]) = {p \in heap : page[p].bucket = b /\ Full(p)}

-----------------------------------------------------------------------------
(* What the comments of kmalloc.c say.                                     *)

(* Line 117: a page that is full no more is inserted at the head of the    *)
(* free list.                                                              *)
UnfilledIsFree ==
  [][\A x \in held : kfree_full(x) /\ ~broken' => free_page_list'[page[x.page].bucket] = x.page]_vars

(* Line 84: kfree frees the block that the pointer points to.              *)
KfreeReturns == [][broken' => \A x \in held : ~kfree_full(x)]_vars

(* Line 28: kmalloc allocates a block of the size asked for.               *)
BlockHasSize ==
  \A x \in held : x.offset # 0 => x.size <= bucket_size(page[x.page].bucket)
=============================================================================
