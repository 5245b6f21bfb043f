-------------------------------- MODULE Avl --------------------------------
(***************************************************************************)
(* The intrusive AVL tree (common/ds/avl.c) as operators on a heap: a      *)
(* function from node addresses to records with at least the fields        *)
(* parent, left, right and depth. The client's callbacks are parameters.   *)
(*                                                                         *)
(* The address Null is in the heap's domain, its record being what lies at *)
(* address 0, which the kernel does not map: every dereference of NULL in  *)
(* avl.c leads to a write through it, so a heap whose record at Null has   *)
(* changed is one in which the kernel has panicked.                        *)
(***************************************************************************)
EXTENDS Integers, SequencesExt

CONSTANTS
  Null,
  Comp(_, _, _),  (* Comp(heap, a, b): the compare callback.               *)
  Search(_, _, _),(* Search(heap, n, key): the compare callback of a lookup *)
                  (* of key, at node n.                                    *)
  Update(_, _)    (* Update(heap, n): the heap after the update callback.  *)

(* Body(v), with v evaluated once: TLC passes arguments by name.           *)
With(v, Body(_)) == CHOOSE b \in {Body(x) : x \in {v}} : TRUE

Larger(a, b) == IF a >= b THEN a ELSE b

(* Depth of a subtree counted in nodes, 0 when it is empty.                *)
Levels(h, n) == IF n = Null THEN 0 ELSE h[n].depth + 1

Deepened(h, n) ==
  [h EXCEPT ![n].depth = Larger(Levels(h, h[n].left), Levels(h, h[n].right))]

avl_update(h, n) ==
  IF n = Null THEN h ELSE With(Deepened(h, n), LAMBDA g : Update(g, n))

avl_get_balance_factor(h, n) == Levels(h, h[n].left) - Levels(h, h[n].right)

SetParent(h, n, p) == IF n = Null THEN h ELSE [h EXCEPT ![n].parent = p]

(* The children of a rotated subtree's new root r are updated, then r.     *)
UpdateAround(h, r) ==
  FoldLeft(LAMBDA g, n : avl_update(g, n), h, <<h[r].left, h[r].right, r>>)

Other(side) == IF side = "left" THEN "right" ELSE "left"

(* Mutant: the new root of the subtree keeps its old parent.               *)
RotateKeepsParent(h, n, side) ==
  LET r     == h[n][side]
      inner == h[r][Other(side)]
      moved == SetParent([h EXCEPT ![n][side] = inner], inner, n)
  IN  UpdateAround([moved EXCEPT ![r][Other(side)] = n, ![n].parent = r], r)

(* avl_rotate_right (side is "left") and avl_rotate_left, its mirror: the  *)
(* heap after the child of n on that side has become the subtree's root.   *)
Rotate(h, n, side) ==
  LET r     == h[n][side]
      inner == h[r][Other(side)]
      moved == SetParent([h EXCEPT ![n][side] = inner], inner, n)
  IN  UpdateAround([moved EXCEPT ![r][Other(side)] = n, ![r].parent = h[n].parent,
                                 ![n].parent = r], r)

(* Mutant: an imbalance of two is tolerated.                               *)
CheckAndBalanceLate(h, n) ==
  LET balance == avl_get_balance_factor(h, n)
      side    == IF balance > 0 THEN "left" ELSE "right"
  IN  IF balance \in -2 .. 2 THEN [h |-> h, n |-> n]
      ELSE [h |-> Rotate(h, n, side), n |-> h[n][side]]

(* The subtree at n leans to this side, and its child there leans strictly *)
(* the same way, so that a single rotation is enough.                      *)
Single(h, n, side) ==
  LET lean == avl_get_balance_factor(h, h[n][side])
  IN  IF side = "left" THEN lean > 0 ELSE lean < 0

(* The heap, and the root of the subtree, after rebalancing it at n.       *)
avl_check_and_balance(h, n) ==
  LET balance == avl_get_balance_factor(h, n)
      side    == IF balance > 0 THEN "left" ELSE "right"
      child   == h[n][side]
      inner   == h[child][Other(side)]
  IN  IF balance \in -1 .. 1 THEN [h |-> h, n |-> n]
      ELSE With(IF Single(h, n, side) THEN h
                ELSE [Rotate(h, child, Other(side)) EXCEPT ![n][side] = inner],
                LAMBDA g : [h |-> Rotate(g, n, side), n |-> g[n][side]])

Rebalanced(h, n) == With(avl_update(h, n), LAMBDA g : avl_check_and_balance(g, n))

(* The child pointer of p that points to x, or else the right one, is set. *)
Relink(h, p, x, c) ==
  IF h[p].left = x THEN [h EXCEPT ![p].left = c] ELSE [h EXCEPT ![p].right = c]

RECURSIVE avl_bubble_update_and_balance(_, _)
(* The heap, and the root of the tree, after the walk up from n.           *)
avl_bubble_update_and_balance(h, n) ==
  IF n = Null THEN [h |-> h, n |-> Null]
  ELSE With(Rebalanced(h, n), LAMBDA b :
         LET p == b.h[b.n].parent
         IN  IF p = Null THEN b
             ELSE avl_bubble_update_and_balance(Relink(b.h, p, n, b.n), p))

RECURSIVE avl_insert_rec(_, _, _)
avl_insert_rec(h, root, x) ==
  With([h EXCEPT ![x].parent = root], LAMBDA h1 :
    LET left == Comp(h1, root, x) > 0
        kid  == IF left THEN h1[root].left ELSE h1[root].right
    IN  With(IF kid = Null THEN [h |-> h1, n |-> x] ELSE avl_insert_rec(h1, kid, x),
             LAMBDA sub : Rebalanced(IF left THEN [sub.h EXCEPT ![root].left = sub.n]
                                             ELSE [sub.h EXCEPT ![root].right = sub.n], root)))

(* The heap and the root (h, n) after avl_insert.                          *)
avl_insert(h, root, x) ==
  IF root = Null THEN [h |-> h, n |-> x] ELSE avl_insert_rec(h, root, x)

RECURSIVE Leftmost(_, _)
Leftmost(h, n) == IF h[n].left = Null THEN n ELSE Leftmost(h, h[n].left)

RECURSIVE Rightmost(_, _)
Rightmost(h, n) == IF h[n].right = Null THEN n ELSE Rightmost(h, h[n].right)

RECURSIVE UpFromRight(_, _)
UpFromRight(h, n) ==
  LET p == h[n].parent
  IN  IF p # Null /\ h[p].right = n THEN UpFromRight(h, p) ELSE p

RECURSIVE UpFromLeft(_, _)
UpFromLeft(h, n) ==
  LET p == h[n].parent
  IN  IF p # Null /\ h[p].left = n THEN UpFromLeft(h, p) ELSE p

avl_first(h, root) == IF root = Null THEN Null ELSE Leftmost(h, root)
avl_last(h, root) == IF root = Null THEN Null ELSE Rightmost(h, root)

(* Mutant: without a right child the parent is taken for the successor.    *)
SuccessorIsParent(h, n) ==
  IF h[n].right # Null THEN Leftmost(h, h[n].right) ELSE h[n].parent

avl_get_successor(h, n) ==
  IF h[n].right # Null THEN Leftmost(h, h[n].right) ELSE UpFromRight(h, n)

avl_get_predecessor(h, n) ==
  IF h[n].left # Null THEN Rightmost(h, h[n].left) ELSE UpFromLeft(h, n)

RECURSIVE avl_get_node_rec(_, _, _)
avl_get_node_rec(h, n, key) ==
  IF n = Null THEN Null
  ELSE LET c == Search(h, n, key)
       IN  IF c = 0 THEN n
           ELSE avl_get_node_rec(h, IF c > 0 THEN h[n].left ELSE h[n].right, key)

-----------------------------------------------------------------------------
Faulted(before, after) == after[Null] # before[Null]

Children(h, n) == {h[n].left, h[n].right} \ {Null}

(* Removal of a node without children: the heap before the cleanup.        *)
Unlink(h, x) == LET p == h[x].parent
                IN  IF p = Null THEN h ELSE Relink(h, p, x, Null)

(* Mutant: the child is lost with its parent.                              *)
SpliceDrops(h, x) == Unlink(h, x)

(* Removal of a node with one child. For the root, the code goes on to the *)
(* test of the missing parent's children after it has set the new root.    *)
Splice(h, x) ==
  LET child == CHOOSE c \in Children(h, x) : TRUE
      p     == h[x].parent
  IN  Relink([h EXCEPT ![child].parent = p], p, x, child)

(* The victim, already removed, takes over the links of x. The parent of x *)
(* is not made to point to it.                                             *)
Replace(h, x, victim) ==
  LET h1 == [h EXCEPT ![victim].left = h[x].left]
      h2 == [h1 EXCEPT ![h1[victim].left].parent = victim]
      h3 == [h2 EXCEPT ![victim].right = h2[x].right]
      h4 == [h3 EXCEPT ![h3[victim].right].parent = victim]
  IN  [h4 EXCEPT ![victim].parent = h4[x].parent]

RECURSIVE avl_remove(_, _, _)
(* The heap and the root (h, n) after avl_remove.                          *)
avl_remove(h, root, x) ==
  LET two    == h[x].left # Null /\ h[x].right # Null
      victim == avl_get_successor(h, x)
  IN  IF root = Null THEN [h |-> h, n |-> Null]
      ELSE With(IF Children(h, x) = {} THEN Unlink(h, x)
                ELSE IF two THEN With(avl_remove(h, root, victim).h,
                                      LAMBDA g : Replace(g, x, victim))
                ELSE Splice(h, x),
                LAMBDA h1 :
                  IF Faulted(h, h1) THEN [h |-> h1, n |-> root]
                  ELSE avl_bubble_update_and_balance(h1, IF two THEN victim ELSE h[x].parent))
=============================================================================
