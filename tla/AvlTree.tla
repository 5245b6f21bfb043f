------------------------------ MODULE AvlTree ------------------------------
(***************************************************************************)
(* A tree of common/ds/avl.c under insertions and removals by its clients, *)
(* with integer keys: node k has key k.                                    *)
(***************************************************************************)
EXTENDS Integers, FiniteSets

CONSTANT MaxKey   (* Keys are 1 .. MaxKey.                                 *)

ASSUME KeyAssumption == MaxKey \in Nat

VARIABLES
  h,              (* The nodes' records.                                   *)
  root,           (* tree->root                                            *)
  removed,        (* History: some node has been removed.                  *)
  torn,           (* History: a node of two children, or a root of one     *)
                  (* child, has been removed.                              *)
  panic           (* NULL has been dereferenced.                           *)

vars == <<h, root, removed, torn, panic>>

Keys == 1 .. MaxKey
Null == 0

KeyComp(heap, a, b) == a - b
NoUpdate(heap, n) == heap

T == INSTANCE Avl WITH Comp <- KeyComp, Search <- KeyComp, Update <- NoUpdate

(* A node after avl_init.                                                  *)
avl_init == [parent |-> Null, left |-> Null, right |-> Null, depth |-> 0]

RECURSIVE Under(_, _)
(* Nodes of the subtree at n.                                              *)
Under(heap, n) ==
  IF n = Null THEN {}
  ELSE {n} \cup Under(heap, heap[n].left) \cup Under(heap, heap[n].right)

Init ==
  /\ h = [k \in Keys \cup {Null} |-> avl_init]
  /\ root = Null
  /\ removed = FALSE /\ torn = FALSE /\ panic = FALSE

Insert(k) ==
  /\ ~panic /\ k \notin Under(h, root)
  /\ LET r == T!avl_insert([h EXCEPT ![k] = avl_init], root, k)
     IN  h' = r.h /\ root' = r.n
  /\ UNCHANGED <<removed, torn, panic>>

Defective(k) ==
  Cardinality(T!Children(h, k)) = 2 \/ (k = root /\ T!Children(h, k) # {})

(* The record of the removed node keeps its links, as in the code, until   *)
(* the node is initialised again; they are reset here because no one reads *)
(* them.                                                                   *)
Remove(k) ==
  /\ ~panic /\ k \in Under(h, root)
  /\ LET r == T!avl_remove(h, root, k)
     IN  /\ h' = IF Defective(k) THEN r.h ELSE [r.h EXCEPT ![k] = avl_init]
         /\ root' = r.n
         /\ panic' = T!Faulted(h, r.h)
  /\ removed' = TRUE
  /\ torn' = (torn \/ Defective(k))

Next == \E k \in Keys : Insert(k) \/ Remove(k)

Spec == Init /\ [][Next]_vars

(* Bounds the model: after a defective removal nothing is claimed.         *)
Whole == ~torn

-----------------------------------------------------------------------------
(* PROPERTIES                                                              *)

Nodes == Under(h, root)

(* The tree at n: search order, parent links and depths are all exact.     *)
Ordered ==
  \A n \in Nodes :
    /\ \A x \in Under(h, h[n].left) : x < n
    /\ \A x \in Under(h, h[n].right) : x > n

Linked ==
  /\ root # Null => h[root].parent = Null
  /\ \A n \in Nodes : \A c \in T!Children(h, n) : h[c].parent = n

Depths ==
  \A n \in Nodes :
    h[n].depth = T!Larger(T!Levels(h, h[n].left), T!Levels(h, h[n].right))

(* avl_next and avl_prev agree with the order of the keys in the tree, and *)
(* avl_get_node finds exactly the keys that are in it.                     *)
Traversal ==
  /\ \A n \in Nodes :
       /\ LET s == T!avl_get_successor(h, n)
          IN  IF s = Null THEN \A x \in Nodes : x <= n
              ELSE s > n /\ \A x \in Nodes : x <= n \/ x >= s
       /\ LET s == T!avl_get_predecessor(h, n)
          IN  IF s = Null THEN \A x \in Nodes : x >= n
              ELSE s < n /\ \A x \in Nodes : x >= n \/ x <= s
  /\ \A k \in Keys :
       T!avl_get_node_rec(h, root, k) = (IF k \in Nodes THEN k ELSE Null)
  /\ Nodes # {} =>
       /\ \A x \in Nodes : T!avl_first(h, root) <= x /\ x <= T!avl_last(h, root)

(* Whatever the order of insertions, rotations and removals of nodes with  *)
(* at most one child that are not the root, the tree stays a search tree   *)
(* whose parent links and depths are exact, and which avl_next, avl_prev,  *)
(* avl_first, avl_last and avl_get_node walk in the order of the keys.     *)
WellFormed == ~torn => ~panic /\ Ordered /\ Linked /\ Depths /\ Traversal

Balanced == \A n \in Nodes : T!avl_get_balance_factor(h, n) \in -1 .. 1

(* Insertions alone keep the AVL balance.                                  *)
InsertBalanced == ~removed => Balanced

(* A removal takes away its node and no other; an insertion adds its node  *)
(* and loses none.                                                         *)
OnlyTheNode ==
  [][\A k \in Keys :
       /\ Insert(k) => Under(h', root') = Nodes \cup {k}
       /\ Remove(k) /\ ~torn' => Under(h', root') = Nodes \ {k}]_vars

-----------------------------------------------------------------------------
(* What the comments of avl.c say.                                         *)

(* Lines 189 to 195: an imbalance that is not left-left is left-right, and *)
(* the double rotation repairs it, so a removal leaves a balanced tree.    *)
RemoveBalanced == ~torn => Balanced

(* Line 81: the victim takes the place of a node of two children.          *)
RemoveOfTwoChildren ==
  [][\A k \in Keys :
       Remove(k) /\ Cardinality(T!Children(h, k)) = 2
       => ~panic' /\ Under(h', root') = Nodes \ {k}]_vars

(* Line 98: the only child of a root that is removed becomes the root.     *)
RemoveOfRoot ==
  [][Remove(root) /\ Cardinality(T!Children(h, root)) = 1
       => ~panic' /\ root' \in T!Children(h, root)]_vars
=============================================================================
