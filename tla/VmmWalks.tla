----------------------------- MODULE VmmWalks -------------------------------
(***************************************************************************)
(* Lemmas about the functions of vmm.c: an allocation of a frame and the   *)
(* walks that create missing tables keep the tables a tree and change no   *)
(* translation, unless they leave the tables; an iteration of vmm_map and  *)
(* demand paging change the translation they are meant to change.          *)
(***************************************************************************)
EXTENDS VmmTables

-----------------------------------------------------------------------------
(* Frames from the physical memory manager.                                *)

(* pmm_allocate_frames answers with a free frame, and zeroes it.           *)
LEMMA Allocation ==
  ASSUME NEW m \in Memories, m.free # {}
  PROVE  /\ Allocated(m) \in m.free /\ Allocated(m) \in Ram
         /\ AfterAllocate(m) = [tab |-> [m.tab EXCEPT ![Allocated(m)] = ZeroTable],
                                free |-> m.free \ {Allocated(m)}, broken |-> m.broken]
         /\ AfterAllocate(m) \in Memories
<1>1. m.free \in SUBSET Nat /\ m.free \subseteq Ram
  BY Facts, Zenon DEF Memories
<1>2. Allocated(m) = CHOOSE f \in m.free : TRUE
  BY Zenon DEF Allocated
<1>3. Allocated(m) \in m.free
  BY <1>2, Zenon
<1>4. AfterAllocate(m) = [m EXCEPT !.free = @ \ {Allocated(m)}, !.tab[Allocated(m)] = ZeroTable]
  BY Zenon DEF AfterAllocate
<1>5. PICK tab, free, broken : m = [tab |-> tab, free |-> free, broken |-> broken]
  BY Zenon DEF Memories
<1>6. AfterAllocate(m) = [tab |-> [m.tab EXCEPT ![Allocated(m)] = ZeroTable],
                          free |-> m.free \ {Allocated(m)}, broken |-> m.broken]
  BY <1>4, <1>5, Zenon
<1>7. Empty \in Entries
  BY Zenon DEF Empty, Entries
<1>8. ZeroTable \in [Slots -> Entries]
  BY <1>7, Zenon DEF ZeroTable
<1>9. m.tab \in [Frames -> [Slots -> Entries]] /\ m.free \in SUBSET Ram /\ m.broken \in BOOLEAN
  BY Zenon DEF Memories
<1>10. [m.tab EXCEPT ![Allocated(m)] = ZeroTable] \in [Frames -> [Slots -> Entries]]
  BY <1>8, <1>9, Zenon
<1>11. AfterAllocate(m) \in Memories
  BY <1>6, <1>9, <1>10 DEF Memories
<1> QED
  BY <1>1, <1>3, <1>6, <1>11, Zenon

(* A frame just allocated is linked nowhere; the tables are as they were.  *)
LEMMA AllocateGrown ==
  ASSUME NEW m \in Memories, NEW lev \in Levels, Shape(m, lev), m.free # {}
  PROVE  /\ Grown(m, lev, AfterAllocate(m), lev)
         /\ Unlinked(AfterAllocate(m), lev, Allocated(m))
         /\ \A v \in VPages : Translate(m, v) # None => Translate(m, v).frame # Allocated(m)
<1> DEFINE a == Allocated(m)
           m1 == AfterAllocate(m)
<1>0. lev[Root] = 4 /\ Root \in Frames /\ Ram \subseteq Frames /\ Root \notin Ram
  BY Facts, Zenon DEF Shape
<1>1. a \in m.free /\ a \in Ram /\ m1 \in Memories
  BY Allocation, Zenon
<1>2. m1 = [tab |-> [m.tab EXCEPT ![a] = ZeroTable], free |-> m.free \ {a}, broken |-> m.broken]
  BY Allocation, Zenon
<1>3. lev[a] = 0
  BY <1>0, <1>1, Zenon DEF Shape
<1> HIDE DEF a, m1
<1>4. m.tab \in [Frames -> [Slots -> Entries]]
  BY Zenon DEF Memories
<1>5. /\ m1.free = m.free \ {a} /\ m1.broken = m.broken
      /\ \A u \in Frames, j \in Slots : lev[u] # 0 => At(m1, u, j) = At(m, u, j)
  BY <1>2, <1>3, <1>4, Zenon DEF At
<1>6. ASSUME NEW u \in Frames, NEW j \in Slots, lev[u] # 0
      PROVE  /\ EntryRight(m1, lev, u, j)
             /\ Linked(m, u, j) => At(m, u, j).frame # a
  <2>1. EntryRight(m, lev, u, j)
    BY <1>6, Zenon DEF Shape
  <2>2. At(m1, u, j) = At(m, u, j) /\ m1.free \subseteq m.free
    BY <1>5, <1>6, Zenon
  <2>3. EntryRight(m1, lev, u, j)
    BY <2>1, <2>2, Zenon DEF EntryRight, Linked
  <2>4. lev[u] \in 0 .. 4
    BY Zenon DEF Levels
  <2>5. CASE lev[u] > 1
    BY <1>1, <1>3, <2>1, <2>3, <2>4, <2>5 DEF EntryRight
  <2>6. CASE lev[u] = 1
    BY <1>1, <2>1, <2>3, <2>6, Zenon DEF EntryRight
  <2> QED
    BY <1>6, <2>3, <2>4, <2>5, <2>6
<1>7. Shape(m1, lev)
  <2>1. \A f \in Frames \ {Root} : lev[f] # 0 => lev[f] < 4 /\ f \in Ram \ m1.free
    BY <1>5, Zenon DEF Shape
  <2>2. \A t, u \in Frames, i, j \in Slots :
          /\ lev[t] # 0 /\ lev[u] # 0 /\ Linked(m1, t, i) /\ Linked(m1, u, j)
          /\ At(m1, t, i).frame = At(m1, u, j).frame /\ At(m1, t, i).frame \in Ram
          => t = u /\ i = j
    BY <1>5 DEF Shape, Linked
  <2> QED
    BY <1>0, <1>6, <2>1, <2>2, Zenon DEF Shape
<1>8. Unlinked(m1, lev, a)
  BY <1>3, <1>5, <1>6, Zenon DEF Unlinked, Linked
<1>9. ASSUME NEW v \in VPages PROVE Translate(m1, v) = Translate(m, v)
  <2>1. /\ Index(v, 1) \in Slots /\ Index(v, 2) \in Slots
        /\ Index(v, 3) \in Slots /\ Index(v, 4) \in Slots
    BY IndexSlots, Zenon
  <2>2. E4(m1, v) = E4(m, v)
    BY <1>0, <1>5, <2>1 DEF E4
  <2>3. ASSUME E4(m, v).present PROVE E3(m1, v) = E3(m, v)
    <3>1. E4(m, v).frame \in Frames /\ lev[E4(m, v).frame] # 0
      BY <1>0, <2>3, PathRight
    <3> QED
      BY <1>5, <2>1, <2>2, <3>1, Zenon DEF E3
  <2>4. ASSUME E4(m, v).present, E3(m, v).present PROVE E2(m1, v) = E2(m, v)
    <3>1. E3(m, v).frame \in Frames /\ lev[E3(m, v).frame] # 0
      BY <1>0, <2>4, PathRight
    <3>2. E3(m1, v) = E3(m, v)
      BY <2>3, <2>4, Zenon
    <3> QED
      BY <1>5, <2>1, <3>1, <3>2, Zenon DEF E2
  <2>5. ASSUME E4(m, v).present, E3(m, v).present, E2(m, v).present, ~E2(m, v).huge PROVE E1(m1, v) = E1(m, v)
    <3>1. E2(m, v).frame \in Frames /\ lev[E2(m, v).frame] # 0
      BY <1>0, <2>5, PathRight
    <3>2. E2(m1, v) = E2(m, v)
      BY <2>4, <2>5, Zenon
    <3> QED
      BY <1>5, <2>1, <3>1, <3>2, Zenon DEF E1
  <2>6. m1 \in Memories
    BY <1>1, Zenon DEF m1
  <2> QED
    BY <1>7, <2>2, <2>3, <2>4, <2>5, <2>6, TranslateIs, Zenon
<1>10. Grown(m, lev, m1, lev)
  <2>1. m1 \in Memories
    BY <1>1, Zenon DEF m1
  <2>2. \A u \in Frames, j \in Slots : lev[u] # 0 => At(m1, u, j) = At(m, u, j)
    BY <1>5, Zenon
  <2>3. m1.free \subseteq m.free /\ m1.broken = m.broken
    BY <1>5, Zenon
  <2> QED
    BY <1>7, <1>9, <2>1, <2>2, <2>3, Zenon DEF Grown
<1>11. ASSUME NEW v \in VPages, Translate(m, v) # None PROVE Translate(m, v).frame # a
  <2>1. E4(m, v).present /\ E3(m, v).present /\ E2(m, v).present
    BY <1>11, TranslateIs, Zenon
  <2>2. Index(v, 1) \in Slots /\ Index(v, 2) \in Slots
    BY IndexSlots, Zenon
  <2>3. CASE E2(m, v).huge
    <3>1. E3(m, v).frame \in Frames /\ lev[E3(m, v).frame] # 0
      BY <1>0, <2>1, PathRight
    <3>2. EntryRight(m, lev, E3(m, v).frame, Index(v, 2))
      BY <2>2, <3>1, Zenon DEF Shape
    <3>3. \A k \in Slots : E2(m, v).frame + k \notin Ram
      BY <2>1, <2>3, <3>2, Zenon DEF EntryRight, E2
    <3>4. Translate(m, v).frame = E2(m, v).frame + (v % Fan)
      BY <2>1, <2>3, TranslateIs
    <3>5. v % Fan = Index(v, 1)
      BY DEF Index
    <3> QED
      BY <1>1, <2>2, <3>3, <3>4, <3>5, Zenon
  <2>4. CASE ~E2(m, v).huge
    <3>1. E1(m, v).present /\ Translate(m, v).frame = E1(m, v).frame
      BY <1>11, <2>1, <2>4, TranslateIs
    <3>2. E2(m, v).frame \in Frames /\ lev[E2(m, v).frame] # 0 /\ ~E1(m, v).huge
      BY <1>0, <2>1, <2>4, <3>1, PathRight
    <3> QED
      BY <1>6, <2>2, <3>1, <3>2, Zenon DEF Linked, E1
  <2> QED
    BY <2>3, <2>4, Zenon
<1> QED
  BY <1>8, <1>10, <1>11, Zenon DEF a, m1

-----------------------------------------------------------------------------
(* vmm_walk_and_crate_next_table, and the walks of vmm_map and vmm_get_pte. *)

(* A walk leaves tables, and a walk that has left the tables stays out.    *)
LEMMA WalkTyped ==
  ASSUME NEW m \in Memories, NEW t, NEW i \in Slots
  PROVE  /\ Walk(m, t, i).m \in Memories
         /\ m.broken => Walk(m, t, i).m.broken
<1> DEFINE e == At(m, t, i)
           f == Allocated(m)
           a == AfterAllocate(m)
           n == [e EXCEPT !.present = TRUE, !.w = TRUE, !.frame = f]
<1>1. PICK tab, free, broken : m = [tab |-> tab, free |-> free, broken |-> broken]
  BY Zenon DEF Memories
<1>2. m.tab \in [Frames -> [Slots -> Entries]] /\ m.free \in SUBSET Ram /\ m.broken \in BOOLEAN
  BY Zenon DEF Memories
<1>3. CASE e.present
  <2>1. Walk(m, t, i).m = [m EXCEPT !.broken = @ \/ e.huge]
    BY <1>3, Zenon DEF Walk
  <2>2. Walk(m, t, i).m = [tab |-> m.tab, free |-> m.free, broken |-> m.broken \/ e.huge]
    BY <1>1, <2>1, Zenon
  <2> QED
    BY <1>2, <2>2 DEF Memories
<1>4. CASE ~e.present
  <2>1. a \in Memories /\ f \in Nat /\ (m.broken => a.broken)
    <3>1. CASE m.free = {}
      <4>1. a = [tab |-> m.tab, free |-> m.free, broken |-> TRUE] /\ f = 0
        BY <1>1, <3>1, Zenon DEF AfterAllocate, Allocated
      <4> QED
        BY <1>2, <4>1 DEF Memories
    <3>2. CASE m.free # {}
      BY <3>2, Allocation, Facts
    <3> QED
      BY <3>1, <3>2, Zenon
  <2>2. Walk(m, t, i).m = SetEntry(a, t, i, n)
    BY <1>4, Zenon DEF Walk
  <2>3. t \in Frames => n \in Entries
    <3>1. t \in Frames => e \in Entries
      BY <1>2, Zenon DEF At
    <3> QED
      BY <2>1, <3>1, Zenon DEF Entries
  <2> HIDE DEF a, n
  <2>4. SetEntry(a, t, i, n) \in Memories /\ SetEntry(a, t, i, n).broken = a.broken
    BY <2>1, <2>3, EntrySet, Zenon
  <2> QED
    BY <2>1, <2>2, <2>4, Zenon
<1> QED
  BY <1>3, <1>4, Zenon

(* A walk that finds a table where it looks for one changes nothing; else  *)
(* it adds a table in a free frame.                                        *)
LEMMA WalkGrown ==
  ASSUME NEW m \in Memories, NEW lev \in Levels, Shape(m, lev),
         NEW t \in Frames, lev[t] > 1, NEW i \in Slots, ~Walk(m, t, i).m.broken
  PROVE  \E lev2 \in Levels :
           /\ Grown(m, lev, Walk(m, t, i).m, lev2)
           /\ Walk(m, t, i).t \in Frames /\ lev2[Walk(m, t, i).t] = lev[t] - 1
           /\ At(Walk(m, t, i).m, t, i).present /\ ~At(Walk(m, t, i).m, t, i).huge
           /\ At(Walk(m, t, i).m, t, i).frame = Walk(m, t, i).t
<1> DEFINE e == At(m, t, i)
           f == Allocated(m)
<1>1. PICK tab, free, broken : m = [tab |-> tab, free |-> free, broken |-> broken]
  BY Zenon DEF Memories
<1>2. m.tab \in [Frames -> [Slots -> Entries]] /\ m.free \in SUBSET Ram /\ m.broken \in BOOLEAN
  BY Zenon DEF Memories
<1>3. e \in Entries /\ EntryRight(m, lev, t, i) /\ lev[t] \in 2 .. 4
  BY <1>2 DEF Shape, Levels, At
<1>4. CASE e.present
  <2>1. Walk(m, t, i).m = [tab |-> m.tab, free |-> m.free, broken |-> m.broken \/ e.huge] /\ Walk(m, t, i).t = e.frame
    BY <1>1, <1>4, Zenon DEF Walk
  <2>2. ~e.huge /\ ~m.broken
    <3>1. Walk(m, t, i).m.broken = (m.broken \/ e.huge)
      BY <2>1
    <3>2. (m.broken \/ e.huge) = FALSE
      BY <3>1, Zenon
    <3> QED
      BY <3>2, Zenon
  <2>3. Walk(m, t, i).m = m
    <3>1. (m.broken \/ e.huge) = m.broken
      BY <1>2, <2>2, Zenon
    <3> QED
      BY <1>1, <2>1, <3>1, Zenon
  <2>4. e.frame \in Ram /\ lev[e.frame] = lev[t] - 1
    BY <1>3, <1>4, <2>2, Zenon DEF EntryRight, Linked
  <2>5. Grown(m, lev, m, lev)
    BY Zenon DEF Grown
  <2> QED
    BY <1>4, <2>1, <2>2, <2>3, <2>4, <2>5, Facts, Zenon
<1>5. CASE ~e.present
  <2> DEFINE a == AfterAllocate(m)
             m2 == SetEntry(a, t, i, LinkTo(f))
             lev2 == [lev EXCEPT ![f] = lev[t] - 1]
  <2>1. e = Empty
    BY <1>3, <1>5, Zenon DEF EntryRight
  <2>2. Walk(m, t, i) = [m |-> m2, t |-> f]
    <3>1. [e EXCEPT !.present = TRUE, !.w = TRUE, !.frame = f] = LinkTo(f)
      <4> HIDE DEF e, f
      <4> QED
        BY <2>1, Zenon DEF LinkTo
    <3> QED
      BY <1>5, <3>1, Zenon DEF Walk
  <2>3. m.free # {}
    <3>1. SUFFICES ASSUME m.free = {} PROVE FALSE
      BY Zenon
    <3>2. a = [tab |-> m.tab, free |-> m.free, broken |-> TRUE] /\ f = 0
      BY <1>1, <3>1, Zenon DEF AfterAllocate, Allocated
    <3>3. a \in Memories /\ a.broken
      BY <1>2, <3>2 DEF Memories
    <3>4. LinkTo(f) \in Entries
      <4>1. 0 \in Nat
        BY Zenon
      <4> QED
        BY <3>2, <4>1, LinkFields, Zenon
    <3> HIDE DEF a
    <3>5. m2.broken
      BY <3>3, <3>4, EntrySet, Zenon
    <3> QED
      BY <2>2, <3>5
  <2>4. /\ f \in m.free /\ f \in Ram /\ f \in Frames /\ f \in Nat /\ f # Root /\ a \in Memories
        /\ a = [tab |-> [m.tab EXCEPT ![f] = ZeroTable], free |-> m.free \ {f}, broken |-> m.broken]
    BY <2>3, Allocation, Facts, Zenon
  <2>5. LinkTo(f) \in Entries
    BY <2>4, LinkFields, Zenon
  <2>6. lev[f] = 0 /\ t # f
    BY <1>3, <2>4 DEF Shape
  <2>7. a.tab[f] = ZeroTable /\ \A u \in Frames : u # f => a.tab[u] = m.tab[u]
    BY <1>2, <2>4
  <2>8. a.free = m.free \ {f} /\ a.broken = m.broken
    BY <2>4
  <2> HIDE DEF a, f
  <2>9. /\ m2 \in Memories /\ m2.free = m.free \ {f} /\ m2.broken = m.broken /\ At(m2, t, i) = LinkTo(f)
        /\ \A u \in Frames, j \in Slots : u # t \/ j # i => At(m2, u, j) = At(a, u, j)
    <3> DEFINE x == LinkTo(f)
    <3> HIDE DEF x
    <3>4. a \in Memories
      BY <2>4, Zenon
    <3>0. x \in Entries /\ m2 = SetEntry(a, t, i, x) /\ x = LinkTo(f)
      BY <2>5, Zenon DEF x
    <3> HIDE DEF m2
    <3>1. m2 \in Memories /\ m2.free = a.free /\ m2.broken = a.broken
      BY <3>0, <3>4, EntrySet
    <3>2. At(m2, t, i) = LinkTo(f)
      BY <3>0, <3>4, EntrySet
    <3>3. \A u \in Frames, j \in Slots : u # t \/ j # i => At(m2, u, j) = At(a, u, j)
      BY <3>0, <3>4, EntrySet
    <3> QED
      BY <2>8, <3>1, <3>2, <3>3, Zenon
  <2>10. \A j \in Slots : At(m2, f, j) = Empty
    <3>1. \A j \in Slots : At(m2, f, j) = At(a, f, j)
      BY <2>4, <2>6, <2>9, Zenon
    <3> HIDE DEF m2
    <3> QED
      BY <2>7, <3>1, Zenon DEF ZeroTable, At
  <2>11. \A u \in Frames, j \in Slots : u # f /\ (u # t \/ j # i) => At(m2, u, j) = At(m, u, j)
    BY <2>7, <2>9, Zenon DEF At
  <2>12. m2.tab[f] = ZeroTable
    <3>1. m2.tab[f] \in [Slots -> Entries]
      BY <2>4, <2>9, Zenon DEF Memories
    <3> QED
      BY <2>10, <3>1, Zenon DEF ZeroTable, At
  <2>13. /\ LinkTo(f).present /\ LinkTo(f).w /\ ~LinkTo(f).huge /\ LinkTo(f).frame = f
         /\ ~Empty.present
    BY Zenon DEF LinkTo, Empty
  <2> HIDE DEF m2
  <2>14. /\ lev2 \in Levels /\ lev2[f] = lev[t] - 1 /\ lev2[f] \in 1 .. 3
         /\ \A u \in Frames : u # f => lev2[u] = lev[u]
    BY <1>3, <2>4 DEF Levels
  <2> HIDE DEF lev2
  <2>15. \A u \in Frames, j \in Slots : lev[u] # 0 /\ Linked(m, u, j) => At(m, u, j).frame # f
    <3>1. SUFFICES ASSUME NEW u \in Frames, NEW j \in Slots, lev[u] # 0, Linked(m, u, j) PROVE At(m, u, j).frame # f
      BY Zenon
    <3>2. EntryRight(m, lev, u, j) /\ lev[u] \in 1 .. 4
      BY <3>1 DEF Shape, Levels
    <3> QED
      BY <2>4, <2>6, <3>1, <3>2 DEF EntryRight
  <2>16. Shape(m2, lev2)
    <3>1. lev2[Root] = 4
      BY <2>4, <2>14, Facts, Zenon DEF Shape
    <3>2. \A g \in Frames \ {Root} : lev2[g] # 0 => lev2[g] < 4 /\ g \in Ram \ m2.free
      BY <2>4, <2>9, <2>14 DEF Shape
    <3>3. ASSUME NEW u \in Frames, NEW j \in Slots, lev2[u] # 0 PROVE EntryRight(m2, lev2, u, j)
      <4>1. CASE u = f
        BY <2>10, <2>13, <4>1, Zenon DEF EntryRight, Linked
      <4>2. CASE u = t /\ j = i
        <5>1. At(m2, u, j) = LinkTo(f) /\ lev2[u] = lev[t]
          BY <2>6, <2>9, <2>14, <4>2, Zenon
        <5> QED
          BY <1>3, <2>4, <2>13, <2>14, <5>1 DEF EntryRight, Linked
      <4>3. CASE u # f /\ (u # t \/ j # i)
        <5>1. At(m2, u, j) = At(m, u, j) /\ lev2[u] = lev[u] /\ lev[u] # 0 /\ lev[u] \in 1 .. 4
          BY <2>11, <2>14, <3>3, <4>3 DEF Levels
        <5>2. EntryRight(m, lev, u, j) /\ At(m, u, j) \in Entries
          BY <1>2, <5>1, Zenon DEF Shape, At
        <5>3. Linked(m, u, j) => At(m, u, j).frame # f
          BY <2>15, <5>1, Zenon
        <5> DEFINE g == At(m, u, j)
        <5>4. /\ ~g.present => g = Empty
              /\ g.present /\ g.huge => lev[u] = 2 /\ \A k \in Slots : g.frame + k \notin Ram
          BY <5>2, Zenon DEF EntryRight
        <5>5. Linked(m, u, j) /\ lev[u] > 1 => g.w /\ g.frame \in Ram /\ lev2[g.frame] = lev[u] - 1
          BY <2>14, <5>2, <5>3, Facts, Zenon DEF EntryRight
        <5>6. Linked(m, u, j) /\ lev[u] = 1 =>
                g.frame # Root /\ (g.frame \in Ram => g.frame \notin m2.free /\ lev2[g.frame] = 0)
          BY <2>9, <2>14, <5>2, <5>3, Facts, Zenon DEF EntryRight
        <5>7. Linked(m2, u, j) <=> Linked(m, u, j)
          BY <5>1, Zenon DEF Linked
        <5> QED
          BY <5>1, <5>4, <5>5, <5>6, <5>7, Zenon DEF EntryRight
      <4> QED
        BY <4>1, <4>2, <4>3, Zenon
    <3>4. ASSUME NEW u \in Frames, NEW x \in Frames, NEW j \in Slots, NEW k \in Slots,
                 lev2[u] # 0, lev2[x] # 0, Linked(m2, u, j), Linked(m2, x, k),
                 At(m2, u, j).frame = At(m2, x, k).frame, At(m2, u, j).frame \in Ram
          PROVE  u = x /\ j = k
      <4>1. u # f /\ x # f
        BY <2>10, <2>13, <3>4, Zenon DEF Linked
      <4>2. lev[u] # 0 /\ lev[x] # 0
        BY <2>14, <3>4, <4>1, Zenon
      <4>3. CASE u = t /\ j = i
        <5>1. At(m2, u, j).frame = f
          BY <2>9, <2>13, <4>3, Zenon
        <5>2. ~(x # t \/ k # i)
          <6>1. SUFFICES ASSUME x # t \/ k # i PROVE FALSE
            BY Zenon
          <6>2. At(m2, x, k) = At(m, x, k)
            BY <2>11, <4>1, <6>1, Zenon
          <6>3. Linked(m, x, k) /\ At(m, x, k).frame = f
            BY <3>4, <5>1, <6>2, Zenon DEF Linked
          <6> QED
            BY <2>15, <4>2, <6>3, Zenon
        <5> QED
          BY <4>3, <5>2, Zenon
      <4>4. CASE x = t /\ k = i
        <5>1. At(m2, x, k).frame = f
          BY <2>9, <2>13, <4>4, Zenon
        <5>2. ~(u # t \/ j # i)
          <6>1. SUFFICES ASSUME u # t \/ j # i PROVE FALSE
            BY Zenon
          <6>2. At(m2, u, j) = At(m, u, j)
            BY <2>11, <4>1, <6>1, Zenon
          <6>3. Linked(m, u, j) /\ At(m, u, j).frame = f
            BY <3>4, <5>1, <6>2, Zenon DEF Linked
          <6> QED
            BY <2>15, <4>2, <6>3, Zenon
        <5> QED
          BY <4>4, <5>2, Zenon
      <4>5. CASE (u # t \/ j # i) /\ (x # t \/ k # i)
        <5>1. At(m2, u, j) = At(m, u, j) /\ At(m2, x, k) = At(m, x, k)
          BY <2>11, <4>1, <4>5, Zenon
        <5>2. Linked(m, u, j) /\ Linked(m, x, k) /\ At(m, u, j).frame = At(m, x, k).frame /\ At(m, u, j).frame \in Ram
          BY <3>4, <5>1, Zenon DEF Linked
        <5> QED
          BY <4>2, <5>2, Zenon DEF Shape
      <4> QED
        BY <4>3, <4>4, <4>5, Zenon
    <3> QED
      BY <3>1, <3>2, <3>3, <3>4, Zenon DEF Shape
  <2>17. \A v \in VPages : Translate(m2, v) = Translate(m, v)
    <3>1. \A u \in Frames, j \in Slots : lev[u] # 0 /\ (u # t \/ j # i) => At(m2, u, j) = At(m, u, j)
      BY <2>6, <2>11, Zenon
    <3> QED
      BY <1>5, <2>4, <2>9, <2>12, <2>14, <2>16, <3>1, TableAdded
  <2>18. Grown(m, lev, m2, lev2)
    <3>1. \A g \in Frames : lev[g] # 0 => lev2[g] = lev[g]
      BY <2>6, <2>14, Zenon
    <3>2. \A g \in Frames : lev2[g] # 0 => lev[g] # 0 \/ g \in m.free
      BY <2>4, <2>14, Zenon
    <3>3. \A u \in Frames, j \in Slots : lev[u] # 0 /\ At(m, u, j).present => At(m2, u, j) = At(m, u, j)
      BY <1>5, <2>6, <2>11, Zenon
    <3>4. \A u \in Frames, j \in Slots :
            lev2[u] # 0 /\ At(m2, u, j).present =>
              (lev[u] # 0 /\ At(m2, u, j) = At(m, u, j)) \/ At(m2, u, j).frame \in m.free
      BY <2>4, <2>9, <2>10, <2>11, <2>13, <2>14
    <3> QED
      BY <2>9, <2>14, <2>16, <2>17, <3>1, <3>2, <3>3, <3>4, Zenon DEF Grown
  <2> QED
    BY <2>2, <2>4, <2>9, <2>13, <2>14, <2>18
<1> QED
  BY <1>4, <1>5, Zenon

(* One level down.                                                         *)
LEMMA WalkDown ==
  ASSUME NEW m \in Memories, NEW lev \in Levels, Shape(m, lev), NEW t \in Frames,
         lev[t] > 1, NEW i \in Slots, NEW r, r = Walk(m, t, i), ~r.m.broken
  PROVE  \E lev2 \in Levels :
           /\ Grown(m, lev, r.m, lev2) /\ r.t \in Frames /\ lev2[r.t] = lev[t] - 1
           /\ At(r.m, t, i).present /\ ~At(r.m, t, i).huge /\ At(r.m, t, i).frame = r.t
  BY WalkGrown, Zenon

(* The root is the table of level 4.                                        *)
LEMMA RootLevel ==
  ASSUME NEW m, NEW lev, Shape(m, lev)
  PROVE  Root \in Frames /\ lev[Root] = 4 /\ lev[Root] > 1
<1>1. lev[Root] = 4
  BY Zenon DEF Shape
<1> QED
  BY <1>1, Facts

(* The walks to a directory and to a table keep the type of the memory and  *)
(* never mend it.                                                           *)
LEMMA ToTyped ==
  ASSUME NEW m \in Memories, NEW v \in VPages
  PROVE  /\ ToPD(m, v).m \in Memories /\ (m.broken => ToPD(m, v).m.broken)
         /\ ToPT(m, v).m \in Memories /\ (ToPD(m, v).m.broken => ToPT(m, v).m.broken)
<1>1. /\ Index(v, 1) \in Slots /\ Index(v, 2) \in Slots
      /\ Index(v, 3) \in Slots /\ Index(v, 4) \in Slots
  BY IndexSlots, Zenon
<1> DEFINE a == Walk(m, Root, Index(v, 4))
           b == ToPD(m, v)
<1>2. a.m \in Memories /\ (m.broken => a.m.broken)
  BY <1>1, WalkTyped, Zenon
<1>3. b = Walk(a.m, a.t, Index(v, 3))
  BY Zenon DEF ToPD
<1> HIDE DEF a, b
<1>4. b.m \in Memories /\ (a.m.broken => b.m.broken)
  BY <1>1, <1>2, <1>3, WalkTyped, Zenon
<1>5. ToPT(m, v) = Walk(b.m, b.t, Index(v, 2))
  BY Zenon DEF ToPT, b
<1>6. ToPT(m, v).m \in Memories /\ (b.m.broken => ToPT(m, v).m.broken)
  BY <1>1, <1>4, <1>5, WalkTyped, Zenon
<1> QED
  BY <1>2, <1>4, <1>6, Zenon DEF b

(* A walk to a page directory.                                             *)
LEMMA ToPDGrown ==
  ASSUME NEW m \in Memories, NEW lev \in Levels, Shape(m, lev), NEW v \in VPages,
         ~ToPD(m, v).m.broken
  PROVE  \E lev2 \in Levels :
           /\ Grown(m, lev, ToPD(m, v).m, lev2)
           /\ ToPD(m, v).t \in Frames /\ lev2[ToPD(m, v).t] = 2
           /\ E4(ToPD(m, v).m, v).present /\ E3(ToPD(m, v).m, v).present
           /\ E3(ToPD(m, v).m, v).frame = ToPD(m, v).t
<1>1. Index(v, 3) \in Slots /\ Index(v, 4) \in Slots
  BY IndexSlots, Zenon
<1>2. PICK a : a = Walk(m, Root, Index(v, 4))
  BY Zenon
<1>3. PICK b : b = ToPD(m, v)
  BY Zenon
<1>4. b = Walk(a.m, a.t, Index(v, 3))
  BY <1>2, <1>3, Zenon DEF ToPD
<1>5. a.m \in Memories /\ ~b.m.broken /\ ~a.m.broken
  BY <1>1, <1>2, <1>3, <1>4, WalkTyped, Zenon
<1>6. Root \in Frames /\ lev[Root] = 4 /\ lev[Root] > 1
  BY RootLevel, Zenon
<1>7. PICK lev1 \in Levels :
        /\ Grown(m, lev, a.m, lev1) /\ a.t \in Frames /\ lev1[a.t] = lev[Root] - 1
        /\ At(a.m, Root, Index(v, 4)).present /\ At(a.m, Root, Index(v, 4)).frame = a.t
  BY <1>1, <1>2, <1>5, <1>6, WalkDown
<1>8. Shape(a.m, lev1) /\ lev1[a.t] = 3 /\ lev1[a.t] > 1
  BY <1>6, <1>7 DEF Grown
<1>9. PICK lev2 \in Levels :
        /\ Grown(a.m, lev1, b.m, lev2) /\ b.t \in Frames /\ lev2[b.t] = lev1[a.t] - 1
        /\ At(b.m, a.t, Index(v, 3)).present /\ At(b.m, a.t, Index(v, 3)).frame = b.t
  BY <1>1, <1>4, <1>5, <1>7, <1>8, WalkDown
<1>10. Grown(m, lev, b.m, lev2)
  BY <1>7, <1>9, GrownTwice, Zenon
<1>11. E4(a.m, v).present /\ E4(a.m, v).frame = a.t
  BY <1>7, Zenon DEF E4
<1>12. E4(b.m, v) = E4(a.m, v)
  BY <1>5, <1>8, <1>9, <1>11, PathKept
<1>13. E3(b.m, v).present /\ E3(b.m, v).frame = b.t
  BY <1>9, <1>11, <1>12, Zenon DEF E3
<1> QED
  BY <1>3, <1>8, <1>9, <1>10, <1>11, <1>12, <1>13

(* A walk on to a page table.                                              *)
LEMMA ToPTGrown ==
  ASSUME NEW m \in Memories, NEW lev \in Levels, Shape(m, lev), NEW v \in VPages,
         ~ToPT(m, v).m.broken
  PROVE  \E lev2 \in Levels :
           /\ Grown(m, lev, ToPT(m, v).m, lev2)
           /\ ToPT(m, v).t \in Frames /\ lev2[ToPT(m, v).t] = 1
           /\ E4(ToPT(m, v).m, v).present /\ E3(ToPT(m, v).m, v).present
           /\ E2(ToPT(m, v).m, v).present /\ ~E2(ToPT(m, v).m, v).huge
           /\ E2(ToPT(m, v).m, v).frame = ToPT(m, v).t
<1>1. Index(v, 2) \in Slots
  BY IndexSlots, Zenon
<1>2. PICK b : b = ToPD(m, v)
  BY Zenon
<1>3. PICK c : c = ToPT(m, v)
  BY Zenon
<1>4. b.m \in Memories /\ ~b.m.broken /\ c.m \in Memories /\ ~c.m.broken
  BY <1>2, <1>3, ToTyped, Zenon
<1>5. c = Walk(b.m, b.t, Index(v, 2))
  BY <1>2, <1>3, Zenon DEF ToPT
<1>6. PICK lev1 \in Levels :
        /\ Grown(m, lev, b.m, lev1) /\ b.t \in Frames /\ lev1[b.t] = 2
        /\ E4(b.m, v).present /\ E3(b.m, v).present /\ E3(b.m, v).frame = b.t
  BY <1>2, <1>4, ToPDGrown, Zenon
<1>7. Shape(b.m, lev1) /\ lev1[b.t] > 1
  BY <1>6 DEF Grown
<1>8. PICK lev2 \in Levels :
        /\ Grown(b.m, lev1, c.m, lev2) /\ c.t \in Frames /\ lev2[c.t] = lev1[b.t] - 1
        /\ At(c.m, b.t, Index(v, 2)).present /\ ~At(c.m, b.t, Index(v, 2)).huge
        /\ At(c.m, b.t, Index(v, 2)).frame = c.t
  BY <1>1, <1>4, <1>5, <1>6, <1>7, WalkDown
<1>9. Grown(m, lev, c.m, lev2)
  BY <1>6, <1>8, GrownTwice, Zenon
<1>10. E4(c.m, v) = E4(b.m, v) /\ E3(c.m, v) = E3(b.m, v)
  <2> DEFINE x == b.m
             y == c.m
  <2>1. x \in Memories /\ Shape(x, lev1) /\ Grown(x, lev1, y, lev2) /\ E4(x, v).present /\ E3(x, v).present
    BY <1>4, <1>6, <1>7, <1>8, Zenon
  <2> HIDE DEF x, y
  <2>2. E4(y, v) = E4(x, v) /\ E3(y, v) = E3(x, v)
    BY <2>1, PathKept
  <2> QED
    BY <2>2, Zenon DEF x, y
<1>11. E2(c.m, v).present /\ ~E2(c.m, v).huge /\ E2(c.m, v).frame = c.t
  BY <1>6, <1>8, <1>10, Zenon DEF E2
<1> QED
  BY <1>3, <1>6, <1>8, <1>9, <1>10, <1>11

-----------------------------------------------------------------------------
(* One iteration of vmm_map, of vmm_unmap and of demand paging.            *)

(* The entry vmm_map writes.                                               *)
Written(e, p, w) == [e EXCEPT !.present = TRUE, !.w = w, !.frame = p]

(* An iteration of vmm_map keeps the type of the memory, and breaks it only *)
(* in its walk.                                                             *)
LEMMA MapSmallTyped ==
  ASSUME NEW m \in Memories, NEW v \in VPages, NEW p \in Nat, NEW w \in BOOLEAN
  PROVE  /\ MapSmall(m, v, p, w).m \in Memories
         /\ MapSmall(m, v, p, w).m.broken = ToPT(m, v).m.broken
<1> DEFINE pt == ToPT(m, v)
           i == Index(v, 1)
           e == At(pt.m, pt.t, i)
           n == Written(e, p, w)
<1>1. pt.m \in Memories /\ i \in Slots
  BY ToTyped, IndexSlots, Zenon
<1>2. MapSmall(m, v, p, w).m = IF e.present THEN pt.m ELSE SetEntry(pt.m, pt.t, i, n)
  BY Zenon DEF MapSmall, Written
<1> HIDE DEF pt, i
<1>3. pt.t \in Frames => e \in Entries
  BY <1>1 DEF Memories, At
<1> HIDE DEF e
<1>4. pt.t \in Frames => n \in Entries
  <2>1. SUFFICES ASSUME pt.t \in Frames PROVE n \in Entries
    BY Zenon
  <2> QED
    BY <1>3, <2>1, Zenon DEF Entries, Written
<1> HIDE DEF n
<1>5. SetEntry(pt.m, pt.t, i, n) \in Memories /\ SetEntry(pt.m, pt.t, i, n).broken = pt.m.broken
  <2> DEFINE a == pt.m
             t == pt.t
  <2>1. a \in Memories /\ (t \in Frames => n \in Entries)
    BY <1>1, <1>4, Zenon
  <2> HIDE DEF a, t
  <2>2. SetEntry(a, t, i, n) \in Memories /\ SetEntry(a, t, i, n).broken = a.broken
    BY <1>1, <2>1, EntrySet
  <2> QED
    BY <2>2, Zenon DEF a, t
<1> QED
  BY <1>1, <1>2, <1>5, Zenon DEF pt

(* An iteration of vmm_map maps page v when nothing does and refuses it     *)
(* when something does; no other page is concerned.                         *)
LEMMA MapSmallRight ==
  ASSUME NEW m \in Memories, NEW lev \in Levels, Shape(m, lev), NEW v \in VPages,
         NEW p \in Nat, p # Root, Unlinked(m, lev, p), NEW w \in BOOLEAN,
         NEW r, r = MapSmall(m, v, p, w), ~r.m.broken
  PROVE  /\ \E lev2 \in Levels : Shape(r.m, lev2)
         /\ r.ok \in BOOLEAN
         /\ r.ok => Translate(m, v) = None /\ Translate(r.m, v) = Mapping(p, w)
         /\ ~r.ok => Translate(m, v) # None /\ Translate(r.m, v) = Translate(m, v)
         /\ \A u \in VPages : u # v => Translate(r.m, u) = Translate(m, u)
<1> DEFINE pt == ToPT(m, v)
           i == Index(v, 1)
           e == At(pt.m, pt.t, i)
           n == Written(e, p, w)
<1>1. ~pt.m.broken
  BY MapSmallTyped, Zenon
<1>2. r = IF e.present THEN [m |-> pt.m, ok |-> FALSE] ELSE [m |-> SetEntry(pt.m, pt.t, i, n), ok |-> TRUE]
  BY Zenon DEF MapSmall, Written
<1>3. PICK lev2 \in Levels :
        /\ Grown(m, lev, pt.m, lev2)
        /\ pt.t \in Frames /\ lev2[pt.t] = 1
        /\ E4(pt.m, v).present /\ E3(pt.m, v).present
        /\ E2(pt.m, v).present /\ ~E2(pt.m, v).huge
        /\ E2(pt.m, v).frame = pt.t
  BY <1>1, ToPTGrown, Zenon
<1>4. e = E1(pt.m, v)
  BY <1>3, Zenon DEF E1
<1> HIDE DEF pt, i
<1>5. pt.m \in Memories /\ Shape(pt.m, lev2) /\ \A u \in VPages : Translate(pt.m, u) = Translate(m, u)
  BY <1>3, Zenon DEF Grown
<1>6. e \in Entries /\ (~e.present => e = Empty)
  BY <1>3, <1>4, <1>5, PathRight
<1> HIDE DEF e
<1>7. CASE e.present
  <2>1. Translate(pt.m, v) = [frame |-> e.frame, w |-> e.w]
    BY <1>3, <1>4, <1>5, <1>7, TranslateIs, Zenon
  <2>2. e.frame \in Nat
    BY <1>6, Zenon DEF Entries
  <2>3. Translate(pt.m, v) # None
    BY <2>1, <2>2 DEF None
  <2>4. r.m = pt.m /\ r.ok = FALSE
    BY <1>2, <1>7
  <2> QED
    BY <1>5, <2>3, <2>4, Zenon
<1>8. CASE ~e.present
  <2>1. Translate(pt.m, v) = None
    BY <1>3, <1>4, <1>5, <1>8, TranslateIs, Zenon
  <2>2. e.huge = FALSE
    BY <1>6, <1>8 DEF Empty
  <2>3. n \in Entries /\ n.present /\ ~n.huge /\ n.frame = p /\ n.w = w
    <3>1. e \in Entries
      BY <1>6, Zenon
    <3>2. n \in Entries
      BY <3>1, Zenon DEF Entries, Written
    <3>3. n.present = TRUE
      BY <3>1, Zenon DEF Entries, Written
    <3>4. n.w = w
      BY <3>1, Zenon DEF Entries, Written
    <3>5. n.huge = e.huge /\ n.frame = p
      BY <3>1, Zenon DEF Entries, Written
    <3> HIDE DEF n
    <3> QED
      BY <2>2, <3>2, <3>3, <3>4, <3>5, Zenon
  <2> HIDE DEF n
  <2>4. Unlinked(pt.m, lev2, p)
    BY <1>3, UnlinkedGrown, Zenon
  <2>5. r.m = SetEntry(pt.m, E2(pt.m, v).frame, Index(v, 1), n) /\ r.ok = TRUE
    BY <1>2, <1>3, <1>8 DEF i
  <2> DEFINE a == pt.m
             b == r.m
  <2>6. /\ a \in Memories /\ Shape(a, lev2)
        /\ E4(a, v).present /\ E3(a, v).present /\ E2(a, v).present /\ ~E2(a, v).huge
        /\ E2(a, v).frame \in Frames /\ b = SetEntry(a, E2(a, v).frame, Index(v, 1), n)
        /\ Index(v, 1) \in Slots
        /\ n.present => ~n.huge /\ n.frame # Root /\ Unlinked(a, lev2, n.frame)
    BY <1>3, <1>5, <2>3, <2>4, <2>5, IndexSlots, Zenon
  <2> HIDE DEF a, b
  <2>7. Rewritten(a, b, E2(a, v).frame, Index(v, 1), n)
    BY <2>3, <2>6, EntryWritten, Zenon
  <2>8. /\ Shape(b, lev2)
        /\ Translate(b, v) = IF n.present THEN [frame |-> n.frame, w |-> n.w] ELSE None
        /\ \A u \in VPages : u # v => Translate(b, u) = Translate(a, u)
    BY <2>3, <2>6, <2>7, LeafWritten
  <2>9. /\ Shape(r.m, lev2)
        /\ Translate(r.m, v) = IF n.present THEN [frame |-> n.frame, w |-> n.w] ELSE None
        /\ \A u \in VPages : u # v => Translate(r.m, u) = Translate(pt.m, u)
    BY <2>8, Zenon DEF a, b
  <2>10. Translate(r.m, v) = Mapping(p, w)
    BY <2>3, <2>9, Zenon DEF Mapping
  <2> QED
    BY <1>5, <2>1, <2>5, <2>9, <2>10, Zenon
<1> QED
  BY <1>7, <1>8, Zenon

(* An iteration of vmm_map with PT_HUGE_PAGE keeps the type of the memory,  *)
(* and breaks it only in its walk.                                          *)
LEMMA MapHugeTyped ==
  ASSUME NEW m \in Memories, NEW v \in VPages, NEW p \in Nat, NEW w \in BOOLEAN
  PROVE  /\ MapHuge(m, v, p, w).m \in Memories
         /\ MapHuge(m, v, p, w).m.broken = ToPD(m, v).m.broken
         /\ p - (p % Fan) \in Nat
<1> DEFINE pd == ToPD(m, v)
           i == Index(v, 2)
           e == At(pd.m, pd.t, i)
           n == [present |-> TRUE, w |-> w, huge |-> TRUE, frame |-> p - (p % Fan)]
<1>1. pd.m \in Memories /\ i \in Slots
  BY ToTyped, IndexSlots, Zenon
<1>2. MapHuge(m, v, p, w).m = IF e.present THEN pd.m ELSE SetEntry(pd.m, pd.t, i, n)
  BY Zenon DEF MapHuge
<1>3. p - (p % Fan) \in Nat
  BY DivMod, FanAssumption
<1> HIDE DEF pd, i, e
<1>4. n \in Entries
  BY <1>3, Zenon DEF Entries
<1> HIDE DEF n
<1>5. SetEntry(pd.m, pd.t, i, n) \in Memories /\ SetEntry(pd.m, pd.t, i, n).broken = pd.m.broken
  <2> DEFINE a == pd.m
             t == pd.t
  <2>1. a \in Memories /\ (t \in Frames => n \in Entries)
    BY <1>1, <1>4, Zenon
  <2> HIDE DEF a, t
  <2>2. SetEntry(a, t, i, n) \in Memories /\ SetEntry(a, t, i, n).broken = a.broken
    BY <1>1, <2>1, EntrySet
  <2> QED
    BY <2>2, Zenon DEF a, t
<1> QED
  BY <1>1, <1>2, <1>3, <1>5 DEF pd

(* An iteration of vmm_map with PT_HUGE_PAGE maps the block of page v when  *)
(* its directory entry is free; no other page is concerned.                 *)
LEMMA MapHugeRight ==
  ASSUME NEW m \in Memories, NEW lev \in Levels, Shape(m, lev), NEW v \in VPages,
         NEW p \in Nat, \A k \in Slots : p - (p % Fan) + k \notin Ram, NEW w \in BOOLEAN,
         NEW r, r = MapHuge(m, v, p, w), ~r.m.broken
  PROVE  /\ \E lev2 \in Levels : Shape(r.m, lev2)
         /\ r.ok \in BOOLEAN
         /\ r.ok => \A x \in Block(v) :
                      /\ Translate(m, x) = None
                      /\ Translate(r.m, x) = Mapping(p - (p % Fan) + (x % Fan), w)
         /\ \A x \in VPages : ~r.ok \/ x \notin Block(v) => Translate(r.m, x) = Translate(m, x)
<1> DEFINE pd == ToPD(m, v)
           i == Index(v, 2)
           e == At(pd.m, pd.t, i)
           n == [present |-> TRUE, w |-> w, huge |-> TRUE, frame |-> p - (p % Fan)]
<1>1. ~pd.m.broken
  BY MapHugeTyped, Zenon
<1>2. r = IF e.present THEN [m |-> pd.m, ok |-> FALSE] ELSE [m |-> SetEntry(pd.m, pd.t, i, n), ok |-> TRUE]
  BY Zenon DEF MapHuge
<1>3. PICK lev2 \in Levels :
        /\ Grown(m, lev, pd.m, lev2)
        /\ pd.t \in Frames /\ lev2[pd.t] = 2
        /\ E4(pd.m, v).present /\ E3(pd.m, v).present
        /\ E3(pd.m, v).frame = pd.t
  BY <1>1, ToPDGrown, Zenon
<1>4. e = E2(pd.m, v)
  BY <1>3, Zenon DEF E2
<1> HIDE DEF pd, i
<1>5. pd.m \in Memories /\ Shape(pd.m, lev2) /\ \A u \in VPages : Translate(pd.m, u) = Translate(m, u)
  BY <1>3, Zenon DEF Grown
<1> HIDE DEF e
<1>6. p - (p % Fan) \in Nat
  BY MapHugeTyped, Zenon
<1>7. CASE e.present
  <2>1. r.m = pd.m /\ r.ok = FALSE
    BY <1>2, <1>7
  <2> QED
    BY <1>5, <2>1, Zenon
<1>8. CASE ~e.present
  <2>1. n \in Entries
    BY <1>6, Zenon DEF Entries
  <2>2. n.present /\ n.huge /\ n.frame = p - (p % Fan) /\ n.w = w
    BY Zenon
  <2> HIDE DEF n
  <2>3. r.m = SetEntry(pd.m, E3(pd.m, v).frame, Index(v, 2), n) /\ r.ok = TRUE
    BY <1>2, <1>3, <1>8 DEF i
  <2>4. HugeRight(n)
    BY <2>2, Zenon DEF HugeRight
  <2> DEFINE a == pd.m
             b == r.m
  <2>5. b = SetEntry(a, E3(a, v).frame, Index(v, 2), n)
    BY <2>3, Zenon
  <2>6. /\ a \in Memories /\ Shape(a, lev2) /\ E4(a, v).present /\ E3(a, v).present
        /\ ~E2(a, v).present /\ E3(a, v).frame \in Frames /\ Index(v, 2) \in Slots
    BY <1>3, <1>4, <1>5, <1>8, IndexSlots, Zenon
  <2> HIDE DEF a, b
  <2>7. Rewritten(a, b, E3(a, v).frame, Index(v, 2), n)
    BY <2>1, <2>5, <2>6, EntryWritten, Zenon
  <2>8. /\ Shape(b, lev2)
        /\ n.present => \A x \in Block(v) : Translate(b, x) = Mapping(n.frame + (x % Fan), n.w)
        /\ \A x \in VPages : x \notin Block(v) => Translate(b, x) = Translate(a, x)
        /\ ~E2(a, v).present => \A x \in Block(v) : Translate(a, x) = None
    <3>1. Shape(b, lev2)
      BY <2>1, <2>4, <2>6, <2>7, HugeWritten, Zenon
    <3>2. n.present => \A x \in Block(v) : Translate(b, x) = Mapping(n.frame + (x % Fan), n.w)
      BY <2>1, <2>4, <2>6, <2>7, HugeWritten
    <3>3. ASSUME NEW x \in VPages, x \notin Block(v) PROVE Translate(b, x) = Translate(a, x)
      BY <2>1, <2>4, <2>6, <2>7, <3>3, HugeElsewhere
    <3>4. ~E2(a, v).present => \A x \in Block(v) : Translate(a, x) = None
      BY <2>1, <2>4, <2>6, <2>7, HugeWritten, Zenon
    <3> QED
      BY <3>1, <3>2, <3>3, <3>4, Zenon
  <2>9. \A x \in Block(v) : x \in VPages
    BY Zenon DEF Block
  <2>10. /\ Shape(r.m, lev2)
         /\ \A x \in Block(v) : Translate(r.m, x) = Mapping(p - (p % Fan) + (x % Fan), w)
         /\ \A x \in VPages : x \notin Block(v) => Translate(r.m, x) = Translate(pd.m, x)
    BY <2>2, <2>8, Zenon DEF a, b
  <2>11. \A x \in Block(v) : Translate(pd.m, x) = None
    BY <2>6, <2>8, Zenon DEF a
  <2> QED
    BY <1>5, <2>3, <2>9, <2>10, <2>11, Zenon
<1> QED
  BY <1>7, <1>8, Zenon

(* A missing frame breaks the walk, and a walk once broken stays so.       *)
LEMMA DemandTyped ==
  ASSUME NEW m \in Memories, NEW v \in VPages
  PROVE  /\ Demand(m, v) \in Memories
         /\ m.broken \/ m.free = {} => Demand(m, v).broken
<1> DEFINE a == AfterAllocate(m)
           f == Allocated(m)
           r == MapSmall(a, v, f, TRUE)
<1>1. Demand(m, v) = r.m
  BY Zenon DEF Demand
<1>2. a \in Memories /\ f \in Nat /\ (m.broken => a.broken) /\ (m.free = {} => a.broken)
  <2>1. CASE m.free = {}
    <3>1. f = 0
      BY <2>1, Zenon DEF Allocated
    <3>2. PICK tab, free, broken : m = [tab |-> tab, free |-> free, broken |-> broken]
      BY Zenon DEF Memories
    <3>3. a = [m EXCEPT !.broken = TRUE]
      BY <2>1, Zenon DEF AfterAllocate
    <3>4. a = [tab |-> m.tab, free |-> m.free, broken |-> TRUE]
      BY <3>2, <3>3, Zenon
    <3> HIDE DEF a
    <3> QED
      BY <3>1, <3>4 DEF Memories
  <2>2. CASE m.free # {}
    <3>1. f \in Ram /\ a \in Memories /\ a.broken = m.broken
      BY <2>2, Allocation
    <3> QED
      BY <2>2, <3>1, Facts, Zenon
  <2> QED
    BY <2>1, <2>2, Zenon
<1> HIDE DEF a, f
<1>3. r.m \in Memories /\ r.m.broken = ToPT(a, v).m.broken
  BY <1>2, MapSmallTyped, Zenon
<1>4. a.broken => r.m.broken
  BY <1>2, <1>3, ToTyped, Zenon
<1> QED
  BY <1>1, <1>2, <1>3, <1>4, Zenon

(* The translation demand paging installs.                                 *)
Writeable(p) == Mapping(p, TRUE)

(* vma_demand_paging gives a page without a translation a frame that no    *)
(* other page is translated to.                                            *)
LEMMA DemandRight ==
  ASSUME NEW m \in Memories, NEW lev \in Levels, Shape(m, lev), NEW v \in VPages,
         Translate(m, v) = None, NEW m2, m2 = Demand(m, v), ~m2.broken
  PROVE  /\ \E lev2 \in Levels : Shape(m2, lev2)
         /\ Translate(m2, v) # None
         /\ Translate(m2, v) = Writeable(Translate(m2, v).frame)
         /\ \A x \in VPages : Translate(m, x) # None => Translate(m, x).frame # Translate(m2, v).frame
         /\ \A x \in VPages : x # v => Translate(m2, x) = Translate(m, x)
<1> DEFINE a == AfterAllocate(m)
           f == Allocated(m)
           r == MapSmall(a, v, f, TRUE)
<1>1. m.free # {}
  BY DemandTyped, Zenon
<1>2. /\ Grown(m, lev, a, lev) /\ Unlinked(a, lev, f)
      /\ \A x \in VPages : Translate(m, x) # None => Translate(m, x).frame # f
  BY <1>1, AllocateGrown, Zenon
<1>3. f # Root /\ f \in Nat
  BY <1>1, Allocation, Facts, Zenon
<1>4. a \in Memories /\ Shape(a, lev) /\ \A x \in VPages : Translate(a, x) = Translate(m, x)
  BY <1>2, Zenon DEF Grown
<1> DEFINE w == TRUE
<1>5. r = MapSmall(a, v, f, w) /\ ~r.m.broken /\ r.m = m2 /\ w \in BOOLEAN
  BY Zenon DEF Demand
<1> HIDE DEF a, f, r, w
<1>6. /\ \E lev2 \in Levels : Shape(r.m, lev2)
      /\ r.ok \in BOOLEAN
      /\ r.ok => Translate(a, v) = None /\ Translate(r.m, v) = Mapping(f, w)
      /\ ~r.ok => Translate(a, v) # None /\ Translate(r.m, v) = Translate(a, v)
      /\ \A u \in VPages : u # v => Translate(r.m, u) = Translate(a, u)
  <2>1. a \in Memories /\ Shape(a, lev) /\ Unlinked(a, lev, f)
    BY <1>2, <1>4, Zenon
  <2> QED
    BY <1>3, <1>5, <2>1, MapSmallRight
<1>7. Translate(m2, v) = Writeable(f)
  BY <1>4, <1>5, <1>6, Zenon DEF w, Writeable
<1>8. Translate(m2, v) # None /\ Translate(m2, v).frame = f
  BY <1>7, <1>3 DEF None, Mapping, Writeable
<1>9. \A x \in VPages : x # v => Translate(m2, x) = Translate(m, x)
  BY <1>4, <1>5, <1>6, Zenon
<1>10. \E lev2 \in Levels : Shape(m2, lev2)
  BY <1>5, <1>6, Zenon
<1> QED
  BY <1>2, <1>7, <1>8, <1>9, <1>10, Zenon
=============================================================================
