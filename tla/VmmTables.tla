----------------------------- MODULE VmmTables ------------------------------
(***************************************************************************)
(* Lemmas about page tables, for any fan-out and any memory: the indexes   *)
(* of a page number, the tree the tables form, the processor's walk in it, *)
(* the tables that the walks of vmm.c add, and what writing an entry does  *)
(* to the tree and to the translations.                                    *)
(***************************************************************************)
EXTENDS PageTables, TLAPS

-----------------------------------------------------------------------------
(* The tree of tables.                                                     *)

Entries == [present : BOOLEAN, w : BOOLEAN, huge : BOOLEAN, frame : Nat]
Memories == [tab : [Frames -> [Slots -> Entries]], free : SUBSET Ram, broken : BOOLEAN]
Levels == [Frames -> 0 .. 4]

(* An entry that points to a table, or to a page of its own.               *)
Linked(m, t, i) == At(m, t, i).present /\ ~At(m, t, i).huge

(* What an entry of a table may say: nothing, a table one level down, a    *)
(* huge page in a page directory, or a page in a page table.               *)
EntryRight(m, lev, t, i) ==
  LET e == At(m, t, i)
  IN  /\ ~e.present => e = Empty
      /\ e.present /\ e.huge => lev[t] = 2 /\ \A k \in Slots : e.frame + k \notin Ram
      /\ Linked(m, t, i) /\ lev[t] > 1 => e.w /\ e.frame \in Ram /\ lev[e.frame] = lev[t] - 1
      /\ Linked(m, t, i) /\ lev[t] = 1 =>
           e.frame # Root /\ (e.frame \in Ram => e.frame \notin m.free /\ lev[e.frame] = 0)

(* The tables form a tree: lev gives each its level, 4 for the PML4, 1 for *)
(* a PT and 0 for what is no table. No frame of RAM is linked twice.       *)
Shape(m, lev) ==
  /\ lev[Root] = 4
  /\ \A f \in Frames \ {Root} : lev[f] # 0 => lev[f] < 4 /\ f \in Ram \ m.free
  /\ \A t \in Frames, i \in Slots : lev[t] # 0 => EntryRight(m, lev, t, i)
  /\ \A t, u \in Frames, i, j \in Slots :
       /\ lev[t] # 0 /\ lev[u] # 0 /\ Linked(m, t, i) /\ Linked(m, u, j)
       /\ At(m, t, i).frame = At(m, u, j).frame /\ At(m, t, i).frame \in Ram
       => t = u /\ i = j

-----------------------------------------------------------------------------
(* Page numbers and their four indexes.                                    *)

(* Quotient and remainder of a natural number.                              *)
LEMMA DivMod ==
  ASSUME NEW n \in Nat, NEW s \in Nat \ {0}
  PROVE  /\ n \div s \in Nat /\ n % s \in 0 .. (s - 1)
         /\ n = s * (n \div s) + (n % s)
  OBVIOUS

(* A number below s * b has a quotient by s below b.                       *)
LEMMA DivBelow ==
  ASSUME NEW n \in Nat, NEW s \in Nat \ {0}, NEW b \in Nat, n < s * b
  PROVE  n \div s < b
<1>1. PICK q \in Nat, r \in Nat : q = n \div s /\ n = s * q + r
  BY DivMod
<1>2. SUFFICES ASSUME b <= q PROVE FALSE
  BY <1>1
<1>3. PICK e \in Nat : q = b + e
  BY <1>2
<1>4. s * (b + e) = s * b + s * e /\ s * e \in Nat /\ s * b \in Nat
  OBVIOUS
<1> QED
  BY <1>1, <1>3, <1>4

(* A number below s is its own remainder by s.                              *)
LEMMA SmallMod ==
  ASSUME NEW n \in Nat, NEW s \in Nat \ {0}, n < s
  PROVE  n % s = n
  OBVIOUS

(* The constants and the frames, from the assumptions on them.              *)
LEMMA Facts ==
  /\ Fan \in Nat \ {0} /\ PageTotal \in Nat \ {0}
  /\ Root \in Nat \ {0} /\ Ram \subseteq Nat \ {0, Root} /\ Devices \subseteq Nat
  /\ Root \in Frames /\ 0 \in Frames /\ Ram \subseteq Frames /\ Frames \subseteq Nat
  /\ Root \notin Ram /\ 0 \notin Ram
<1>1. Fan \in Nat \ {0}
  BY FanAssumption, Zenon
<1>2. \A a, b \in Nat \ {0} : a * b \in Nat \ {0}
  <2>1. SUFFICES ASSUME NEW a \in Nat \ {0}, NEW b \in Nat \ {0} PROVE a * b \in Nat \ {0}
    BY Zenon
  <2>2. PICK c \in Nat : b = c + 1
    <3>1. b - 1 \in Nat /\ b = (b - 1) + 1
      OBVIOUS
    <3> QED
      BY <3>1, Zenon
  <2>3. a * (c + 1) = a * c + a /\ a * c \in Nat
    OBVIOUS
  <2> QED
    BY <2>2, <2>3
<1>3. Fan * Fan \in Nat \ {0}
  BY <1>1, <1>2, Zenon
<1>4. Fan * Fan * Fan \in Nat \ {0}
  BY <1>1, <1>2, <1>3, Zenon
<1>5. PageTotal \in Nat \ {0}
  BY <1>1, <1>2, <1>4, Zenon DEF PageTotal
<1> QED
  BY <1>1, <1>5, FrameAssumption DEF Frames

(* The index of a page at every level is a slot of a table.                 *)
LEMMA IndexSlots ==
  ASSUME NEW v \in VPages
  PROVE  /\ Index(v, 1) \in Slots /\ Index(v, 2) \in Slots
         /\ Index(v, 3) \in Slots /\ Index(v, 4) \in Slots
<1>1. v \in Nat
  BY Facts DEF VPages
<1>2. \A x \in Nat : Upper(x) \in Nat /\ x % Fan \in Slots
  BY Facts, DivMod, Zenon DEF Upper, Slots
<1>3. Upper(v) \in Nat /\ Upper(Upper(v)) \in Nat /\ Upper(Upper(Upper(v))) \in Nat
  BY <1>1, <1>2, Zenon
<1>4. /\ Index(v, 1) = v % Fan /\ Index(v, 2) = Upper(v) % Fan
      /\ Index(v, 3) = Upper(Upper(v)) % Fan /\ Index(v, 4) = Upper(Upper(Upper(v))) % Fan
  BY DEF Index
<1> QED
  BY <1>1, <1>2, <1>3, <1>4, Zenon

(* The three upper indexes name a huge page, all four a page.              *)
LEMMA IndexNames ==
  ASSUME NEW u \in VPages, NEW v \in VPages
  PROVE  /\ Index(u, 4) = Index(v, 4) /\ Index(u, 3) = Index(v, 3) /\ Index(u, 2) = Index(v, 2)
              <=> Upper(u) = Upper(v)
         /\ Upper(u) = Upper(v) /\ Index(u, 1) = Index(v, 1) => u = v
<1>1. u \in Nat /\ v \in Nat /\ u < PageTotal /\ v < PageTotal
  BY Facts DEF VPages
<1>2. \A x \in Nat : Upper(x) \in Nat /\ x % Fan \in Nat /\ x = Fan * Upper(x) + (x % Fan)
  <2>1. SUFFICES ASSUME NEW x \in Nat
                 PROVE  x \div Fan \in Nat /\ x % Fan \in 0 .. (Fan - 1) /\ x = Fan * (x \div Fan) + (x % Fan)
    BY Facts DEF Upper
  <2> QED
    BY Facts, DivMod, Zenon
<1>3. \A x, y \in Nat : Upper(x) = Upper(y) /\ x % Fan = y % Fan => x = y
  BY <1>2, Zenon
<1>4. \A x \in Nat, b \in Nat : x < Fan * b => Upper(x) < b
  BY Facts, DivBelow, Zenon DEF Upper
<1>5. \A x \in Nat : x < PageTotal => Upper(Upper(Upper(x))) < Fan
  <2>1. SUFFICES ASSUME NEW x \in Nat, x < PageTotal PROVE Upper(Upper(Upper(x))) < Fan
    BY Zenon
  <2>2. PageTotal = Fan * (Fan * (Fan * Fan)) /\ Fan * Fan \in Nat /\ Fan * (Fan * Fan) \in Nat
    BY Facts DEF PageTotal
  <2>3. Upper(x) < Fan * (Fan * Fan)
    BY <1>4, <2>1, <2>2, Zenon
  <2>4. Upper(Upper(x)) < Fan * Fan
    BY <1>2, <1>4, <2>2, <2>3, Zenon
  <2> QED
    BY Facts, <1>2, <1>4, <2>4, Zenon
<1>6. \A x \in Nat : x < PageTotal => Upper(Upper(Upper(x))) % Fan = Upper(Upper(Upper(x)))
  BY Facts, <1>2, <1>5, SmallMod, Zenon
<1>7. /\ Index(u, 1) = u % Fan /\ Index(u, 2) = Upper(u) % Fan
      /\ Index(u, 3) = Upper(Upper(u)) % Fan /\ Index(u, 4) = Upper(Upper(Upper(u))) % Fan
      /\ Index(v, 1) = v % Fan /\ Index(v, 2) = Upper(v) % Fan
      /\ Index(v, 3) = Upper(Upper(v)) % Fan /\ Index(v, 4) = Upper(Upper(Upper(v))) % Fan
  BY DEF Index
<1> QED
  BY <1>1, <1>2, <1>3, <1>6, <1>7

-----------------------------------------------------------------------------
(* The processor's walk: the entries on the path of a page.                *)

E4(m, v) == At(m, Root, Index(v, 4))
E3(m, v) == At(m, E4(m, v).frame, Index(v, 3))
E2(m, v) == At(m, E3(m, v).frame, Index(v, 2))
E1(m, v) == At(m, E2(m, v).frame, Index(v, 1))

(* Every entry on the path of a page is typed and empty when it is not      *)
(* present; a present one above the last level is a link to the table one   *)
(* level down.                                                              *)
LEMMA PathRight ==
  ASSUME NEW m \in Memories, NEW lev \in Levels, Shape(m, lev), NEW v \in VPages
  PROVE  /\ E4(m, v) \in Entries /\ (~E4(m, v).present => E4(m, v) = Empty)
         /\ E4(m, v).present => /\ ~E4(m, v).huge /\ E4(m, v).w /\ E4(m, v).frame \in Ram
                                /\ lev[E4(m, v).frame] = 3 /\ E3(m, v) \in Entries
                                /\ (~E3(m, v).present => E3(m, v) = Empty)
         /\ E4(m, v).present /\ E3(m, v).present =>
              /\ ~E3(m, v).huge /\ E3(m, v).w /\ E3(m, v).frame \in Ram
              /\ lev[E3(m, v).frame] = 2 /\ E2(m, v) \in Entries
              /\ (~E2(m, v).present => E2(m, v) = Empty)
         /\ E4(m, v).present /\ E3(m, v).present /\ E2(m, v).present /\ ~E2(m, v).huge =>
              /\ E2(m, v).w /\ E2(m, v).frame \in Ram
              /\ lev[E2(m, v).frame] = 1 /\ E1(m, v) \in Entries
              /\ (~E1(m, v).present => E1(m, v) = Empty)
              /\ (E1(m, v).present => ~E1(m, v).huge)
<1>0. m.tab \in [Frames -> [Slots -> Entries]]
  BY Zenon DEF Memories
<1>1. \A t \in Frames, i \in Slots :
        /\ At(m, t, i) \in Entries
        /\ lev[t] # 0 /\ ~At(m, t, i).present => At(m, t, i) = Empty
        /\ lev[t] # 0 /\ lev[t] # 2 /\ At(m, t, i).present => ~At(m, t, i).huge
        /\ lev[t] # 0 /\ lev[t] # 1 /\ At(m, t, i).present /\ ~At(m, t, i).huge =>
             At(m, t, i).w /\ At(m, t, i).frame \in Ram /\ lev[At(m, t, i).frame] = lev[t] - 1
  <2>1. SUFFICES ASSUME NEW t \in Frames, NEW i \in Slots, lev[t] # 0
                 PROVE  /\ ~At(m, t, i).present => At(m, t, i) = Empty
                        /\ lev[t] # 2 /\ At(m, t, i).present => ~At(m, t, i).huge
                        /\ lev[t] # 1 /\ At(m, t, i).present /\ ~At(m, t, i).huge =>
                             At(m, t, i).w /\ At(m, t, i).frame \in Ram /\ lev[At(m, t, i).frame] = lev[t] - 1
    BY <1>0 DEF At
  <2>2. EntryRight(m, lev, t, i)
    BY <2>1, Zenon DEF Shape
  <2>3. lev[t] \in 0 .. 4
    BY Zenon DEF Levels
  <2> QED
    BY <2>1, <2>2, <2>3 DEF EntryRight, Linked
<1>2. lev[Root] = 4 /\ Root \in Frames /\ Ram \subseteq Frames
  BY Facts, Zenon DEF Shape
<1>3. /\ Index(v, 1) \in Slots /\ Index(v, 2) \in Slots
      /\ Index(v, 3) \in Slots /\ Index(v, 4) \in Slots
  BY IndexSlots, Zenon
<1>4. E4(m, v) \in Entries /\ (~E4(m, v).present => E4(m, v) = Empty)
  BY <1>1, <1>2, <1>3 DEF E4
<1>5. ASSUME E4(m, v).present
      PROVE  /\ ~E4(m, v).huge /\ E4(m, v).w /\ E4(m, v).frame \in Ram
             /\ lev[E4(m, v).frame] = 3 /\ E3(m, v) \in Entries
             /\ (~E3(m, v).present => E3(m, v) = Empty)
  <2>1. ~E4(m, v).huge /\ E4(m, v).w /\ E4(m, v).frame \in Ram /\ lev[E4(m, v).frame] = 3
    BY <1>1, <1>2, <1>3, <1>5 DEF E4
  <2> QED
    BY <1>1, <1>2, <1>3, <2>1 DEF E3
<1>6. ASSUME E4(m, v).present, E3(m, v).present
      PROVE  /\ ~E3(m, v).huge /\ E3(m, v).w /\ E3(m, v).frame \in Ram
             /\ lev[E3(m, v).frame] = 2 /\ E2(m, v) \in Entries
             /\ (~E2(m, v).present => E2(m, v) = Empty)
  <2>1. ~E3(m, v).huge /\ E3(m, v).w /\ E3(m, v).frame \in Ram /\ lev[E3(m, v).frame] = 2
    BY <1>1, <1>2, <1>3, <1>5, <1>6 DEF E3
  <2> QED
    BY <1>1, <1>2, <1>3, <2>1 DEF E2
<1>7. ASSUME E4(m, v).present, E3(m, v).present, E2(m, v).present, ~E2(m, v).huge
      PROVE  /\ E2(m, v).w /\ E2(m, v).frame \in Ram
             /\ lev[E2(m, v).frame] = 1 /\ E1(m, v) \in Entries
             /\ (~E1(m, v).present => E1(m, v) = Empty)
             /\ (E1(m, v).present => ~E1(m, v).huge)
  <2>1. E2(m, v).w /\ E2(m, v).frame \in Ram /\ lev[E2(m, v).frame] = 1
    BY <1>1, <1>2, <1>3, <1>6, <1>7 DEF E2
  <2> QED
    BY <1>1, <1>2, <1>3, <2>1 DEF E1
<1> QED
  BY <1>4, <1>5, <1>6, <1>7, Zenon

(* The page directory and the page table of a page.                        *)
LEMMA DirectoryAt ==
  ASSUME NEW m \in Memories, NEW lev \in Levels, Shape(m, lev), NEW v \in VPages,
         E4(m, v).present, E3(m, v).present
  PROVE  E3(m, v).frame \in Frames /\ lev[E3(m, v).frame] = 2 /\ Index(v, 2) \in Slots
  BY Facts, IndexSlots, PathRight, Zenon

(* A page whose directory entry is a link has its last entry in a page      *)
(* table.                                                                   *)
LEMMA TableAt ==
  ASSUME NEW m \in Memories, NEW lev \in Levels, Shape(m, lev), NEW v \in VPages,
         E4(m, v).present, E3(m, v).present, E2(m, v).present, ~E2(m, v).huge
  PROVE  E2(m, v).frame \in Frames /\ lev[E2(m, v).frame] = 1 /\ Index(v, 1) \in Slots
  BY Facts, IndexSlots, PathRight, Zenon

(* The translation, in a tree: only the last entry decides on writing.     *)
LEMMA TranslateIs ==
  ASSUME NEW m \in Memories, NEW lev \in Levels, Shape(m, lev), NEW v \in VPages
  PROVE  /\ ~E4(m, v).present => Translate(m, v) = None
         /\ E4(m, v).present /\ ~E3(m, v).present => Translate(m, v) = None
         /\ E4(m, v).present /\ E3(m, v).present /\ ~E2(m, v).present => Translate(m, v) = None
         /\ E4(m, v).present /\ E3(m, v).present /\ E2(m, v).present /\ E2(m, v).huge =>
              Translate(m, v) = [frame |-> E2(m, v).frame + (v % Fan), w |-> E2(m, v).w]
         /\ E4(m, v).present /\ E3(m, v).present /\ E2(m, v).present /\ ~E2(m, v).huge =>
              Translate(m, v) = IF E1(m, v).present THEN [frame |-> E1(m, v).frame, w |-> E1(m, v).w] ELSE None
<1>1. Translate(m, v) =
        IF ~(E4(m, v).present /\ E3(m, v).present /\ E2(m, v).present) THEN None
        ELSE IF E2(m, v).huge THEN [frame |-> E2(m, v).frame + (v % Fan),
                                    w |-> E4(m, v).w /\ E3(m, v).w /\ E2(m, v).w]
        ELSE IF ~E1(m, v).present THEN None
        ELSE [frame |-> E1(m, v).frame, w |-> E4(m, v).w /\ E3(m, v).w /\ E2(m, v).w /\ E1(m, v).w]
  BY Zenon DEF Translate, E4, E3, E2, E1, At
<1>2. ASSUME E4(m, v).present, E3(m, v).present, E2(m, v).present, E2(m, v).huge
      PROVE  Translate(m, v) = [frame |-> E2(m, v).frame + (v % Fan), w |-> E2(m, v).w]
  <2>1. (E4(m, v).w /\ E3(m, v).w /\ E2(m, v).w) = E2(m, v).w
    BY <1>2, PathRight, Zenon DEF Entries
  <2> QED
    BY <1>1, <1>2, <2>1, Zenon
<1>3. ASSUME E4(m, v).present, E3(m, v).present, E2(m, v).present, ~E2(m, v).huge, E1(m, v).present
      PROVE  Translate(m, v) = [frame |-> E1(m, v).frame, w |-> E1(m, v).w]
  <2>1. (E4(m, v).w /\ E3(m, v).w /\ E2(m, v).w /\ E1(m, v).w) = E1(m, v).w
    BY <1>3, PathRight, Zenon DEF Entries
  <2> QED
    BY <1>1, <1>3, <2>1, Zenon
<1> QED
  BY <1>1, <1>2, <1>3, Zenon

-----------------------------------------------------------------------------
(* Tables added to the tree.                                               *)

LinkTo(f) == [Empty EXCEPT !.present = TRUE, !.w = TRUE, !.frame = f]

(* The fields of a link.                                                    *)
LEMMA LinkFields ==
  ASSUME NEW f \in Nat
  PROVE  /\ LinkTo(f) \in Entries /\ LinkTo(f).present /\ LinkTo(f).w /\ ~LinkTo(f).huge
         /\ LinkTo(f).frame = f
  BY Zenon DEF LinkTo, Empty, Entries

(* An empty table in the place of a missing one changes no translation.    *)
LEMMA TableAdded ==
  ASSUME NEW m \in Memories, NEW m2 \in Memories,
         NEW lev \in Levels, Shape(m, lev), NEW lev2 \in Levels, Shape(m2, lev2),
         NEW t \in Frames, lev[t] > 1, NEW i \in Slots, NEW f \in Frames,
         ~At(m, t, i).present, At(m2, t, i) = LinkTo(f), m2.tab[f] = ZeroTable,
         \A u \in Frames, j \in Slots : lev[u] # 0 /\ (u # t \/ j # i) => At(m2, u, j) = At(m, u, j),
         NEW v \in VPages
  PROVE  Translate(m2, v) = Translate(m, v)
<1>0. lev[Root] = 4 /\ Root \in Frames /\ Ram \subseteq Frames
  BY Facts, Zenon DEF Shape
<1>1. /\ Index(v, 1) \in Slots /\ Index(v, 2) \in Slots
      /\ Index(v, 3) \in Slots /\ Index(v, 4) \in Slots
  BY IndexSlots, Zenon
<1>2. \A j \in Slots : At(m2, f, j) = Empty /\ ~Empty.present
  BY Zenon DEF ZeroTable, Empty, At
<1>3. LinkTo(f).present /\ ~LinkTo(f).huge /\ LinkTo(f).frame = f
  BY Zenon DEF LinkTo, Empty
<1>4. CASE Root = t /\ Index(v, 4) = i
  <2>1. ~E4(m, v).present /\ E4(m2, v) = LinkTo(f)
    BY <1>4, Zenon DEF E4
  <2>2. ~E3(m2, v).present
    BY <1>1, <1>2, <1>3, <2>1, Zenon DEF E3
  <2>3. Translate(m, v) = None
    BY <2>1, TranslateIs, Zenon
  <2>4. Translate(m2, v) = None
    BY <1>3, <2>1, <2>2, TranslateIs, Zenon
  <2> QED
    BY <2>3, <2>4, Zenon
<1>5. CASE Root # t \/ Index(v, 4) # i
  <2>1. E4(m2, v) = E4(m, v)
    BY <1>0, <1>1, <1>5 DEF E4
  <2>2. CASE ~E4(m, v).present
    BY <2>1, <2>2, TranslateIs, Zenon
  <2>3. CASE E4(m, v).present
    <3>1. E4(m, v).frame \in Frames /\ lev[E4(m, v).frame] = 3
      BY <1>0, <2>3, PathRight
    <3>2. CASE E4(m, v).frame = t /\ Index(v, 3) = i
      <4>1. ~E3(m, v).present /\ E3(m2, v) = LinkTo(f)
        BY <2>1, <3>2, Zenon DEF E3
      <4>2. ~E2(m2, v).present
        BY <1>1, <1>2, <1>3, <4>1, Zenon DEF E2
      <4>3. Translate(m, v) = None
        BY <2>3, <4>1, TranslateIs, Zenon
      <4>4. Translate(m2, v) = None
        BY <1>3, <2>1, <2>3, <4>1, <4>2, TranslateIs, Zenon
      <4> QED
        BY <4>3, <4>4, Zenon
    <3>3. CASE E4(m, v).frame # t \/ Index(v, 3) # i
      <4>1. E3(m2, v) = E3(m, v)
        BY <1>1, <2>1, <3>1, <3>3 DEF E3
      <4>2. CASE ~E3(m, v).present
        BY <2>1, <2>3, <4>1, <4>2, TranslateIs, Zenon
      <4>3. CASE E3(m, v).present
        <5>1. E3(m, v).frame \in Frames /\ lev[E3(m, v).frame] = 2
          BY <1>0, <2>3, <4>3, PathRight
        <5>2. CASE E3(m, v).frame = t /\ Index(v, 2) = i
          <6>1. ~E2(m, v).present /\ E2(m2, v) = LinkTo(f)
            BY <4>1, <5>2, Zenon DEF E2
          <6>2. ~E1(m2, v).present
            BY <1>1, <1>2, <1>3, <6>1, Zenon DEF E1
          <6>3. Translate(m, v) = None
            BY <2>3, <4>3, <6>1, TranslateIs, Zenon
          <6>4. Translate(m2, v) = None
            BY <1>3, <2>1, <2>3, <4>1, <4>3, <6>1, <6>2, TranslateIs, Zenon
          <6> QED
            BY <6>3, <6>4, Zenon
        <5>3. CASE E3(m, v).frame # t \/ Index(v, 2) # i
          <6>1. E2(m2, v) = E2(m, v)
            BY <1>1, <4>1, <5>1, <5>3 DEF E2
          <6>2. CASE ~E2(m, v).present \/ E2(m, v).huge
            BY <2>1, <2>3, <4>1, <4>3, <6>1, <6>2, TranslateIs, Zenon
          <6>3. CASE E2(m, v).present /\ ~E2(m, v).huge
            <7>1. E2(m, v).frame \in Frames /\ lev[E2(m, v).frame] = 1
              BY <1>0, <2>3, <4>3, <6>3, PathRight
            <7>2. E2(m, v).frame # t
              BY <7>1
            <7>3. E1(m2, v) = E1(m, v)
              BY <1>1, <6>1, <7>1, <7>2 DEF E1
            <7> QED
              BY <2>1, <2>3, <4>1, <4>3, <6>1, <6>3, <7>3, TranslateIs, Zenon
          <6> QED
            BY <6>2, <6>3, Zenon
        <5> QED
          BY <5>2, <5>3, Zenon
      <4> QED
        BY <4>2, <4>3, Zenon
    <3> QED
      BY <3>2, <3>3, Zenon
  <2> QED
    BY <2>2, <2>3, Zenon
<1> QED
  BY <1>4, <1>5, Zenon

(* What walks do to the tables: they add empty ones, from free frames.     *)
Grown(m, lev, m2, lev2) ==
  /\ m2 \in Memories /\ lev2 \in Levels /\ Shape(m2, lev2)
  /\ \A f \in Frames : lev[f] # 0 => lev2[f] = lev[f]
  /\ m2.free \subseteq m.free /\ m2.broken = m.broken
  /\ \A f \in Frames : lev2[f] # 0 => lev[f] # 0 \/ f \in m.free
  /\ \A u \in Frames, j \in Slots : lev[u] # 0 /\ At(m, u, j).present => At(m2, u, j) = At(m, u, j)
  /\ \A u \in Frames, j \in Slots :
       lev2[u] # 0 /\ At(m2, u, j).present =>
         (lev[u] # 0 /\ At(m2, u, j) = At(m, u, j)) \/ At(m2, u, j).frame \in m.free
  /\ \A v \in VPages : Translate(m2, v) = Translate(m, v)

(* Growing twice is growing.                                                *)
LEMMA GrownTwice ==
  ASSUME NEW m, NEW lev, NEW m2, NEW lev2, NEW m3, NEW lev3,
         Grown(m, lev, m2, lev2), Grown(m2, lev2, m3, lev3)
  PROVE  Grown(m, lev, m3, lev3)
<1>1. m3 \in Memories /\ lev3 \in Levels /\ Shape(m3, lev3)
  BY Zenon DEF Grown
<1>2. \A f \in Frames : lev[f] # 0 => lev3[f] = lev[f]
  BY Zenon DEF Grown
<1>3. m3.free \subseteq m.free /\ m3.broken = m.broken
  BY Zenon DEF Grown
<1>4. \A f \in Frames : lev3[f] # 0 => lev[f] # 0 \/ f \in m.free
  BY Zenon DEF Grown
<1>5. \A u \in Frames, j \in Slots : lev[u] # 0 /\ At(m, u, j).present => At(m3, u, j) = At(m, u, j)
  BY Zenon DEF Grown
<1>6. \A u \in Frames, j \in Slots :
        lev3[u] # 0 /\ At(m3, u, j).present =>
          (lev[u] # 0 /\ At(m3, u, j) = At(m, u, j)) \/ At(m3, u, j).frame \in m.free
  BY Zenon DEF Grown
<1>7. \A v \in VPages : Translate(m3, v) = Translate(m, v)
  BY Zenon DEF Grown
<1> QED
  BY <1>1, <1>2, <1>3, <1>4, <1>5, <1>6, <1>7, Zenon DEF Grown

(* Walks leave the present entries of a path alone.                        *)
LEMMA PathKept ==
  ASSUME NEW m \in Memories, NEW lev \in Levels, Shape(m, lev), NEW m2, NEW lev2,
         Grown(m, lev, m2, lev2), NEW v \in VPages
  PROVE  /\ E4(m, v).present => E4(m2, v) = E4(m, v)
         /\ E4(m, v).present /\ E3(m, v).present => E3(m2, v) = E3(m, v)
         /\ E4(m, v).present /\ E3(m, v).present /\ E2(m, v).present => E2(m2, v) = E2(m, v)
         /\ E4(m, v).present /\ E3(m, v).present /\ E2(m, v).present /\ ~E2(m, v).huge /\ E1(m, v).present =>
              E1(m2, v) = E1(m, v)
<1>0. lev[Root] = 4 /\ Root \in Frames /\ Ram \subseteq Frames
  BY Facts, Zenon DEF Shape
<1>1. /\ Index(v, 1) \in Slots /\ Index(v, 2) \in Slots
      /\ Index(v, 3) \in Slots /\ Index(v, 4) \in Slots
  BY IndexSlots, Zenon
<1>2. \A u \in Frames, j \in Slots : lev[u] # 0 /\ At(m, u, j).present => At(m2, u, j) = At(m, u, j)
  BY Zenon DEF Grown
<1>3. E4(m, v).present => E4(m2, v) = E4(m, v)
  BY <1>0, <1>1, <1>2 DEF E4
<1>4. ASSUME E4(m, v).present, E3(m, v).present PROVE E3(m2, v) = E3(m, v)
  <2>1. E4(m, v).frame \in Frames /\ lev[E4(m, v).frame] # 0
    BY <1>0, <1>4, PathRight
  <2> QED
    BY <1>1, <1>2, <1>3, <1>4, <2>1, Zenon DEF E3
<1>5. ASSUME E4(m, v).present, E3(m, v).present, E2(m, v).present PROVE E2(m2, v) = E2(m, v)
  <2>1. E3(m, v).frame \in Frames /\ lev[E3(m, v).frame] # 0
    BY <1>0, <1>5, PathRight
  <2> QED
    BY <1>1, <1>2, <1>4, <1>5, <2>1, Zenon DEF E2
<1>6. ASSUME E4(m, v).present, E3(m, v).present, E2(m, v).present, ~E2(m, v).huge, E1(m, v).present
      PROVE  E1(m2, v) = E1(m, v)
  <2>1. E2(m, v).frame \in Frames /\ lev[E2(m, v).frame] # 0
    BY <1>0, <1>6, PathRight
  <2> QED
    BY <1>1, <1>2, <1>5, <1>6, <2>1, Zenon DEF E1
<1> QED
  BY <1>3, <1>4, <1>5, <1>6, Zenon

(* Nothing in the tables points to frame f, and it is no table.            *)
Unlinked(m, lev, f) ==
  /\ f \in Ram => f \notin m.free /\ lev[f] = 0
  /\ f \in Ram => \A u \in Frames, j \in Slots : lev[u] # 0 /\ Linked(m, u, j) => At(m, u, j).frame # f

(* A frame that was neither linked nor free stays so when the tables grow.  *)
LEMMA UnlinkedGrown ==
  ASSUME NEW m \in Memories, NEW lev \in Levels, NEW m2, NEW lev2, Grown(m, lev, m2, lev2),
         NEW f \in Nat, Unlinked(m, lev, f)
  PROVE  Unlinked(m2, lev2, f)
<1>1. ASSUME f \in Ram PROVE f \notin m2.free /\ lev2[f] = 0
  BY <1>1, Facts, Zenon DEF Grown, Unlinked
<1>2. ASSUME f \in Ram, NEW u \in Frames, NEW j \in Slots, lev2[u] # 0, Linked(m2, u, j)
      PROVE  At(m2, u, j).frame # f
  <2>1. (lev[u] # 0 /\ At(m2, u, j) = At(m, u, j)) \/ At(m2, u, j).frame \in m.free
    BY <1>2, Zenon DEF Grown, Linked
  <2> QED
    BY <1>2, <2>1, Zenon DEF Unlinked, Linked
<1> QED
  BY <1>1, <1>2, Zenon DEF Unlinked

-----------------------------------------------------------------------------
(* Writes of the last entry of a path.                                     *)

(* A write of an entry.                                                    *)
LEMMA EntrySet ==
  ASSUME NEW m \in Memories, NEW t, NEW i \in Slots, NEW e, t \in Frames => e \in Entries
  PROVE  /\ SetEntry(m, t, i, e) \in Memories
         /\ SetEntry(m, t, i, e).free = m.free /\ SetEntry(m, t, i, e).broken = m.broken
         /\ t \in Frames => At(SetEntry(m, t, i, e), t, i) = e
         /\ \A u \in Frames, j \in Slots : u # t \/ j # i => At(SetEntry(m, t, i, e), u, j) = At(m, u, j)
<1>1. m.tab \in [Frames -> [Slots -> Entries]] /\ m.free \in SUBSET Ram /\ m.broken \in BOOLEAN
  BY Zenon DEF Memories
<1>2. PICK tab, free, broken : m = [tab |-> tab, free |-> free, broken |-> broken]
  BY Zenon DEF Memories
<1> DEFINE tab2 == [m.tab EXCEPT ![t] = [m.tab[t] EXCEPT ![i] = e]]
<1>3. SetEntry(m, t, i, e) = [tab |-> tab2, free |-> m.free, broken |-> m.broken]
  BY <1>2 DEF SetEntry
<1>4. tab2 \in [Frames -> [Slots -> Entries]]
  BY <1>1, Zenon
<1>5. \A u \in Frames : u # t => tab2[u] = m.tab[u]
  BY <1>1, Zenon
<1>6. t \in Frames => tab2[t] = [m.tab[t] EXCEPT ![i] = e] /\ m.tab[t] \in [Slots -> Entries]
  BY <1>1, Zenon
<1> HIDE DEF tab2
<1>7. t \in Frames => tab2[t][i] = e /\ \A j \in Slots : j # i => tab2[t][j] = At(m, t, j)
  BY <1>6, Zenon DEF At
<1>8. [tab |-> tab2, free |-> m.free, broken |-> m.broken] \in Memories
  BY <1>1, <1>4, Zenon DEF Memories
<1> QED
  BY <1>3, <1>5, <1>7, <1>8 DEF At

(* Pages whose paths meet in a table have the indexes above it in common.  *)
LEMMA SamePath ==
  ASSUME NEW m \in Memories, NEW lev \in Levels, Shape(m, lev), NEW u \in VPages, NEW v \in VPages,
         E4(m, u).present, E3(m, u).present, E4(m, v).present, E3(m, v).present
  PROVE  /\ E3(m, u).frame = E3(m, v).frame => Index(u, 4) = Index(v, 4) /\ Index(u, 3) = Index(v, 3)
         /\ /\ E2(m, u).present /\ ~E2(m, u).huge /\ E2(m, v).present /\ ~E2(m, v).huge
            /\ E2(m, u).frame = E2(m, v).frame
            => Index(u, 4) = Index(v, 4) /\ Index(u, 3) = Index(v, 3) /\ Index(u, 2) = Index(v, 2)
<1>0. lev[Root] = 4 /\ Root \in Frames /\ Ram \subseteq Frames
  BY Facts, Zenon DEF Shape
<1>1. /\ Index(v, 2) \in Slots /\ Index(v, 3) \in Slots /\ Index(v, 4) \in Slots
      /\ Index(u, 2) \in Slots /\ Index(u, 3) \in Slots /\ Index(u, 4) \in Slots
  BY IndexSlots, Zenon
<1>2. \A s, t \in Frames, i, j \in Slots :
        /\ lev[s] # 0 /\ lev[t] # 0 /\ Linked(m, s, i) /\ Linked(m, t, j)
        /\ At(m, s, i).frame = At(m, t, j).frame /\ At(m, s, i).frame \in Ram
        => s = t /\ i = j
  BY Zenon DEF Shape
<1>3. /\ E4(m, u).frame \in Frames /\ lev[E4(m, u).frame] # 0 /\ ~E4(m, u).huge /\ E4(m, u).frame \in Ram
      /\ E4(m, v).frame \in Frames /\ lev[E4(m, v).frame] # 0 /\ ~E4(m, v).huge
      /\ E3(m, u).frame \in Frames /\ lev[E3(m, u).frame] # 0 /\ ~E3(m, u).huge /\ E3(m, u).frame \in Ram
      /\ E3(m, v).frame \in Frames /\ lev[E3(m, v).frame] # 0 /\ ~E3(m, v).huge
  BY <1>0, PathRight
<1>4. ASSUME E4(m, u).frame = E4(m, v).frame PROVE Index(u, 4) = Index(v, 4)
  BY <1>0, <1>1, <1>2, <1>3, <1>4 DEF E4, Linked
<1>5. ASSUME E3(m, u).frame = E3(m, v).frame
      PROVE  Index(u, 4) = Index(v, 4) /\ Index(u, 3) = Index(v, 3)
  <2>1. E4(m, u).frame = E4(m, v).frame /\ Index(u, 3) = Index(v, 3)
    BY <1>1, <1>2, <1>3, <1>5 DEF E3, Linked
  <2> QED
    BY <1>4, <2>1, Zenon
<1>6. ASSUME E2(m, u).present, ~E2(m, u).huge, E2(m, v).present, ~E2(m, v).huge,
             E2(m, u).frame = E2(m, v).frame
      PROVE  Index(u, 4) = Index(v, 4) /\ Index(u, 3) = Index(v, 3) /\ Index(u, 2) = Index(v, 2)
  <2>1. E2(m, u).frame \in Ram
    BY <1>6, PathRight, Zenon
  <2>2. E3(m, u).frame = E3(m, v).frame /\ Index(u, 2) = Index(v, 2)
    BY <1>1, <1>2, <1>3, <1>6, <2>1 DEF E2, Linked
  <2> QED
    BY <1>5, <2>2, Zenon
<1> QED
  BY <1>5, <1>6, Zenon

(* An entry was written, and nothing else.                                 *)
Elsewhere(m, m2, t, i) ==
  \A u \in Frames, j \in Slots : u # t \/ j # i => At(m2, u, j) = At(m, u, j)

Rewritten(m, m2, t, i, e) ==
  /\ m2 \in Memories /\ m2.free = m.free /\ m2.broken = m.broken
  /\ At(m2, t, i) = e /\ Elsewhere(m, m2, t, i)

(* Writing one entry of one table rewrites that entry and no other.         *)
LEMMA EntryWritten ==
  ASSUME NEW m \in Memories, NEW t \in Frames, NEW i \in Slots, NEW e \in Entries
  PROVE  Rewritten(m, SetEntry(m, t, i, e), t, i, e)
  BY EntrySet DEF Rewritten, Elsewhere

(* A write that keeps the tree.                                            *)
LEMMA WriteShape ==
  ASSUME NEW m \in Memories, NEW lev \in Levels, Shape(m, lev), NEW m2,
         NEW t \in Frames, lev[t] # 0, NEW i \in Slots, NEW e \in Entries,
         Rewritten(m, m2, t, i, e), EntryRight(m2, lev, t, i),
         e.present /\ ~e.huge => Unlinked(m, lev, e.frame)
  PROVE  Shape(m2, lev)
<1>1. m2.free = m.free /\ At(m2, t, i) = e
  BY Zenon DEF Rewritten
<1>2. \A u \in Frames, j \in Slots : u # t \/ j # i => At(m2, u, j) = At(m, u, j)
  BY Zenon DEF Rewritten, Elsewhere
<1>3. ASSUME NEW u \in Frames, NEW j \in Slots, lev[u] # 0 PROVE EntryRight(m2, lev, u, j)
  <2>1. CASE u # t \/ j # i
    <3>1. EntryRight(m, lev, u, j) /\ At(m2, u, j) = At(m, u, j)
      BY <1>2, <1>3, <2>1, Zenon DEF Shape
    <3> QED
      BY <1>1, <3>1, Zenon DEF EntryRight, Linked
  <2> QED
    BY <2>1, Zenon
<1>4. ASSUME NEW u \in Frames, NEW j \in Slots, lev[u] # 0, u # t \/ j # i, Linked(m2, u, j),
             Linked(m2, t, i), At(m2, u, j).frame = At(m2, t, i).frame, At(m2, u, j).frame \in Ram
      PROVE  FALSE
  <2>1. Linked(m, u, j) /\ At(m, u, j).frame = e.frame
    BY <1>1, <1>2, <1>4, Zenon DEF Linked
  <2>2. Unlinked(m, lev, e.frame) /\ e.frame \in Ram
    BY <1>1, <1>4, Zenon DEF Linked
  <2> QED
    BY <1>4, <2>1, <2>2, Zenon DEF Unlinked
<1>5. ASSUME NEW u \in Frames, NEW x \in Frames, NEW j \in Slots, NEW k \in Slots,
             lev[u] # 0, lev[x] # 0, Linked(m2, u, j), Linked(m2, x, k),
             At(m2, u, j).frame = At(m2, x, k).frame, At(m2, u, j).frame \in Ram
      PROVE  u = x /\ j = k
  <2>1. CASE (u = t /\ j = i) \/ (x = t /\ k = i)
    BY <1>4, <1>5, <2>1, Zenon
  <2>2. CASE (u # t \/ j # i) /\ (x # t \/ k # i)
    <3>1. At(m2, u, j) = At(m, u, j) /\ At(m2, x, k) = At(m, x, k)
      BY <1>2, <2>2, Zenon
    <3>2. Linked(m, u, j) /\ Linked(m, x, k) /\ At(m, u, j).frame = At(m, x, k).frame /\ At(m, u, j).frame \in Ram
      BY <1>5, <3>1, Zenon DEF Linked
    <3> QED
      BY <1>5, <3>2, Zenon DEF Shape
  <2> QED
    BY <2>1, <2>2, Zenon
<1>6. lev[Root] = 4 /\ \A f \in Frames \ {Root} : lev[f] # 0 => lev[f] < 4 /\ f \in Ram \ m2.free
  BY <1>1, Zenon DEF Shape
<1> QED
  BY <1>3, <1>5, <1>6, Zenon DEF Shape

(* A write to a page directory or a page table leaves the paths above it   *)
(* alone, and those that do not lead to the entry.                         *)
LEMMA UpperKept ==
  ASSUME NEW m \in Memories, NEW lev \in Levels, Shape(m, lev), NEW m2, NEW t, NEW i,
         lev[t] < 3, Elsewhere(m, m2, t, i), NEW u \in VPages
  PROVE  /\ E4(m2, u) = E4(m, u)
         /\ E4(m, u).present => E3(m2, u) = E3(m, u)
<1>1. \A x \in Frames, j \in Slots : x # t \/ j # i => At(m2, x, j) = At(m, x, j)
  BY Zenon DEF Elsewhere
<1>2. lev[Root] = 4 /\ Root \in Frames /\ Ram \subseteq Frames
  BY Facts, Zenon DEF Shape
<1>3. Index(u, 3) \in Slots /\ Index(u, 4) \in Slots
  BY IndexSlots, Zenon
<1>4. E4(m2, u) = E4(m, u)
  BY <1>1, <1>2, <1>3 DEF E4
<1>5. ASSUME E4(m, u).present PROVE E3(m2, u) = E3(m, u)
  <2>1. E4(m, u).frame \in Frames /\ E4(m, u).frame # t
    BY <1>2, <1>5, PathRight
  <2> QED
    BY <1>1, <1>3, <1>4, <2>1, Zenon DEF E3
<1> QED
  BY <1>4, <1>5, Zenon

(* A write below the directory pointers that is not to the directory entry  *)
(* of u leaves that entry.                                                  *)
LEMMA DirectoryKept ==
  ASSUME NEW m \in Memories, NEW lev \in Levels, Shape(m, lev), NEW m2, NEW t, NEW i,
         lev[t] < 3, Elsewhere(m, m2, t, i), NEW u \in VPages,
         E4(m, u).present, E3(m, u).present, E3(m, u).frame # t \/ Index(u, 2) # i
  PROVE  E2(m2, u) = E2(m, u)
<1>1. \A x \in Frames, j \in Slots : x # t \/ j # i => At(m2, x, j) = At(m, x, j)
  BY Zenon DEF Elsewhere
<1>2. E3(m, u).frame \in Frames /\ Index(u, 2) \in Slots
  BY DirectoryAt, Zenon
<1>3. E3(m2, u) = E3(m, u)
  BY UpperKept, Zenon
<1> QED
  BY <1>1, <1>2, <1>3, Zenon DEF E2

(* A write below the directory pointers that is not to the table entry of u *)
(* leaves that entry.                                                       *)
LEMMA TableKept ==
  ASSUME NEW m \in Memories, NEW lev \in Levels, Shape(m, lev), NEW m2, NEW t, NEW i,
         lev[t] < 3, Elsewhere(m, m2, t, i), NEW u \in VPages,
         E4(m, u).present, E3(m, u).present, E2(m, u).present, ~E2(m, u).huge,
         E2(m2, u) = E2(m, u), E2(m, u).frame # t \/ Index(u, 1) # i
  PROVE  E1(m2, u) = E1(m, u)
<1>1. \A x \in Frames, j \in Slots : x # t \/ j # i => At(m2, x, j) = At(m, x, j)
  BY Zenon DEF Elsewhere
<1>2. E2(m, u).frame \in Frames /\ Index(u, 1) \in Slots
  BY TableAt, Zenon
<1> QED
  BY <1>1, <1>2, Zenon DEF E1

(* A page with the same entries on its path has the same translation.       *)
LEMMA SameTranslation ==
  ASSUME NEW m \in Memories, NEW m2 \in Memories, NEW lev \in Levels, Shape(m, lev), Shape(m2, lev),
         NEW u \in VPages, E4(m2, u) = E4(m, u),
         E4(m, u).present => E3(m2, u) = E3(m, u),
         E4(m, u).present /\ E3(m, u).present => E2(m2, u) = E2(m, u),
         E4(m, u).present /\ E3(m, u).present /\ E2(m, u).present /\ ~E2(m, u).huge =>
           E1(m2, u) = E1(m, u)
  PROVE  Translate(m2, u) = Translate(m, u)
<1>1. CASE ~E4(m, u).present
  BY <1>1, TranslateIs, Zenon
<1>2. CASE E4(m, u).present /\ ~E3(m, u).present
  BY <1>2, TranslateIs, Zenon
<1>3. CASE E4(m, u).present /\ E3(m, u).present /\ ~E2(m, u).present
  BY <1>3, TranslateIs, Zenon
<1>4. CASE E4(m, u).present /\ E3(m, u).present /\ E2(m, u).present /\ E2(m, u).huge
  BY <1>4, TranslateIs, Zenon
<1>5. CASE E4(m, u).present /\ E3(m, u).present /\ E2(m, u).present /\ ~E2(m, u).huge
  BY <1>5, TranslateIs, Zenon
<1> QED
  BY <1>1, <1>2, <1>3, <1>4, <1>5, Zenon

(* An entry of a page table is the translation of one page.                *)
LEMMA LeafPages ==
  ASSUME NEW m \in Memories, NEW m2 \in Memories, NEW lev \in Levels, Shape(m, lev), Shape(m2, lev),
         NEW v \in VPages, E4(m, v).present, E3(m, v).present, E2(m, v).present, ~E2(m, v).huge,
         Elsewhere(m, m2, E2(m, v).frame, Index(v, 1))
  PROVE  /\ E4(m2, v) = E4(m, v) /\ E3(m2, v) = E3(m, v) /\ E2(m2, v) = E2(m, v)
         /\ \A u \in VPages : u # v => Translate(m2, u) = Translate(m, u)
<1> DEFINE t == E2(m, v).frame
           i == Index(v, 1)
<1>1. lev[t] = 1
  BY TableAt, Zenon
<1>2. Elsewhere(m, m2, t, i)
  BY Zenon
<1> HIDE DEF t, i
<1>3. ASSUME NEW u \in VPages
      PROVE  /\ E4(m2, u) = E4(m, u) /\ (E4(m, u).present => E3(m2, u) = E3(m, u))
             /\ E4(m, u).present /\ E3(m, u).present => E2(m2, u) = E2(m, u)
  <2>1. E4(m2, u) = E4(m, u) /\ (E4(m, u).present => E3(m2, u) = E3(m, u))
    BY <1>1, <1>2, UpperKept
  <2>2. ASSUME E4(m, u).present, E3(m, u).present PROVE E2(m2, u) = E2(m, u)
    <3>1. E3(m, u).frame # t
      BY <1>1, <2>2, DirectoryAt
    <3> QED
      BY <1>1, <1>2, <2>2, <3>1, DirectoryKept
  <2> QED
    BY <2>1, <2>2, Zenon
<1>4. ASSUME NEW u \in VPages, u # v PROVE Translate(m2, u) = Translate(m, u)
  <2>1. ASSUME E4(m, u).present, E3(m, u).present, E2(m, u).present, ~E2(m, u).huge
        PROVE  E2(m, u).frame # t \/ Index(u, 1) # i
    BY <1>4, <2>1, SamePath, IndexNames, Zenon DEF t, i
  <2>2. ASSUME E4(m, u).present, E3(m, u).present, E2(m, u).present, ~E2(m, u).huge
        PROVE  E1(m2, u) = E1(m, u)
    <3>1. E2(m2, u) = E2(m, u) /\ (E2(m, u).frame # t \/ Index(u, 1) # i)
      BY <1>3, <2>1, <2>2, Zenon
    <3> QED
      BY <1>1, <1>2, <2>2, <3>1, TableKept
  <2> QED
    BY <1>3, <2>2, SameTranslation, Zenon
<1> QED
  BY <1>3, <1>4, Zenon

(* Writing the last entry of page v changes the translation of v, to what   *)
(* was written, and of no other page.                                       *)
LEMMA LeafWritten ==
  ASSUME NEW m \in Memories, NEW lev \in Levels, Shape(m, lev), NEW v \in VPages,
         E4(m, v).present, E3(m, v).present, E2(m, v).present, ~E2(m, v).huge,
         NEW e \in Entries, ~e.present => e = Empty,
         e.present => ~e.huge /\ e.frame # Root /\ Unlinked(m, lev, e.frame),
         NEW m2, Rewritten(m, m2, E2(m, v).frame, Index(v, 1), e)
  PROVE  /\ m2 \in Memories /\ Shape(m2, lev) /\ m2.broken = m.broken
         /\ Translate(m2, v) = IF e.present THEN [frame |-> e.frame, w |-> e.w] ELSE None
         /\ \A u \in VPages : u # v => Translate(m2, u) = Translate(m, u)
<1>1. E2(m, v).frame \in Frames /\ lev[E2(m, v).frame] = 1 /\ Index(v, 1) \in Slots
  BY TableAt, Zenon
<1>2. /\ m2 \in Memories /\ m2.free = m.free /\ m2.broken = m.broken
      /\ At(m2, E2(m, v).frame, Index(v, 1)) = e /\ Elsewhere(m, m2, E2(m, v).frame, Index(v, 1))
  BY Zenon DEF Rewritten
<1>3. EntryRight(m2, lev, E2(m, v).frame, Index(v, 1))
  <2> DEFINE t == E2(m, v).frame
             i == Index(v, 1)
  <2>1. lev[t] = 1 /\ m2.free = m.free /\ At(m2, t, i) = e
    BY <1>1, <1>2, Zenon
  <2>2. e.present => e.frame # Root /\ (e.frame \in Ram => e.frame \notin m.free /\ lev[e.frame] = 0)
    BY Zenon DEF Unlinked
  <2> HIDE DEF t, i
  <2>3. EntryRight(m2, lev, t, i)
    BY <2>1, <2>2 DEF EntryRight, Linked
  <2> QED
    BY <2>3, Zenon DEF t, i
<1>4. Shape(m2, lev)
  <2>1. lev[E2(m, v).frame] # 0 /\ (e.present /\ ~e.huge => Unlinked(m, lev, e.frame))
    BY <1>1
  <2> QED
    BY <1>1, <1>3, <2>1, WriteShape, Zenon
<1>5. /\ E4(m2, v) = E4(m, v) /\ E3(m2, v) = E3(m, v) /\ E2(m2, v) = E2(m, v)
      /\ \A u \in VPages : u # v => Translate(m2, u) = Translate(m, u)
  BY <1>2, <1>4, LeafPages, Zenon
<1>6. E1(m2, v) = e
  BY <1>2, <1>5, Zenon DEF E1
<1>7. Translate(m2, v) = IF e.present THEN [frame |-> e.frame, w |-> e.w] ELSE None
  BY <1>2, <1>4, <1>5, <1>6, TranslateIs, Zenon
<1> QED
  BY <1>2, <1>4, <1>5, <1>7, Zenon

(* The translation of a page.                                              *)
Mapping(p, w) == [frame |-> p, w |-> w]

(* A huge entry of a page directory, or its absence, is the translation of *)
(* the pages of its block.                                                 *)
LEMMA SameBlock ==
  ASSUME NEW m \in Memories, NEW v \in VPages, NEW x \in Block(v)
  PROVE  /\ x \in VPages /\ Index(x, 2) = Index(v, 2)
         /\ E4(m, x) = E4(m, v) /\ E3(m, x) = E3(m, v) /\ E2(m, x) = E2(m, v)
<1>1. x \in VPages /\ Upper(x) = Upper(v)
  BY Zenon DEF Block, Upper
<1>2. Index(x, 4) = Index(v, 4) /\ Index(x, 3) = Index(v, 3) /\ Index(x, 2) = Index(v, 2)
  BY <1>1, IndexNames, Zenon
<1> QED
  BY <1>1, <1>2, Zenon DEF E4, E3, E2

(* A write to the directory entry of page v changes the translation of the  *)
(* pages of its huge block only.                                            *)
LEMMA HugePages ==
  ASSUME NEW m \in Memories, NEW m2 \in Memories, NEW lev \in Levels, Shape(m, lev), Shape(m2, lev),
         NEW v \in VPages, E4(m, v).present, E3(m, v).present,
         Elsewhere(m, m2, E3(m, v).frame, Index(v, 2))
  PROVE  /\ E4(m2, v) = E4(m, v) /\ E3(m2, v) = E3(m, v)
         /\ \A u \in VPages \ Block(v) : Translate(m2, u) = Translate(m, u)
<1> DEFINE t == E3(m, v).frame
           i == Index(v, 2)
<1>1. lev[t] = 2
  BY DirectoryAt, Zenon
<1>2. Elsewhere(m, m2, t, i)
  BY Zenon
<1> HIDE DEF t, i
<1>3. ASSUME NEW u \in VPages
      PROVE  E4(m2, u) = E4(m, u) /\ (E4(m, u).present => E3(m2, u) = E3(m, u))
  BY <1>1, <1>2, UpperKept
<1>4. ASSUME NEW u \in VPages, u \notin Block(v) PROVE Translate(m2, u) = Translate(m, u)
  <2>1. ASSUME E4(m, u).present, E3(m, u).present
        PROVE  E3(m, u).frame # t \/ Index(u, 2) # i
    <3>1. SUFFICES ASSUME E3(m, u).frame = t, Index(u, 2) = i PROVE FALSE
      BY Zenon
    <3>2. Index(u, 4) = Index(v, 4) /\ Index(u, 3) = Index(v, 3) /\ Index(u, 2) = Index(v, 2)
      BY <2>1, <3>1, SamePath, Zenon DEF t, i
    <3>3. Upper(u) = Upper(v)
      BY <3>2, IndexNames, Zenon
    <3> QED
      BY <1>4, <3>3, Zenon DEF Block, Upper
  <2>2. ASSUME E4(m, u).present, E3(m, u).present PROVE E2(m2, u) = E2(m, u)
    BY <1>1, <1>2, <2>1, <2>2, DirectoryKept
  <2>3. ASSUME E4(m, u).present, E3(m, u).present, E2(m, u).present, ~E2(m, u).huge
        PROVE  E1(m2, u) = E1(m, u)
    <3>1. E2(m, u).frame # t
      BY <1>1, <2>3, TableAt
    <3>2. E2(m2, u) = E2(m, u)
      BY <2>2, <2>3, Zenon
    <3> QED
      BY <1>1, <1>2, <2>3, <3>1, <3>2, TableKept
  <2> QED
    BY <1>3, <2>2, <2>3, SameTranslation, Zenon
<1> QED
  BY <1>3, <1>4, Zenon

(* An entry for a page directory: none, or a huge page outside the RAM.    *)
HugeRight(e) ==
  /\ ~e.present => e = Empty
  /\ e.present => e.huge /\ \A k \in Slots : e.frame + k \notin Ram

(* Writing the directory entry of page v maps, or unmaps, its huge block    *)
(* and no other page.                                                       *)
LEMMA HugeWritten ==
  ASSUME NEW m \in Memories, NEW lev \in Levels, Shape(m, lev), NEW v \in VPages,
         E4(m, v).present, E3(m, v).present,
         NEW e \in Entries, HugeRight(e), NEW m2, Rewritten(m, m2, E3(m, v).frame, Index(v, 2), e)
  PROVE  /\ m2 \in Memories /\ Shape(m2, lev) /\ m2.broken = m.broken
         /\ e.present => \A x \in Block(v) : Translate(m2, x) = Mapping(e.frame + (x % Fan), e.w)
         /\ ~e.present => \A x \in Block(v) : Translate(m2, x) = None
         /\ \A x \in VPages : x \notin Block(v) => Translate(m2, x) = Translate(m, x)
         /\ ~E2(m, v).present => \A x \in Block(v) : Translate(m, x) = None
<1>1. E3(m, v).frame \in Frames /\ lev[E3(m, v).frame] = 2 /\ Index(v, 2) \in Slots
  BY DirectoryAt, Zenon
<1>2. /\ m2 \in Memories /\ m2.free = m.free /\ m2.broken = m.broken
      /\ At(m2, E3(m, v).frame, Index(v, 2)) = e /\ Elsewhere(m, m2, E3(m, v).frame, Index(v, 2))
  BY Zenon DEF Rewritten
<1>3. EntryRight(m2, lev, E3(m, v).frame, Index(v, 2))
  BY <1>1, <1>2, Zenon DEF EntryRight, Linked, HugeRight
<1>4. Shape(m2, lev)
  <2>1. lev[E3(m, v).frame] # 0 /\ (e.present /\ ~e.huge => Unlinked(m, lev, e.frame))
    BY <1>1 DEF HugeRight
  <2> QED
    BY <1>1, <1>3, <2>1, WriteShape, Zenon
<1>5. /\ E4(m2, v) = E4(m, v) /\ E3(m2, v) = E3(m, v)
      /\ \A x \in VPages : x \notin Block(v) => Translate(m2, x) = Translate(m, x)
  BY <1>2, <1>4, HugePages
<1>6. E2(m2, v) = e
  BY <1>2, <1>5, Zenon DEF E2
<1>7. ASSUME NEW x \in Block(v)
      PROVE  /\ e.present => Translate(m2, x) = Mapping(e.frame + (x % Fan), e.w)
             /\ ~e.present => Translate(m2, x) = None
             /\ ~E2(m, v).present => Translate(m, x) = None
  <2>1. x \in VPages /\ E4(m, x) = E4(m, v) /\ E3(m, x) = E3(m, v) /\ E2(m, x) = E2(m, v)
    BY SameBlock, Zenon
  <2>2. E4(m2, x).present /\ E3(m2, x).present /\ E2(m2, x) = e
    BY <1>2, <1>5, <1>6, SameBlock, Zenon
  <2>3. ~E2(m, v).present => Translate(m, x) = None
    BY <2>1, TranslateIs, Zenon
  <2>4. /\ e.present => Translate(m2, x) = Mapping(e.frame + (x % Fan), e.w)
        /\ ~e.present => Translate(m2, x) = None
    BY <1>2, <1>4, <2>1, <2>2, TranslateIs, Zenon DEF Mapping, HugeRight
  <2> QED
    BY <2>3, <2>4, Zenon
<1> QED
  BY <1>2, <1>4, <1>5, <1>7, Zenon

(* The same, for one page outside the block.                                *)
LEMMA HugeElsewhere ==
  ASSUME NEW m \in Memories, NEW lev \in Levels, Shape(m, lev), NEW v \in VPages,
         E4(m, v).present, E3(m, v).present,
         NEW e \in Entries, HugeRight(e), NEW m2, Rewritten(m, m2, E3(m, v).frame, Index(v, 2), e),
         NEW x \in VPages, x \notin Block(v)
  PROVE  Translate(m2, x) = Translate(m, x)
<1>1. m2 \in Memories /\ Shape(m2, lev)
  BY HugeWritten, Zenon
<1>2. Elsewhere(m, m2, E3(m, v).frame, Index(v, 2))
  BY Zenon DEF Rewritten
<1>3. \A u \in VPages \ Block(v) : Translate(m2, u) = Translate(m, u)
  BY <1>1, <1>2, HugePages, Zenon
<1> QED
  BY <1>3, Zenon
=============================================================================
