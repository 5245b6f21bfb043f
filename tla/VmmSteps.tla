----------------------------- MODULE VmmSteps -------------------------------
(***************************************************************************)
(* The walk of vmm_get_pte, the invariant of the virtual memory manager,   *)
(* and lemmas about what each of its steps does, for any fan-out of the    *)
(* tables, any memory and any calls.                                       *)
(***************************************************************************)
EXTENDS Vmm, VmmWalks

-----------------------------------------------------------------------------
(* The walk of vmm_get_pte.                                                *)

(* vmm_get_pte: the entry of the page after a walk that translates every   *)
(* page as before.                                                         *)
LEMMA PteTyped ==
  ASSUME NEW m \in Memories, NEW v \in VPages
  PROVE  /\ Pte(m, v).m \in Memories /\ (m.broken => Pte(m, v).m.broken)
         /\ Pte(m, v).i \in Slots
         /\ Pte(m, v).m = IF PdEntry(m, v).huge THEN ToPD(m, v).m ELSE ToPT(m, v).m
<1>1. Index(v, 1) \in Slots /\ Index(v, 2) \in Slots
  BY IndexSlots, Zenon
<1>2. /\ ToPD(m, v).m \in Memories /\ (m.broken => ToPD(m, v).m.broken)
      /\ ToPT(m, v).m \in Memories /\ (ToPD(m, v).m.broken => ToPT(m, v).m.broken)
  BY ToTyped, Zenon
<1>3. /\ Pte(m, v).i = IF PdEntry(m, v).huge THEN Index(v, 2) ELSE Index(v, 1)
      /\ Pte(m, v).m = IF PdEntry(m, v).huge THEN ToPD(m, v).m ELSE ToPT(m, v).m
  BY Zenon DEF Pte
<1> QED
  BY <1>1, <1>2, <1>3, Zenon

(* The answer r of the walk for page v of m: the tables it leaves are those *)
(* of m grown from levels lev to lev2, and it names the entry the page is   *)
(* translated by, the directory's when that one maps a huge page and the    *)
(* table's otherwise.                                                       *)
PteFound(m, lev, v, r, lev2) ==
  /\ Grown(m, lev, r.m, lev2) /\ E4(r.m, v).present /\ E3(r.m, v).present
  /\ r.e \in Entries /\ (~r.e.present => r.e = Empty)
  /\ r.e.huge <=> PdEntry(m, v).huge
  /\ r.e.huge => /\ E2(r.m, v) = r.e /\ r.e.present
                 /\ r.t = E3(r.m, v).frame /\ r.i = Index(v, 2)
  /\ ~r.e.huge => /\ E2(r.m, v).present /\ ~E2(r.m, v).huge /\ E1(r.m, v) = r.e
                  /\ r.t = E2(r.m, v).frame /\ r.i = Index(v, 1)

(* get_pte, when every table it needs can be had, answers with that entry.  *)
LEMMA PteRight ==
  ASSUME NEW m \in Memories, NEW lev \in Levels, Shape(m, lev), NEW v \in VPages,
         NEW r, r = Pte(m, v), ~r.m.broken
  PROVE  \E lev2 \in Levels : PteFound(m, lev, v, r, lev2)
<1>1. CASE PdEntry(m, v).huge
  <2> DEFINE pd == ToPD(m, v)
  <2>1. r = [m |-> pd.m, t |-> pd.t, i |-> Index(v, 2), e |-> PdEntry(m, v)]
    BY <1>1, Zenon DEF Pte
  <2>2. PdEntry(m, v) = At(pd.m, pd.t, Index(v, 2))
    BY Zenon DEF PdEntry
  <2>3. r.m = pd.m /\ r.t = pd.t /\ r.i = Index(v, 2) /\ r.e = PdEntry(m, v)
    BY <2>1
  <2>4. PICK lev2 \in Levels :
          /\ Grown(m, lev, pd.m, lev2)
          /\ pd.t \in Frames /\ lev2[pd.t] = 2
          /\ E4(pd.m, v).present /\ E3(pd.m, v).present
          /\ E3(pd.m, v).frame = pd.t
    BY <2>3, ToPDGrown, Zenon
  <2> HIDE DEF pd
  <2>5. pd.m \in Memories /\ Shape(pd.m, lev2)
    BY <2>4, Zenon DEF Grown
  <2>6. E2(pd.m, v) = r.e
    BY <2>2, <2>3, <2>4, Zenon DEF E2
  <2>7. r.e \in Entries /\ (~r.e.present => r.e = Empty)
    BY <2>4, <2>5, <2>6, PathRight
  <2>8. r.e.huge /\ r.e.present
    BY <1>1, <2>3, <2>7 DEF Empty
  <2> QED
    <3>1. PteFound(m, lev, v, r, lev2)
      BY <1>1, <2>3, <2>4, <2>6, <2>7, <2>8, Zenon DEF PteFound
    <3> QED
      BY <3>1, Zenon
<1>2. CASE ~PdEntry(m, v).huge
  <2> DEFINE pt == ToPT(m, v)
  <2>1. r = [m |-> pt.m, t |-> pt.t, i |-> Index(v, 1), e |-> At(pt.m, pt.t, Index(v, 1))]
    BY <1>2, Zenon DEF Pte
  <2>2. r.m = pt.m /\ r.t = pt.t /\ r.i = Index(v, 1) /\ r.e = At(pt.m, pt.t, Index(v, 1))
    BY <2>1
  <2>3. PICK lev2 \in Levels :
          /\ Grown(m, lev, pt.m, lev2)
          /\ pt.t \in Frames /\ lev2[pt.t] = 1
          /\ E4(pt.m, v).present /\ E3(pt.m, v).present
          /\ E2(pt.m, v).present /\ ~E2(pt.m, v).huge
          /\ E2(pt.m, v).frame = pt.t
    BY <2>2, ToPTGrown, Zenon
  <2> HIDE DEF pt
  <2>4. pt.m \in Memories /\ Shape(pt.m, lev2)
    BY <2>3, Zenon DEF Grown
  <2>5. E1(pt.m, v) = r.e
    BY <2>2, <2>3, Zenon DEF E1
  <2>6. r.e \in Entries /\ (~r.e.present => r.e = Empty) /\ (r.e.present => ~r.e.huge)
    BY <2>3, <2>4, <2>5, PathRight
  <2>7. ~r.e.huge
    BY <2>6 DEF Empty
  <2> QED
    <3>1. PteFound(m, lev, v, r, lev2)
      BY <1>2, <2>2, <2>3, <2>5, <2>6, <2>7, Zenon DEF PteFound
    <3> QED
      BY <3>1, Zenon
<1> QED
  BY <1>1, <1>2, Zenon

(* Consequences for the translation of the page.                           *)
LEMMA PteTranslates ==
  ASSUME NEW m \in Memories, NEW lev \in Levels, Shape(m, lev), NEW v \in VPages,
         NEW r, r = Pte(m, v), ~r.m.broken
  PROVE  /\ \E lev2 \in Levels : Shape(r.m, lev2)
         /\ \A x \in VPages : Translate(r.m, x) = Translate(m, x)
         /\ r.e.present <=> Translate(m, v) # None
         /\ r.e.present => Translate(m, v).w = r.e.w
         /\ r.e.present /\ ~r.e.huge => Translate(m, v).frame = r.e.frame
         /\ ~r.e.present => ~r.e.w
<1>1. PICK lev2 \in Levels : PteFound(m, lev, v, r, lev2)
  BY PteRight, Zenon
<1>2. r.m \in Memories /\ Shape(r.m, lev2) /\ \A x \in VPages : Translate(r.m, x) = Translate(m, x)
  BY <1>1, Zenon DEF PteFound, Grown
<1>3. r.e.frame \in Nat /\ r.e.w \in BOOLEAN
  BY <1>1, Zenon DEF PteFound, Entries
<1>4. v % Fan \in Nat
  BY DivMod, FanAssumption, Facts DEF VPages
<1>5. ASSUME r.e.huge PROVE Translate(r.m, v) = [frame |-> r.e.frame + (v % Fan), w |-> r.e.w]
  BY <1>1, <1>2, <1>5, TranslateIs, Zenon DEF PteFound
<1>6. ASSUME ~r.e.huge, r.e.present PROVE Translate(r.m, v) = [frame |-> r.e.frame, w |-> r.e.w]
  BY <1>1, <1>2, <1>6, TranslateIs, Zenon DEF PteFound
<1>7. ASSUME ~r.e.present PROVE Translate(r.m, v) = None /\ ~r.e.w
  <2>1. ~r.e.huge /\ ~r.e.w
    BY <1>1, <1>7 DEF PteFound, Empty
  <2> QED
    BY <1>1, <1>2, <1>7, <2>1, TranslateIs, Zenon DEF PteFound
<1>8. ASSUME r.e.present
      PROVE  /\ Translate(r.m, v) # None /\ Translate(r.m, v).w = r.e.w
             /\ ~r.e.huge => Translate(r.m, v).frame = r.e.frame
  <2>1. CASE r.e.huge
    BY <1>3, <1>4, <1>5, <2>1 DEF None
  <2>2. CASE ~r.e.huge
    BY <1>3, <1>6, <1>8, <2>2 DEF None
  <2> QED
    BY <2>1, <2>2, Zenon
<1>9. Translate(r.m, v) = Translate(m, v)
  BY <1>2, Zenon
<1> QED
  BY <1>2, <1>7, <1>8, <1>9, Zenon

-----------------------------------------------------------------------------
(* The inductive invariant.                                                *)

(* The call in progress.                                                   *)
Calls == [kind : {"none", "map", "unmap", "pin"}, v : VPages, p : Nat, n : Nat,
          w : BOOLEAN, huge : BOOLEAN, first : Nat, need : Nat]

CallRight ==
  /\ op \in Calls
  /\ op.kind \in {"map", "unmap"} => op.n > 0
  /\ op.kind = "map" /\ ~op.huge => \A i \in 0 .. (op.n - 1) : op.p + i \notin Ram \cup {Root}
  /\ op.kind = "map" /\ op.huge => \A k \in Slots : op.p - (op.p % Fan) + k \notin Ram
  /\ op.kind = "pin" => op.n \in VPages

(* Pages that the running vmm_pin_pages has found pinned.                  *)
PinProgress ==
  op.kind = "pin" => \A v \in op.first .. (op.v - 1) : Pinned(mem, v, op.w)

(* The inductive invariant: typed as they should be in every state; and,   *)
(* as long as no walk has left the tables, these form a tree, the TLB      *)
(* agrees with them, and a running vmm_pin_pages has not lost a page.      *)
VmmInv ==
  /\ mem \in Memories /\ CallRight /\ halted \in BOOLEAN /\ DOMAIN tlb = VPages
  /\ ~mem.broken =>
       /\ \E lev \in Levels : Shape(mem, lev)
       /\ TlbCoherent
       /\ PinProgress

-----------------------------------------------------------------------------
(* Calls in progress.                                                      *)

(* With no call in progress there is nothing to hold of the call.           *)
LEMMA IdleCall ==
  /\ Idle \in Calls /\ Idle.kind = "none"
  /\ op' = Idle => CallRight' /\ PinProgress' /\ op'.kind = "none"
<1>1. Idle \in Calls
  BY Facts DEF Idle, Calls, VPages
<1>2. Idle.kind = "none"
  BY Zenon DEF Idle
<1>3. "none" # "map" /\ "none" # "unmap" /\ "none" # "pin"
  BY Zenon
<1> QED
  BY <1>1, <1>2, <1>3, Zenon DEF CallRight, PinProgress

(* The next page of vmm_map and vmm_unmap.                                 *)
Onward(c, by, frames) == [c EXCEPT !.v = Ahead(c.v, by), !.p = @ + frames, !.n = @ - 1]

(* The fields of a map or unmap call at its next page.                      *)
LEMMA OnwardFields ==
  ASSUME NEW c \in Calls, c.n > 1, NEW by \in Nat, NEW frames \in Nat, NEW d, d = Onward(c, by, frames)
  PROVE  /\ d \in Calls /\ d.kind = c.kind /\ d.huge = c.huge
         /\ d.p = c.p + frames /\ d.n = c.n - 1
<1>1. Ahead(c.v, by) \in VPages
  <2>1. c.v + by \in Nat /\ PageTotal \in Nat \ {0}
    BY Facts DEF Calls, VPages
  <2>2. (c.v + by) % PageTotal \in 0 .. (PageTotal - 1)
    BY <2>1, DivMod, Zenon
  <2> QED
    BY <2>2, Zenon DEF Ahead, VPages
<1>2. c.p + frames \in Nat /\ c.n - 1 \in Nat
  BY DEF Calls
<1>3. d \in Calls
  BY <1>1, <1>2, Zenon DEF Calls, Onward
<1>4. d.kind = c.kind
  BY Zenon DEF Calls, Onward
<1>5. d.huge = c.huge
  BY Zenon DEF Calls, Onward
<1>6. d.p = c.p + frames /\ d.n = c.n - 1
  BY Zenon DEF Calls, Onward
<1> QED
  BY <1>3, <1>4, <1>5, <1>6, Zenon

(* A map or unmap loop goes on, or returns, with a well formed call.        *)
LEMMA ContinueRight ==
  ASSUME CallRight, op.kind \in {"map", "unmap"}, NEW by \in Nat, NEW frames \in Nat, Continue(by, frames),
         op.kind = "map" /\ ~op.huge => frames = 1,
         op.kind = "map" /\ op.huge => frames = 0
  PROVE  CallRight' /\ op'.kind # "pin"
<1>1. CASE op.n = 1
  <2>1. op' = Idle
    BY <1>1, Zenon DEF Continue, Return
  <2> QED
    BY <2>1, IdleCall, Zenon
<1>2. CASE op.n # 1
  <2>1. op' = Onward(op, by, frames)
    BY <1>2, Zenon DEF Continue, Onward
  <2>2. op \in Calls /\ op.n \in Nat /\ op.n > 0 /\ op.p \in Nat /\ op.huge \in BOOLEAN
    BY Zenon DEF CallRight, Calls
  <2>3. /\ op' \in Calls /\ op'.kind = op.kind /\ op'.huge = op.huge
        /\ op'.p = op.p + frames /\ op'.n = op.n - 1
    BY <1>2, <2>1, <2>2, OnwardFields
  <2>4. op'.n > 0
    BY <1>2, <2>2, <2>3
  <2>5. ASSUME op'.kind = "map", ~op'.huge, NEW i \in 0 .. (op'.n - 1) PROVE op'.p + i \notin Ram \cup {Root}
    <3>1. op.kind = "map" /\ ~op.huge
      BY <2>3, <2>5, Zenon
    <3>2. i + 1 \in 0 .. (op.n - 1) /\ op'.p + i = op.p + (i + 1)
      BY <2>2, <2>3, <2>5, <3>1
    <3> QED
      BY <3>1, <3>2, Zenon DEF CallRight
  <2>6. ASSUME op'.kind = "map", op'.huge PROVE \A k \in Slots : op'.p - (op'.p % Fan) + k \notin Ram
    <3>1. op.kind = "map" /\ op.huge /\ op'.p = op.p
      BY <2>2, <2>3, <2>6
    <3> QED
      BY <3>1, Zenon DEF CallRight
  <2>7. op'.kind # "pin"
    BY <2>3, Zenon
  <2> QED
    BY <2>3, <2>4, <2>5, <2>6, <2>7, Zenon DEF CallRight
<1> QED
  BY <1>1, <1>2, Zenon

-----------------------------------------------------------------------------
(* What the steps of calls do to translations.                             *)

Same(x) == Translate(mem', x) = Translate(mem, x)

(* The invlpg after a change.                                              *)
LEMMA Flushed ==
  ASSUME VmmInv, ~mem.broken, NEW S, Flush(S) \/ (S = {} /\ tlb' = tlb), \A x \in VPages \ S : Same(x)
  PROVE  DOMAIN tlb' = VPages /\ TlbCoherent'
<1>1. \A x \in VPages : tlb[x] # None => tlb[x] = Translate(mem, x)
  BY Zenon DEF VmmInv, TlbCoherent
<1>2. DOMAIN tlb' = VPages
  BY Zenon DEF VmmInv, Flush
<1>3. \A x \in VPages : tlb'[x] = None \/ (x \notin S /\ tlb'[x] = tlb[x])
  BY Zenon DEF Flush
<1>4. \A x \in VPages : tlb'[x] # None => tlb'[x] = Translate(mem', x)
  BY <1>1, <1>3, Zenon DEF Same
<1> QED
  BY <1>2, <1>4, Zenon DEF TlbCoherent

MapDone ==
  /\ Translate(mem, op.v) = None /\ Translate(mem', op.v) = Mapping(op.p, op.w)
  /\ \A x \in VPages \ {op.v} : Same(x)
  /\ Flush({op.v})

MapRefused ==
  /\ Translate(mem, op.v) # None \/ op.huge
  /\ \A x \in VPages : Same(x)
  /\ op' = Idle /\ ret' = Code("EEXIST") /\ tlb' = tlb

(* One round of the loop of vmm_map: it maps its page or refuses it.        *)
LEMMA MapStepDoes ==
  ASSUME VmmInv, MapStep
  PROVE  /\ mem' \in Memories /\ (mem.broken => mem'.broken)
         /\ CallRight' /\ op'.kind # "pin" /\ DOMAIN tlb' = VPages /\ halted' = halted
         /\ ~mem'.broken => (\E lev \in Levels : Shape(mem', lev)) /\ (MapDone \/ MapRefused)
<1> DEFINE r == MapSmall(mem, op.v, op.p, op.w)
<1>1. /\ mem \in Memories /\ op \in Calls /\ op.v \in VPages /\ op.p \in Nat /\ op.w \in BOOLEAN
      /\ op.kind = "map" /\ ~op.huge /\ op.n \in Nat /\ op.n > 0
  BY Zenon DEF VmmInv, CallRight, Calls, MapStep
<1>2. mem' = r.m /\ halted' = halted
  BY Zenon DEF MapStep
<1>3. IF r.ok THEN Continue(1, 1) /\ Flush({op.v}) ELSE Return("EEXIST") /\ tlb' = tlb
  BY Zenon DEF MapStep
<1>4. r.m \in Memories /\ r.m.broken = ToPT(mem, op.v).m.broken
  BY <1>1, MapSmallTyped, Zenon
<1>5. mem.broken => mem'.broken
  BY <1>1, <1>2, <1>4, ToTyped, Zenon
<1> DEFINE q == r
<1>6. q = MapSmall(mem, op.v, op.p, op.w)
  BY Zenon
<1> HIDE DEF q
<1>7. CallRight' /\ op'.kind # "pin"
  <2>1. CASE r.ok
    BY <1>1, <1>3, <2>1, ContinueRight, Zenon DEF VmmInv
  <2>2. CASE ~r.ok
    BY <1>3, <2>2, IdleCall, Zenon DEF Return
  <2> QED
    BY <2>1, <2>2, Zenon
<1>8. DOMAIN tlb' = VPages
  BY <1>3, Zenon DEF VmmInv, Flush
<1>9. ASSUME ~mem'.broken PROVE (\E lev \in Levels : Shape(mem', lev)) /\ (MapDone \/ MapRefused)
  <2>1. PICK lev \in Levels : Shape(mem, lev)
    BY <1>5, <1>9, Zenon DEF VmmInv
  <2>2. op.p # Root /\ op.p \notin Ram
    <3>1. 0 \in 0 .. (op.n - 1) /\ op.p + 0 = op.p
      BY <1>1
    <3> QED
      BY <1>1, <3>1, Zenon DEF VmmInv, CallRight
  <2>3. Unlinked(mem, lev, op.p)
    BY <2>2, Zenon DEF Unlinked
  <2>4. q.m = mem' /\ ~q.m.broken
    BY <1>2, <1>9, Zenon DEF q
  <2>5. /\ \E lev2 \in Levels : Shape(q.m, lev2)
        /\ q.ok \in BOOLEAN
        /\ q.ok => Translate(mem, op.v) = None /\ Translate(q.m, op.v) = Mapping(op.p, op.w)
        /\ ~q.ok => Translate(mem, op.v) # None /\ Translate(q.m, op.v) = Translate(mem, op.v)
        /\ \A u \in VPages : u # op.v => Translate(q.m, u) = Translate(mem, u)
    BY <1>1, <1>6, <2>1, <2>2, <2>3, <2>4, MapSmallRight
  <2>6. CASE q.ok
    BY <1>3, <2>4, <2>5, <2>6, Zenon DEF q, MapDone, Same
  <2>7. CASE ~q.ok
    BY <1>3, <2>4, <2>5, <2>7, Zenon DEF q, MapRefused, Return, Same
  <2> QED
    BY <2>4, <2>5, <2>6, <2>7, Zenon
<1> QED
  BY <1>2, <1>4, <1>5, <1>7, <1>8, <1>9, Zenon

HugeDone ==
  /\ \A x \in Block(op.v) :
       Translate(mem, x) = None /\ Translate(mem', x) = Mapping(op.p - (op.p % Fan) + (x % Fan), op.w)
  /\ \A x \in VPages \ Block(op.v) : Same(x)
  /\ Flush(Block(op.v))

(* One round of the huge map loop: it maps its block or refuses it.         *)
LEMMA MapHugeStepDoes ==
  ASSUME VmmInv, MapHugeStep
  PROVE  /\ mem' \in Memories /\ (mem.broken => mem'.broken)
         /\ CallRight' /\ op'.kind # "pin" /\ DOMAIN tlb' = VPages /\ halted' = halted
         /\ ~mem'.broken => (\E lev \in Levels : Shape(mem', lev)) /\ (HugeDone \/ MapRefused)
<1> DEFINE r == MapHuge(mem, op.v, op.p, op.w)
<1>1. /\ mem \in Memories /\ op \in Calls /\ op.v \in VPages /\ op.p \in Nat /\ op.w \in BOOLEAN
      /\ op.kind = "map" /\ op.huge /\ op.n \in Nat /\ op.n > 0
  BY Zenon DEF VmmInv, CallRight, Calls, MapHugeStep
<1>2. mem' = r.m /\ halted' = halted
  BY Zenon DEF MapHugeStep
<1>3. IF r.ok THEN Continue(Fan, 0) /\ Flush(Block(op.v)) ELSE Return("EEXIST") /\ tlb' = tlb
  BY Zenon DEF MapHugeStep
<1>4. r.m \in Memories /\ r.m.broken = ToPD(mem, op.v).m.broken
  BY <1>1, MapHugeTyped
<1>5. mem.broken => mem'.broken
  BY <1>1, <1>2, <1>4, ToTyped, Zenon
<1> DEFINE q == r
<1>6. q = MapHuge(mem, op.v, op.p, op.w)
  BY Zenon
<1> HIDE DEF q
<1>7. CallRight' /\ op'.kind # "pin"
  <2>1. CASE r.ok
    BY <1>1, <1>3, <2>1, ContinueRight, FanAssumption, Zenon DEF VmmInv
  <2>2. CASE ~r.ok
    BY <1>3, <2>2, IdleCall, Zenon DEF Return
  <2> QED
    BY <2>1, <2>2, Zenon
<1>8. DOMAIN tlb' = VPages
  BY <1>3, Zenon DEF VmmInv, Flush
<1>9. ASSUME ~mem'.broken PROVE (\E lev \in Levels : Shape(mem', lev)) /\ (HugeDone \/ MapRefused)
  <2>1. PICK lev \in Levels : Shape(mem, lev)
    BY <1>5, <1>9, Zenon DEF VmmInv
  <2>2. \A k \in Slots : op.p - (op.p % Fan) + k \notin Ram
    BY <1>1, Zenon DEF VmmInv, CallRight
  <2>4. q.m = mem' /\ ~q.m.broken
    BY <1>2, <1>9, Zenon DEF q
  <2>5. /\ \E lev2 \in Levels : Shape(q.m, lev2)
        /\ q.ok \in BOOLEAN
        /\ q.ok => \A x \in Block(op.v) :
                     /\ Translate(mem, x) = None
                     /\ Translate(q.m, x) = Mapping(op.p - (op.p % Fan) + (x % Fan), op.w)
        /\ \A x \in VPages : ~q.ok \/ x \notin Block(op.v) => Translate(q.m, x) = Translate(mem, x)
    BY <1>1, <1>6, <2>1, <2>2, <2>4, MapHugeRight
  <2>6. CASE q.ok
    BY <1>3, <2>4, <2>5, <2>6, Zenon DEF q, HugeDone, Same
  <2>7. CASE ~q.ok
    BY <1>1, <1>3, <2>4, <2>5, <2>7, Zenon DEF q, MapRefused, Return, Same
  <2> QED
    BY <2>4, <2>5, <2>6, <2>7, Zenon
<1> QED
  BY <1>2, <1>4, <1>5, <1>7, <1>8, <1>9, Zenon

UnmapOne ==
  /\ Translate(mem', op.v) = None
  /\ \A x \in VPages \ {op.v} : Same(x)
  /\ Flush({op.v})

UnmapBlock ==
  /\ \A x \in Block(op.v) : Translate(mem', x) = None
  /\ \A x \in VPages \ Block(op.v) : Same(x)
  /\ Flush(Block(op.v))

(* One round of the loop of vmm_unmap: it clears one page, or one huge      *)
(* block.                                                                   *)
LEMMA UnmapStepDoes ==
  ASSUME VmmInv, UnmapStep
  PROVE  /\ mem' \in Memories /\ (mem.broken => mem'.broken)
         /\ CallRight' /\ op'.kind # "pin" /\ DOMAIN tlb' = VPages /\ halted' = halted
         /\ ~mem'.broken => (\E lev \in Levels : Shape(mem', lev)) /\ (UnmapOne \/ UnmapBlock)
<1> DEFINE r == Pte(mem, op.v)
           a == r.m
           t == r.t
           i == r.i
           e == r.e
<1>1. mem \in Memories /\ op.v \in VPages /\ op.kind = "unmap"
  BY Zenon DEF VmmInv, CallRight, Calls, UnmapStep
<1>2. mem' = SetEntry(a, t, i, Empty) /\ halted' = halted
  BY Zenon DEF UnmapStep
<1>3. IF e.huge THEN Continue(Fan, 0) /\ Flush(Block(op.v)) ELSE Continue(1, 0) /\ Flush({op.v})
  BY Zenon DEF UnmapStep
<1>4. a \in Memories /\ (mem.broken => a.broken) /\ i \in Slots
  BY <1>1, PteTyped, Zenon
<1>5. Empty \in Entries /\ ~Empty.present
  BY Zenon DEF Empty, Entries
<1>6. r = Pte(mem, op.v)
  BY Zenon
<1> HIDE DEF r
<1>7. mem' \in Memories /\ mem'.broken = a.broken
  <2> HIDE DEF a, t, i
  <2> QED
    BY <1>2, <1>4, <1>5, EntrySet, Zenon
<1>8. CallRight' /\ op'.kind # "pin"
  BY <1>1, <1>3, ContinueRight, FanAssumption, Zenon DEF VmmInv
<1>9. DOMAIN tlb' = VPages
  BY <1>3, Zenon DEF Flush
<1>10. ASSUME ~mem'.broken PROVE (\E lev \in Levels : Shape(mem', lev)) /\ (UnmapOne \/ UnmapBlock)
  <2>1. PICK lev \in Levels : Shape(mem, lev)
    BY <1>4, <1>7, <1>10, Zenon DEF VmmInv
  <2>2. PICK lev2 \in Levels : PteFound(mem, lev, op.v, r, lev2)
    BY <1>1, <1>6, <1>7, <1>10, <2>1, PteRight, Zenon
  <2>3. Shape(a, lev2) /\ \A x \in VPages : Translate(a, x) = Translate(mem, x)
    BY <2>2, Zenon DEF PteFound, Grown
  <2>4. CASE e.huge
    <3>1. /\ E4(a, op.v).present /\ E3(a, op.v).present /\ E2(a, op.v).huge
          /\ mem' = SetEntry(a, E3(a, op.v).frame, Index(op.v, 2), Empty)
      BY <1>2, <2>2, <2>4, Zenon DEF PteFound
    <3>2. E3(a, op.v).frame \in Frames /\ Index(op.v, 2) \in Slots /\ HugeRight(Empty)
      <4> HIDE DEF a, e
      <4> QED
        BY <1>1, <1>4, <1>5, <2>3, <3>1, DirectoryAt, Zenon DEF HugeRight
    <3> DEFINE b == mem'
               v == op.v
    <3>3. /\ a \in Memories /\ Shape(a, lev2) /\ v \in VPages /\ E4(a, v).present /\ E3(a, v).present
          /\ b = SetEntry(a, E3(a, v).frame, Index(v, 2), Empty)
          /\ E3(a, v).frame \in Frames /\ Index(v, 2) \in Slots
      BY <1>1, <1>4, <2>3, <3>1, <3>2, Zenon
    <3> HIDE DEF a, b, e, v
    <3>4. Rewritten(a, b, E3(a, v).frame, Index(v, 2), Empty)
      BY <1>5, <3>3, EntryWritten, Zenon
    <3>5. Shape(b, lev2) /\ \A x \in Block(v) : Translate(b, x) = None
      BY <1>5, <3>2, <3>3, <3>4, HugeWritten
    <3>6. ASSUME NEW x \in VPages, x \notin Block(v) PROVE Translate(b, x) = Translate(a, x)
      BY <1>5, <3>2, <3>3, <3>4, <3>6, HugeElsewhere
    <3>7. /\ Shape(mem', lev2)
          /\ \A x \in Block(op.v) : Translate(mem', x) = None
          /\ \A x \in VPages \ Block(op.v) : Translate(mem', x) = Translate(a, x)
      BY <3>5, <3>6, Zenon DEF b, v
    <3> QED
      BY <1>3, <2>3, <2>4, <3>7, Zenon DEF UnmapBlock, Same
  <2>5. CASE ~e.huge
    <3>1. /\ E4(a, op.v).present /\ E3(a, op.v).present /\ E2(a, op.v).present /\ ~E2(a, op.v).huge
          /\ mem' = SetEntry(a, E2(a, op.v).frame, Index(op.v, 1), Empty)
      BY <1>2, <2>2, <2>5, Zenon DEF PteFound
    <3>2. E2(a, op.v).frame \in Frames /\ Index(op.v, 1) \in Slots
      <4> HIDE DEF a, e
      <4> QED
        BY <1>1, <1>4, <2>3, <3>1, TableAt, Zenon
    <3> DEFINE b == mem'
               v == op.v
    <3>3. /\ a \in Memories /\ Shape(a, lev2) /\ v \in VPages /\ E4(a, v).present /\ E3(a, v).present
          /\ E2(a, v).present /\ ~E2(a, v).huge
          /\ b = SetEntry(a, E2(a, v).frame, Index(v, 1), Empty)
          /\ E2(a, v).frame \in Frames /\ Index(v, 1) \in Slots
      BY <1>1, <1>4, <2>3, <3>1, <3>2, Zenon
    <3> HIDE DEF a, b, e, v
    <3>4. Rewritten(a, b, E2(a, v).frame, Index(v, 1), Empty)
      BY <1>5, <3>3, EntryWritten, Zenon
    <3>5. /\ Shape(b, lev2)
          /\ Translate(b, v) = None
          /\ \A x \in VPages : x # v => Translate(b, x) = Translate(a, x)
      BY <1>5, <3>3, <3>4, LeafWritten
    <3>6. /\ Shape(mem', lev2)
          /\ Translate(mem', op.v) = None
          /\ \A x \in VPages : x # op.v => Translate(mem', x) = Translate(a, x)
      BY <3>5, Zenon DEF b, v
    <3> QED
      BY <1>3, <2>3, <2>5, <3>6, Zenon DEF UnmapOne, Same
  <2> QED
    BY <2>4, <2>5, Zenon
<1> QED
  BY <1>2, <1>4, <1>7, <1>8, <1>9, <1>10, Zenon

(* A walk of vmm_get_pte.                                                  *)
LEMMA PteKeeps ==
  ASSUME VmmInv, NEW v \in VPages, NEW r, r = Pte(mem, v)
  PROVE  /\ r.m \in Memories /\ (mem.broken => r.m.broken)
         /\ ~r.m.broken =>
              /\ \E lev \in Levels : Shape(r.m, lev)
              /\ \A x \in VPages : Translate(r.m, x) = Translate(mem, x)
              /\ r.e.present <=> Translate(mem, v) # None
              /\ r.e.present => Translate(mem, v).w = r.e.w
              /\ r.e.present /\ ~r.e.huge => Translate(mem, v).frame = r.e.frame
              /\ ~r.e.present => ~r.e.w
              /\ r.e.huge <=> PdEntry(mem, v).huge
<1>1. mem \in Memories
  BY Zenon DEF VmmInv
<1>2. r.m \in Memories /\ (mem.broken => r.m.broken)
  BY <1>1, PteTyped, Zenon
<1>3. ASSUME ~r.m.broken
      PROVE  /\ \E lev \in Levels : Shape(r.m, lev)
             /\ \A x \in VPages : Translate(r.m, x) = Translate(mem, x)
             /\ r.e.present <=> Translate(mem, v) # None
             /\ r.e.present => Translate(mem, v).w = r.e.w
             /\ r.e.present /\ ~r.e.huge => Translate(mem, v).frame = r.e.frame
             /\ ~r.e.present => ~r.e.w
             /\ r.e.huge <=> PdEntry(mem, v).huge
  <2>1. PICK lev \in Levels : Shape(mem, lev)
    BY <1>2, <1>3, Zenon DEF VmmInv
  <2>2. r.e.huge <=> PdEntry(mem, v).huge
    BY <1>1, <1>3, <2>1, PteRight, Zenon DEF PteFound
  <2> QED
    BY <1>1, <1>3, <2>1, <2>2, PteTranslates
<1> QED
  BY <1>2, <1>3, Zenon

(* No change of a cached translation, and no invlpg.                       *)
LEMMA TlbKept ==
  ASSUME VmmInv, ~mem.broken, tlb' = tlb, \A x \in VPages : Same(x) \/ Translate(mem, x) = None
  PROVE  DOMAIN tlb' = VPages /\ TlbCoherent'
<1>1. \A x \in VPages : tlb[x] # None => tlb[x] = Translate(mem, x)
  BY Zenon DEF VmmInv, TlbCoherent
<1>2. \A x \in VPages : tlb'[x] # None => tlb'[x] = Translate(mem', x)
  BY <1>1, Zenon DEF Same
<1> QED
  BY <1>2, Zenon DEF TlbCoherent, VmmInv

(* The next page of vmm_pin_pages.                                         *)
PinOnward(c) == [c EXCEPT !.v = @ + 1]

(* The fields of a pin call at its next page.                               *)
LEMMA PinOnwardFields ==
  ASSUME NEW c \in Calls, c.n \in VPages, c.v < c.n, NEW d, d = PinOnward(c)
  PROVE  /\ d \in Calls /\ d.kind = c.kind /\ d.w = c.w
         /\ d.v = c.v + 1 /\ d.n = c.n /\ d.first = c.first
<1>1. c.v + 1 \in VPages
  BY Facts DEF Calls, VPages
<1>2. d \in Calls
  BY <1>1, Zenon DEF Calls, PinOnward
<1>3. d.kind = c.kind
  BY Zenon DEF Calls, PinOnward
<1>4. d.w = c.w
  BY Zenon DEF Calls, PinOnward
<1>5. d.v = c.v + 1 /\ d.n = c.n /\ d.first = c.first
  BY Zenon DEF Calls, PinOnward
<1> QED
  BY <1>2, <1>3, <1>4, <1>5, Zenon

(* The pin loop returns OK after its last page, or goes on to the next.     *)
LEMMA PinNextRight ==
  ASSUME CallRight, op.kind = "pin", PinNext
  PROVE  /\ CallRight'
         /\ \/ op' = Idle /\ ret' = Code("OK") /\ op.v >= op.n
            \/ op'.kind = "pin" /\ op'.w = op.w /\ op'.v = op.v + 1 /\ op'.first = op.first
<1>0. op \in Calls /\ op.n \in VPages /\ op.v \in VPages /\ op.n \in Nat /\ op.v \in Nat
  BY DEF CallRight, Calls, VPages
<1>1. CASE op.v >= op.n
  <2>1. op' = Idle /\ ret' = Code("OK")
    BY <1>1, Zenon DEF PinNext, Return
  <2> QED
    BY <1>1, <2>1, IdleCall, Zenon
<1>2. CASE ~(op.v >= op.n)
  <2>1. op' = PinOnward(op)
    BY <1>2, Zenon DEF PinNext, PinOnward
  <2>2. op.v < op.n
    BY <1>0, <1>2
  <2>3. /\ op' \in Calls /\ op'.kind = op.kind /\ op'.w = op.w
        /\ op'.v = op.v + 1 /\ op'.n = op.n /\ op'.first = op.first
    BY <1>0, <2>1, <2>2, PinOnwardFields, Zenon
  <2>4. op'.kind = "pin" /\ op'.n \in VPages
    BY <1>0, <2>3, Zenon
  <2>5. CallRight'
    BY <2>3, <2>4, Zenon DEF CallRight
  <2> QED
    BY <2>3, <2>4, <2>5, Zenon
<1> QED
  BY <1>1, <1>2, Zenon

(* A round of the pin loop at a page it accepts: no translation changes,    *)
(* and a call that returns OK leaves every page of its range pinned.        *)
LEMMA PinPresentDoes ==
  ASSUME VmmInv, PinPresent
  PROVE  /\ mem' \in Memories /\ (mem.broken => mem'.broken)
         /\ CallRight' /\ tlb' = tlb /\ halted' = halted
         /\ ~mem'.broken =>
              /\ \E lev \in Levels : Shape(mem', lev)
              /\ \A x \in VPages : Same(x)
              /\ PinProgress'
              /\ op' = Idle /\ ret'.code = "OK" => \A x \in op.first .. op.n : Pinned(mem', x, op.w)
<1> DEFINE r == Pte(mem, op.v)
<1>1. /\ mem \in Memories /\ op \in Calls /\ op.v \in VPages /\ op.kind = "pin" /\ op.first \in Nat
      /\ op.w \in BOOLEAN /\ op.n \in Nat /\ op.v \in Nat
  BY DEF VmmInv, CallRight, Calls, PinPresent, VPages
<1>2. r.e.present /\ mem' = r.m /\ tlb' = tlb /\ halted' = halted
  BY Zenon DEF PinPresent
<1>3. IF op.w /\ ~r.e.w THEN Return("EFAULT") ELSE PinNext
  BY Zenon DEF PinPresent
<1> DEFINE q == r
<1>4. q = Pte(mem, op.v) /\ q.m = mem' /\ q.e.present /\ (IF op.w /\ ~q.e.w THEN Return("EFAULT") ELSE PinNext)
  BY <1>2, <1>3, Zenon
<1> HIDE DEF q
<1>5. mem' \in Memories /\ (mem.broken => mem'.broken)
  BY <1>1, <1>4, PteKeeps, Zenon
<1>6. CASE op.w /\ ~q.e.w
  <2>1. op' = Idle /\ ret' = Code("EFAULT")
    BY <1>4, <1>6, Zenon DEF Return
  <2>2. CallRight' /\ PinProgress'
    BY <2>1, IdleCall, Zenon
  <2>3. ret'.code # "OK"
    BY <2>1, Zenon DEF Code
  <2>4. ~mem'.broken => (\E lev \in Levels : Shape(mem', lev)) /\ \A x \in VPages : Same(x)
    BY <1>1, <1>4, PteKeeps, Zenon DEF Same
  <2> QED
    BY <1>2, <1>5, <2>2, <2>3, <2>4, Zenon
<1>7. CASE ~(op.w /\ ~q.e.w)
  <2>1. PinNext
    BY <1>4, <1>7, Zenon
  <2>2. /\ CallRight'
        /\ \/ op' = Idle /\ ret' = Code("OK") /\ op.v >= op.n
           \/ op'.kind = "pin" /\ op'.w = op.w /\ op'.v = op.v + 1 /\ op'.first = op.first
    BY <1>1, <2>1, PinNextRight, Zenon DEF VmmInv
  <2>3. ASSUME ~mem'.broken
        PROVE  /\ \E lev \in Levels : Shape(mem', lev)
               /\ \A x \in VPages : Same(x)
               /\ \A x \in op.first .. op.v : Pinned(mem', x, op.w)
    <3>1. /\ \E lev \in Levels : Shape(mem', lev)
          /\ \A x \in VPages : Translate(mem', x) = Translate(mem, x)
          /\ Translate(mem, op.v) # None
          /\ Translate(mem, op.v).w = q.e.w
      BY <1>1, <1>4, <2>3, PteKeeps, Zenon
    <3>2. Pinned(mem', op.v, op.w)
      BY <1>1, <1>7, <3>1, Zenon DEF Pinned
    <3>3. \A x \in op.first .. (op.v - 1) : Pinned(mem, x, op.w)
      BY <1>1, <1>5, <2>3, Zenon DEF VmmInv, PinProgress
    <3>4. ASSUME NEW x \in op.first .. op.v, x # op.v PROVE Pinned(mem', x, op.w)
      <4>1. x \in op.first .. (op.v - 1)
        BY <1>1, <3>4
      <4>2. x \in VPages
        BY <1>1, <3>4, Facts DEF VPages
      <4> QED
        BY <3>1, <3>3, <4>1, <4>2, Zenon DEF Pinned
    <3> QED
      BY <3>1, <3>2, <3>4, Zenon DEF Same
  <2>4. ASSUME ~mem'.broken PROVE PinProgress'
    <3>1. CASE op' = Idle
      BY <3>1, IdleCall, Zenon
    <3>2. CASE op'.kind = "pin" /\ op'.w = op.w /\ op'.v = op.v + 1 /\ op'.first = op.first
      <4>1. op'.v - 1 = op.v
        BY <1>1, <3>2
      <4>2. op'.first .. (op'.v - 1) = op.first .. op.v
        BY <3>2, <4>1, Zenon
      <4> QED
        BY <2>3, <2>4, <3>2, <4>2, Zenon DEF PinProgress
    <3> QED
      BY <2>2, <3>1, <3>2, Zenon
  <2>5. ASSUME ~mem'.broken, op' = Idle, NEW x \in op.first .. op.n PROVE Pinned(mem', x, op.w)
    <3>1. op.v >= op.n
      BY <1>1, <2>2, <2>5, IdleCall, Zenon
    <3>2. x \in op.first .. op.v
      BY <1>1, <3>1, <2>5
    <3> QED
      BY <2>3, <2>5, <3>2, Zenon
  <2> QED
    BY <1>2, <1>5, <2>2, <2>3, <2>4, <2>5, Zenon
<1> QED
  BY <1>6, <1>7, Zenon

(* A demand fault, or what vmm_pin_pages makes of one.                     *)
DemandDone(v) ==
  /\ Translate(mem, v) = None
  /\ Translate(mem', v) = Writeable(Translate(mem', v).frame)
  /\ \A x \in VPages : Translate(mem, x) # None => Translate(mem, x).frame # Translate(mem', v).frame
  /\ \A x \in VPages \ {v} : Same(x)

(* A round of the pin loop at a page it does not accept: it may map that    *)
(* page on demand, and the call returns EFAULT.                             *)
LEMMA PinMissingDoes ==
  ASSUME VmmInv, PinMissing
  PROVE  /\ mem' \in Memories /\ (mem.broken => mem'.broken)
         /\ CallRight' /\ tlb' = tlb /\ halted' = halted
         /\ ~mem'.broken =>
              /\ \E lev \in Levels : Shape(mem', lev)
              /\ (\A x \in VPages : Same(x)) \/ DemandDone(op.v)
              /\ op' = Idle /\ ret' = Code("EFAULT")
<1> DEFINE r == Pte(mem, op.v)
           d == op.w /\ op.v \in Regular
<1>1. mem \in Memories /\ op.v \in VPages /\ op.kind = "pin"
  BY Zenon DEF VmmInv, CallRight, Calls, PinMissing
<1>2. /\ ~r.e.present /\ mem' = IF d THEN Demand(r.m, op.v) ELSE r.m
      /\ tlb' = tlb /\ halted' = halted
      /\ IF op.w /\ op.v \notin Regular /\ r.e.w THEN PinNext ELSE Return("EFAULT")
  BY Zenon DEF PinMissing
<1>3. r = Pte(mem, op.v)
  BY Zenon
<1> HIDE DEF r, d
<1>4. r.m \in Memories /\ (mem.broken => r.m.broken)
  BY <1>1, <1>3, PteKeeps, Zenon
<1>5. Demand(r.m, op.v) \in Memories /\ (r.m.broken => Demand(r.m, op.v).broken)
  <2> DEFINE a == r.m
  <2>1. a \in Memories
    BY <1>4, Zenon
  <2> HIDE DEF a
  <2>2. Demand(a, op.v) \in Memories /\ (a.broken => Demand(a, op.v).broken)
    BY <1>1, <2>1, DemandTyped, Zenon
  <2> QED
    BY <2>2, Zenon DEF a
<1>6. mem' \in Memories /\ (r.m.broken => mem'.broken)
  BY <1>2, <1>4, <1>5, Zenon
<1>7. CallRight'
  <2>1. CASE PinNext
    BY <1>1, <2>1, PinNextRight, Zenon DEF VmmInv
  <2>2. CASE Return("EFAULT")
    BY <2>2, IdleCall, Zenon DEF Return
  <2> QED
    BY <1>2, <2>1, <2>2, Zenon
<1>8. ASSUME ~mem'.broken
      PROVE  /\ \E lev \in Levels : Shape(mem', lev)
             /\ (\A x \in VPages : Same(x)) \/ DemandDone(op.v)
             /\ op' = Idle /\ ret' = Code("EFAULT")
  <2>0. ~r.m.broken
    BY <1>6, <1>8, Zenon
  <2>1. /\ \E lev \in Levels : Shape(r.m, lev)
        /\ \A x \in VPages : Translate(r.m, x) = Translate(mem, x)
        /\ Translate(mem, op.v) = None /\ ~r.e.w
    BY <1>1, <1>2, <1>3, <2>0, PteKeeps, Zenon
  <2>2. op' = Idle /\ ret' = Code("EFAULT")
    BY <1>2, <2>1, Zenon DEF Return
  <2>3. CASE ~d
    <3>1. mem' = r.m
      BY <1>2, <2>3, Zenon
    <3> QED
      BY <2>1, <2>2, <3>1, Zenon DEF Same
  <2>4. CASE d
    <3> DEFINE a == r.m
    <3>1. PICK lev \in Levels : Shape(a, lev)
      BY <2>1, Zenon
    <3>2. a \in Memories /\ Translate(a, op.v) = None /\ mem' = Demand(a, op.v)
      BY <1>1, <1>2, <1>4, <2>1, <2>4, Zenon
    <3>3. \A x \in VPages : Translate(a, x) = Translate(mem, x)
      BY <2>1, Zenon
    <3> HIDE DEF a
    <3>4. /\ \E lev2 \in Levels : Shape(mem', lev2)
          /\ Translate(mem', op.v) = Writeable(Translate(mem', op.v).frame)
          /\ \A x \in VPages : Translate(a, x) # None => Translate(a, x).frame # Translate(mem', op.v).frame
          /\ \A x \in VPages : x # op.v => Translate(mem', x) = Translate(a, x)
      BY <1>1, <1>8, <3>1, <3>2, DemandRight
    <3> QED
      BY <2>1, <2>2, <3>3, <3>4, Zenon DEF DemandDone, Same
  <2> QED
    BY <2>3, <2>4, Zenon
<1> QED
  BY <1>2, <1>4, <1>6, <1>7, <1>8, Zenon

(* A page fault changes nothing or maps the page on demand.                 *)
LEMMA FaultDoes ==
  ASSUME VmmInv, NEW v \in Pages, PageFaultMissing(v)
  PROVE  /\ mem' \in Memories /\ (mem.broken => mem'.broken) /\ v \in VPages
         /\ op' = op /\ op.kind = "none" /\ tlb' = tlb /\ halted' \in BOOLEAN
         /\ ~mem'.broken =>
              /\ \E lev \in Levels : Shape(mem', lev)
              /\ mem' = mem \/ DemandDone(v)
<1>1. mem \in Memories /\ v \in VPages /\ halted \in BOOLEAN
  BY PageAssumption, Zenon DEF VmmInv, VPages
<1>2. op' = op /\ op.kind = "none" /\ tlb' = tlb /\ Translate(mem, v) = None
  BY IdleCall, Zenon DEF PageFaultMissing, Ready
<1>3. CASE v \notin Regular
  <2>1. mem' = mem /\ halted' = TRUE
    BY <1>3, Zenon DEF PageFaultMissing
  <2> QED
    BY <1>1, <1>2, <2>1, Zenon DEF VmmInv
<1>4. CASE v \in Regular
  <2>1. mem' = Demand(mem, v) /\ halted' = halted
    BY <1>4, Zenon DEF PageFaultMissing
  <2>2. mem' \in Memories /\ (mem.broken => mem'.broken)
    BY <1>1, <2>1, DemandTyped, Zenon
  <2>3. ASSUME ~mem'.broken PROVE (\E lev \in Levels : Shape(mem', lev)) /\ DemandDone(v)
    <3>1. PICK lev \in Levels : Shape(mem, lev)
      BY <2>2, <2>3, Zenon DEF VmmInv
    <3>2. /\ \E lev2 \in Levels : Shape(mem', lev2)
          /\ Translate(mem', v) = Writeable(Translate(mem', v).frame)
          /\ \A x \in VPages : Translate(mem, x) # None => Translate(mem, x).frame # Translate(mem', v).frame
          /\ \A x \in VPages : x # v => Translate(mem', x) = Translate(mem, x)
      BY <1>1, <1>2, <2>1, <2>3, <3>1, DemandRight
    <3> QED
      BY <1>2, <3>2, Zenon DEF DemandDone, Same
  <2> QED
    BY <1>1, <1>2, <2>1, <2>2, <2>3, Zenon
<1> QED
  BY <1>3, <1>4, Zenon

(* vmm_get_physical_from_virtual.                                          *)
LEMMA GetPhysicalDoes ==
  ASSUME VmmInv, NEW v \in Pages, GetPhysical(v)
  PROVE  /\ mem' \in Memories /\ (mem.broken => mem'.broken)
         /\ op' = op /\ op.kind = "none" /\ tlb' = tlb /\ halted' = halted
         /\ ~mem'.broken =>
              /\ \E lev \in Levels : Shape(mem', lev)
              /\ \A x \in VPages : Same(x)
              /\ Translate(mem, v) # None /\ ~PdEntry(mem, v).huge => ret'.frame = Translate(mem', v).frame
<1> DEFINE r == Pte(mem, v)
<1>1. v \in VPages
  BY PageAssumption, Zenon DEF VPages
<1>2. op' = op /\ op.kind = "none" /\ tlb' = tlb /\ halted' = halted
  BY IdleCall, Zenon DEF GetPhysical, Ready
<1>3. mem' = r.m /\ ret'.frame = r.e.frame
  BY Zenon DEF GetPhysical
<1>4. r = Pte(mem, v)
  BY Zenon
<1> HIDE DEF r
<1>5. /\ r.m \in Memories /\ (mem.broken => r.m.broken)
      /\ ~r.m.broken =>
           /\ \E lev \in Levels : Shape(r.m, lev)
           /\ \A x \in VPages : Translate(r.m, x) = Translate(mem, x)
           /\ r.e.present <=> Translate(mem, v) # None
           /\ r.e.present /\ ~r.e.huge => Translate(mem, v).frame = r.e.frame
           /\ r.e.huge <=> PdEntry(mem, v).huge
  BY <1>1, <1>4, PteKeeps, Zenon
<1> QED
  BY <1>1, <1>2, <1>3, <1>5, Zenon DEF Same

-----------------------------------------------------------------------------
(* Calls begin.                                                            *)

(* A map call starts well formed.                                           *)
LEMMA MapCallRight ==
  ASSUME NEW v \in Pages, NEW p \in Devices, NEW n \in MapCounts, NEW w \in BOOLEAN, NEW huge \in BOOLEAN,
         huge => HugeCalls, MapCall(v, p, n, w, huge)
  PROVE  CallRight' /\ op.kind = "none" /\ op'.kind = "map"
<1>1. v \in VPages /\ p \in Nat /\ n \in Nat /\ n # 0 /\ v \in Nat
  BY PageAssumption, FrameAssumption, ArgsAssumption, Facts DEF VPages, MapCall
<1>2. op' = [Idle EXCEPT !.kind = "map", !.v = v, !.p = p, !.n = n, !.w = w, !.huge = huge,
                   !.first = v, !.need = p]
  BY Zenon DEF MapCall
<1>3. op.kind = "none"
  BY IdleCall, Zenon DEF MapCall, Ready
<1>4. op' \in Calls
  BY <1>1, <1>2, Zenon DEF Idle, Calls
<1>5. op'.kind = "map" /\ op'.p = p /\ op'.n = n
  BY <1>2, Zenon DEF Idle
<1>6. op'.huge = huge
  BY <1>2, Zenon DEF Idle
<1>7. \A i \in 0 .. (n - 1) : p + i \notin Ram \cup {Root}
  BY CallerAssumption, Zenon
<1>8. huge => \A k \in Slots : p - (p % Fan) + k \notin Ram
  BY CallerAssumption, Zenon DEF Slots
<1> QED
  BY <1>1, <1>3, <1>4, <1>5, <1>6, <1>7, <1>8 DEF CallRight

(* An unmap call starts well formed.                                        *)
LEMMA UnmapCallRight ==
  ASSUME NEW v \in Pages, NEW n \in MapCounts, UnmapCall(v, n)
  PROVE  CallRight' /\ op.kind = "none" /\ op'.kind = "unmap"
<1>1. v \in VPages /\ n \in Nat /\ n # 0
  BY PageAssumption, ArgsAssumption, Facts, Zenon DEF VPages, UnmapCall
<1>2. op' = [Idle EXCEPT !.kind = "unmap", !.v = v, !.n = n]
  BY Zenon DEF UnmapCall
<1>3. op.kind = "none"
  BY IdleCall, Zenon DEF UnmapCall, Ready
<1>4. op' \in Calls
  BY <1>1, <1>2, Zenon DEF Idle, Calls
<1>5. op'.kind = "unmap" /\ op'.n = n
  BY <1>2, Zenon DEF Idle
<1> QED
  BY <1>1, <1>3, <1>4, <1>5 DEF CallRight

(* A pin call starts well formed, with no page behind it.                   *)
LEMMA PinCallRight ==
  ASSUME NEW addr \in PinAddrs, NEW n \in PinCounts, NEW w \in BOOLEAN, PinCall(addr, n, w)
  PROVE  CallRight' /\ op.kind = "none" /\ PinProgress'
<1>1. addr \in Nat /\ n \in Nat /\ PageBytes \in Nat \ {0} /\ PageTotal \in Nat
  BY ArgsAssumption, BytesAssumption, Facts, Zenon
<1>2. op.kind = "none"
  BY IdleCall, Zenon DEF PinCall, Ready
<1>3. CASE op' = Idle
  BY <1>2, <1>3, IdleCall, Zenon
<1>4. CASE op' # Idle
  <2>1. /\ op' = [Idle EXCEPT !.kind = "pin", !.v = addr \div PageBytes, !.w = w,
                      !.n = PinLast(addr, n), !.first = addr \div PageBytes,
                      !.need = (addr + n - 1) \div PageBytes]
        /\ n # 0
    BY <1>4, Zenon DEF PinCall, Return
  <2> DEFINE q == addr \div PageBytes
             last == PinLast(addr, n)
             end == (addr + n - 1) \div PageBytes
             sum == (addr + n) \div PageBytes
  <2>2. q \in Nat /\ addr = PageBytes * q + (addr % PageBytes) /\ addr % PageBytes \in Nat
    <3>1. /\ addr \div PageBytes \in Nat /\ addr % PageBytes \in 0 .. (PageBytes - 1)
          /\ addr = PageBytes * (addr \div PageBytes) + (addr % PageBytes)
      BY <1>1, DivMod, Zenon
    <3>2. addr % PageBytes \in Nat
      BY <1>1, <3>1
    <3> QED
      BY <3>1, <3>2, Zenon
  <2>3. sum < PageTotal
    BY CallerAssumption, Zenon
  <2>4. addr + n \in Nat /\ addr + n - 1 \in Nat
    BY <1>1, <2>1
  <2>5. end \in Nat
    BY <1>1, <2>4, DivMod, Zenon
  <2>6. q * PageBytes + n - 1 \in Nat /\ q * PageBytes + n - 1 <= addr + n
    <3>1. q * PageBytes = PageBytes * q /\ PageBytes * q \in Nat
      BY <1>1, <2>2
    <3> DEFINE k == q * PageBytes
               rest == addr % PageBytes
    <3>2. k \in Nat /\ rest \in Nat /\ addr = k + rest
      BY <2>2, <3>1, Zenon
    <3> HIDE DEF k, rest
    <3>3. k + n - 1 \in Nat /\ k + n - 1 <= addr + n
      BY <1>1, <2>1, <3>2
    <3> QED
      BY <3>3, Zenon DEF k
  <2>7. \A x, y \in Nat : x <= y => x \div PageBytes <= y \div PageBytes
    <3>1. SUFFICES ASSUME NEW x \in Nat, NEW y \in Nat, x <= y PROVE x \div PageBytes <= y \div PageBytes
      BY Zenon
    <3>2. y \div PageBytes \in Nat /\ x \div PageBytes \in Nat
      BY <1>1, DivMod, Zenon
    <3>3. y < PageBytes * (y \div PageBytes + 1)
      <4>1. y = PageBytes * (y \div PageBytes) + (y % PageBytes) /\ y % PageBytes \in 0 .. (PageBytes - 1)
        BY <1>1, DivMod, Zenon
      <4>2. \A z \in Nat : PageBytes * (z + 1) = PageBytes * z + PageBytes
        BY <1>1
      <4>3. PageBytes * (y \div PageBytes) \in Nat
        BY <1>1, <3>2
      <4> QED
        BY <1>1, <3>2, <4>1, <4>2, <4>3
    <3>4. PageBytes * (y \div PageBytes + 1) \in Nat
      BY <1>1, <3>2
    <3>5. x < PageBytes * (y \div PageBytes + 1)
      BY <3>1, <3>3, <3>4
    <3>6. x \div PageBytes < y \div PageBytes + 1
      BY <1>1, <3>2, <3>5, DivBelow
    <3> QED
      BY <3>2, <3>6
  <2>8. q <= sum /\ last <= sum /\ last \in Nat /\ sum \in Nat
    <3>1. last = (q * PageBytes + n - 1) \div PageBytes
      BY Zenon DEF PinLast
    <3>2. last \in Nat /\ sum \in Nat
      BY <1>1, <2>4, <2>6, <3>1, DivMod, Zenon
    <3>3. last <= sum
      BY <2>4, <2>6, <2>7, <3>1, Zenon
    <3>4. q <= sum
      BY <1>1, <2>4, <2>7
    <3> QED
      BY <3>2, <3>3, <3>4, Zenon
  <2> HIDE DEF q, last, end, sum
  <2>9. q \in VPages /\ last \in VPages
    BY <1>1, <2>2, <2>3, <2>8 DEF VPages
  <2>10. op' = [Idle EXCEPT !.kind = "pin", !.v = q, !.w = w, !.n = last, !.first = q, !.need = end]
    BY <2>1, Zenon DEF q, last, end
  <2>11. op' \in Calls
    BY <2>2, <2>5, <2>8, <2>9, <2>10, Zenon DEF Idle, Calls
  <2>12. op'.kind = "pin" /\ op'.n = last /\ op'.v = q /\ op'.first = q
    BY <2>10, Zenon DEF Idle
  <2>13. op'.first .. (op'.v - 1) = {}
    BY <2>2, <2>12
  <2>14. CallRight'
    BY <2>9, <2>11, <2>12, Zenon DEF CallRight
  <2> QED
    BY <1>2, <2>13, <2>14, Zenon DEF PinProgress
<1> QED
  BY <1>3, <1>4, Zenon
=============================================================================
