----------------------------- MODULE VmmProofs ------------------------------
(***************************************************************************)
(* Proofs about the virtual memory manager, for any fan-out of the tables, *)
(* any memory and any calls: page tables and data never share a frame, the *)
(* TLB agrees with the tables, and the tables implement a partial function *)
(* from pages to frames, as long as no walk has left them.                 *)
(***************************************************************************)
EXTENDS VmmSteps

-----------------------------------------------------------------------------
(* The invariant is inductive.                                             *)

(* The invariant holds of the tables the kernel starts with.                *)
LEMMA InitInv == Init => VmmInv
<1> SUFFICES ASSUME Init PROVE VmmInv
  BY Zenon
<1>1. /\ mem.tab = [f \in Frames |-> IF f \in Ram THEN Garbage ELSE ZeroTable]
      /\ mem.free = Ram /\ mem.broken = FALSE
  BY Zenon DEF Init
<1>2. Empty \in Entries /\ [present |-> TRUE, w |-> TRUE, huge |-> FALSE, frame |-> 0] \in Entries
  BY Zenon DEF Empty, Entries
<1>3. Garbage \in [Slots -> Entries] /\ ZeroTable \in [Slots -> Entries]
  BY <1>2, Zenon DEF Garbage, ZeroTable
<1>4. mem.tab \in [Frames -> [Slots -> Entries]]
  BY <1>1, <1>3, Zenon
<1>5. mem \in Memories
  <2>1. mem = [tab |-> mem.tab, free |-> mem.free, broken |-> mem.broken]
    BY <1>1, Zenon DEF Init
  <2> QED
    BY <1>1, <1>4, <2>1, Zenon DEF Memories
<1>6. CallRight /\ PinProgress
  BY IdleCall, Zenon DEF Init, CallRight, PinProgress
<1>7. tlb = [x \in VPages |-> None] /\ halted = FALSE
  BY Zenon DEF Init
<1> DEFINE lev == [f \in Frames |-> IF f = Root THEN 4 ELSE 0]
<1>8. lev \in Levels /\ lev[Root] = 4 /\ \A f \in Frames : f # Root => lev[f] = 0
  BY Facts DEF Levels
<1> HIDE DEF lev
<1>9. \A i \in Slots : At(mem, Root, i) = Empty
  BY <1>1, Facts DEF ZeroTable, At
<1>10. ~Empty.present
  BY Zenon DEF Empty
<1>11. Shape(mem, lev)
  BY <1>8, <1>9, <1>10, Zenon DEF Shape, EntryRight, Linked
<1> QED
  BY <1>5, <1>6, <1>7, <1>8, <1>11, Zenon DEF VmmInv, TlbCoherent

(* Steps that leave the tables and the TLB alone.                          *)
LEMMA QuietInv ==
  ASSUME VmmInv, mem' = mem, tlb' = tlb, halted' \in BOOLEAN, CallRight', PinProgress'
  PROVE  VmmInv'
  BY Zenon DEF VmmInv, TlbCoherent

(* Steps of mapping and unmapping calls.                                   *)
LEMMA ChangeInv ==
  ASSUME VmmInv, mem' \in Memories, mem.broken => mem'.broken,
         CallRight', op'.kind # "pin", DOMAIN tlb' = VPages, halted' = halted,
         ~mem'.broken => (\E lev \in Levels : Shape(mem', lev)) /\ TlbCoherent'
  PROVE  VmmInv'
<1>1. PinProgress'
  BY Zenon DEF PinProgress
<1> QED
  BY <1>1, Zenon DEF VmmInv

(* Every round of a call in progress preserves the invariant.               *)
LEMMA WorkInv == VmmInv /\ Work => VmmInv'
<1> SUFFICES ASSUME VmmInv, Work PROVE VmmInv'
  BY Zenon
<1>1. CASE MapStep
  <2>1. /\ mem' \in Memories /\ (mem.broken => mem'.broken)
        /\ CallRight' /\ op'.kind # "pin" /\ DOMAIN tlb' = VPages /\ halted' = halted
        /\ ~mem'.broken => (\E lev \in Levels : Shape(mem', lev)) /\ (MapDone \/ MapRefused)
    BY <1>1, MapStepDoes, Zenon
  <2>2. ASSUME ~mem'.broken, MapDone PROVE TlbCoherent'
    BY <2>1, <2>2, Flushed, Zenon DEF MapDone
  <2>3. ASSUME ~mem'.broken, MapRefused PROVE TlbCoherent'
    BY <2>1, <2>3, TlbKept, Zenon DEF MapRefused
  <2> QED
    BY <2>1, <2>2, <2>3, ChangeInv, Zenon
<1>2. CASE MapHugeStep
  <2>1. /\ mem' \in Memories /\ (mem.broken => mem'.broken)
        /\ CallRight' /\ op'.kind # "pin" /\ DOMAIN tlb' = VPages /\ halted' = halted
        /\ ~mem'.broken => (\E lev \in Levels : Shape(mem', lev)) /\ (HugeDone \/ MapRefused)
    BY <1>2, MapHugeStepDoes, Zenon
  <2>2. ASSUME ~mem'.broken, HugeDone PROVE TlbCoherent'
    BY <2>1, <2>2, Flushed, Zenon DEF HugeDone
  <2>3. ASSUME ~mem'.broken, MapRefused PROVE TlbCoherent'
    BY <2>1, <2>3, TlbKept, Zenon DEF MapRefused
  <2> QED
    BY <2>1, <2>2, <2>3, ChangeInv, Zenon
<1>3. CASE UnmapStep
  <2>1. /\ mem' \in Memories /\ (mem.broken => mem'.broken)
        /\ CallRight' /\ op'.kind # "pin" /\ DOMAIN tlb' = VPages /\ halted' = halted
        /\ ~mem'.broken => (\E lev \in Levels : Shape(mem', lev)) /\ (UnmapOne \/ UnmapBlock)
    BY <1>3, UnmapStepDoes, Zenon
  <2>2. ASSUME ~mem'.broken, UnmapOne PROVE TlbCoherent'
    BY <2>1, <2>2, Flushed, Zenon DEF UnmapOne
  <2>3. ASSUME ~mem'.broken, UnmapBlock PROVE TlbCoherent'
    BY <2>1, <2>3, Flushed, Zenon DEF UnmapBlock
  <2> QED
    BY <2>1, <2>2, <2>3, ChangeInv, Zenon
<1>4. CASE PinPresent
  <2>1. /\ mem' \in Memories /\ (mem.broken => mem'.broken)
        /\ CallRight' /\ tlb' = tlb /\ halted' = halted
        /\ ~mem'.broken => (\E lev \in Levels : Shape(mem', lev)) /\ (\A x \in VPages : Same(x)) /\ PinProgress'
    BY <1>4, PinPresentDoes, Zenon
  <2>2. ~mem'.broken => TlbCoherent'
    BY <2>1, TlbKept, Zenon
  <2> QED
    BY <2>1, <2>2, Zenon DEF VmmInv
<1>5. CASE PinMissing
  <2>1. /\ mem' \in Memories /\ (mem.broken => mem'.broken)
        /\ CallRight' /\ tlb' = tlb /\ halted' = halted
        /\ ~mem'.broken =>
             /\ \E lev \in Levels : Shape(mem', lev)
             /\ (\A x \in VPages : Same(x)) \/ DemandDone(op.v)
             /\ op' = Idle
    BY <1>5, PinMissingDoes, Zenon
  <2>2. ASSUME ~mem'.broken PROVE TlbCoherent'
    <3>1. \A x \in VPages : Same(x) \/ Translate(mem, x) = None
      BY <2>1, <2>2, Zenon DEF DemandDone
    <3> QED
      BY <2>1, <2>2, <3>1, TlbKept, Zenon
  <2>3. ~mem'.broken => PinProgress'
    BY <2>1, IdleCall, Zenon
  <2> QED
    BY <2>1, <2>2, <2>3, Zenon DEF VmmInv
<1> QED
  BY <1>1, <1>2, <1>3, <1>4, <1>5, Zenon DEF Work

(* The start of a map or unmap call preserves the invariant.                *)
LEMMA CallInv ==
  ASSUME VmmInv, NEW v \in Pages, NEW n \in MapCounts,
         \/ UnmapCall(v, n)
         \/ \E p \in Devices, w \in BOOLEAN :
              MapCall(v, p, n, w, FALSE) \/ (HugeCalls /\ MapCall(v, p, n, w, TRUE))
  PROVE  VmmInv' /\ op.kind = "none" /\ mem' = mem
<1>1. /\ CallRight' /\ op.kind = "none" /\ op'.kind # "pin"
      /\ mem' = mem /\ tlb' = tlb /\ halted' = halted
  <2>1. CASE UnmapCall(v, n)
    BY <2>1, UnmapCallRight, Zenon DEF UnmapCall
  <2>2. ASSUME NEW p \in Devices, NEW w \in BOOLEAN, NEW huge \in BOOLEAN,
               huge => HugeCalls, MapCall(v, p, n, w, huge)
        PROVE  /\ CallRight' /\ op.kind = "none" /\ op'.kind # "pin"
               /\ mem' = mem /\ tlb' = tlb /\ halted' = halted
    BY <2>2, MapCallRight DEF MapCall
  <2> QED
    BY <2>1, <2>2, Zenon
<1>2. PinProgress' /\ halted' \in BOOLEAN
  BY <1>1, Zenon DEF PinProgress, VmmInv
<1> QED
  BY <1>1, <1>2, QuietInv, Zenon

(* Calls that read, and the processor.                                     *)
LEMMA GetPhysicalInv ==
  ASSUME VmmInv, NEW v \in Pages, GetPhysical(v)
  PROVE  VmmInv'
<1>1. /\ mem' \in Memories /\ (mem.broken => mem'.broken)
      /\ op' = op /\ op.kind = "none" /\ tlb' = tlb /\ halted' = halted
      /\ ~mem'.broken => (\E lev \in Levels : Shape(mem', lev)) /\ \A x \in VPages : Same(x)
  BY GetPhysicalDoes, Zenon
<1>2. CallRight' /\ op'.kind # "pin" /\ DOMAIN tlb' = VPages
  BY <1>1, Zenon DEF VmmInv, CallRight
<1>3. ~mem'.broken => TlbCoherent'
  BY <1>1, TlbKept, Zenon
<1> QED
  BY <1>1, <1>2, <1>3, ChangeInv, Zenon

(* An access and a page fault preserve the invariant.                       *)
LEMMA ProcessorInv ==
  ASSUME VmmInv, NEW v \in Pages, Access(v) \/ PageFaultMissing(v) \/ PageFaultPresent(v)
  PROVE  VmmInv'
<1>1. CASE Access(v)
  <2>1. op' = op /\ mem' = mem /\ halted' = halted /\ tlb' = [tlb EXCEPT ![v] = Translate(mem, v)]
    BY <1>1, Zenon DEF Access
  <2>2. CallRight' /\ (PinProgress => PinProgress') /\ DOMAIN tlb' = VPages
    BY <2>1, Zenon DEF VmmInv, CallRight, PinProgress
  <2>3. TlbCoherent => TlbCoherent'
    BY <2>1, Zenon DEF VmmInv, TlbCoherent
  <2> QED
    BY <2>1, <2>2, <2>3, Zenon DEF VmmInv
<1>2. CASE PageFaultMissing(v)
  <2>1. /\ mem' \in Memories /\ (mem.broken => mem'.broken) /\ v \in VPages
        /\ op' = op /\ op.kind = "none" /\ tlb' = tlb /\ halted' \in BOOLEAN
        /\ ~mem'.broken => (\E lev \in Levels : Shape(mem', lev)) /\ (mem' = mem \/ DemandDone(v))
    BY <1>2, FaultDoes, Zenon
  <2>2. CallRight' /\ PinProgress' /\ DOMAIN tlb' = VPages
    BY <2>1, Zenon DEF VmmInv, CallRight, PinProgress
  <2>3. ASSUME ~mem'.broken PROVE TlbCoherent'
    <3>1. \A x \in VPages : Same(x) \/ Translate(mem, x) = None
      BY <2>1, <2>3, Zenon DEF DemandDone, Same
    <3> QED
      BY <2>1, <2>3, <3>1, TlbKept, Zenon
  <2> QED
    BY <2>1, <2>2, <2>3, Zenon DEF VmmInv
<1>3. CASE PageFaultPresent(v)
  <2>1. op' = op /\ mem' = mem /\ tlb' = tlb /\ halted' = TRUE
    BY <1>3, Zenon DEF PageFaultPresent
  <2>2. CallRight' /\ (PinProgress => PinProgress')
    BY <2>1, Zenon DEF VmmInv, CallRight, PinProgress
  <2> QED
    BY <2>1, <2>2, Zenon DEF VmmInv, TlbCoherent
<1> QED
  BY <1>1, <1>2, <1>3, Zenon

(* Every step preserves the invariant.                                      *)
LEMMA StepInv == VmmInv /\ [Next]_vars => VmmInv'
<1> SUFFICES ASSUME VmmInv, [Next]_vars PROVE VmmInv'
  BY Zenon
<1>1. CASE CallZero
  <2>1. mem' = mem /\ tlb' = tlb /\ halted' = halted /\ op' = op /\ op.kind = "none"
    BY <1>1, IdleCall, Zenon DEF CallZero, Ready, Return
  <2>2. CallRight' /\ PinProgress' /\ halted' \in BOOLEAN
    BY <2>1, Zenon DEF VmmInv, CallRight, PinProgress
  <2> QED
    BY <2>1, <2>2, QuietInv, Zenon
<1>2. ASSUME NEW v \in Pages, NEW n \in MapCounts,
             \/ UnmapCall(v, n)
             \/ \E p \in Devices, w \in BOOLEAN :
                  MapCall(v, p, n, w, FALSE) \/ (HugeCalls /\ MapCall(v, p, n, w, TRUE))
      PROVE  VmmInv'
  BY <1>2, CallInv, Zenon
<1>3. ASSUME NEW v \in Pages, GetPhysical(v)
      PROVE  VmmInv'
  BY <1>3, GetPhysicalInv, Zenon
<1>4. ASSUME NEW addr \in PinAddrs, NEW n \in PinCounts, NEW w \in BOOLEAN, PinCall(addr, n, w)
      PROVE  VmmInv'
  <2>1. mem' = mem /\ tlb' = tlb /\ halted' = halted
    BY <1>4, Zenon DEF PinCall
  <2>2. CallRight' /\ PinProgress' /\ halted' \in BOOLEAN
    BY <1>4, <2>1, PinCallRight, Zenon DEF VmmInv
  <2> QED
    BY <2>1, <2>2, QuietInv, Zenon
<1>5. CASE Work
  BY <1>5, WorkInv, Zenon
<1>6. ASSUME NEW v \in Pages, Access(v) \/ PageFaultMissing(v) \/ PageFaultPresent(v)
      PROVE  VmmInv'
  BY <1>6, ProcessorInv, Zenon
<1>7. CASE Halted \/ UNCHANGED vars
  <2>1. UNCHANGED vars
    BY <1>7, Zenon DEF Halted
  <2>2. mem' = mem /\ tlb' = tlb /\ halted' = halted /\ op' = op
    BY <2>1, Zenon DEF vars
  <2>3. CallRight' /\ (PinProgress => PinProgress') /\ (TlbCoherent => TlbCoherent')
    BY <2>2, Zenon DEF VmmInv, CallRight, PinProgress, TlbCoherent
  <2> QED
    BY <2>2, <2>3, Zenon DEF VmmInv
<1> QED
  BY <1>1, <1>2, <1>3, <1>4, <1>5, <1>6, <1>7, Zenon DEF Next

(* In every state the tables, the call and the TLB have their types, and   *)
(* until a walk of vmm.c has left the tables these are a tree of four      *)
(* levels in which no frame of RAM is linked twice, the TLB agrees with    *)
(* them, and the pages a running vmm_pin_pages has passed are pinned.      *)
THEOREM VmmInvariant == Spec => []VmmInv
  BY InitInv, StepInv, PTL DEF Spec

(* Every change of a translation by vmm.c drops it from the TLB.           *)
THEOREM TlbCoherentAlways == Spec => []TlbCoherent
<1>1. VmmInv => TlbCoherent
  BY Zenon DEF VmmInv, TlbCoherent
<1> QED
  BY <1>1, VmmInvariant, PTL

-----------------------------------------------------------------------------
(* Tables and data have frames of their own.                               *)

(* What tables of level k link to are tables of level k - 1, in frames that *)
(* are not free.                                                            *)
LEMMA BelowLevel ==
  ASSUME NEW lev \in Levels, Shape(mem, lev), mem \in Memories, NEW k \in 2 .. 4,
         NEW T \in SUBSET {f \in Frames : lev[f] = k}
  PROVE  /\ Below(T) \subseteq {f \in Frames : lev[f] = k - 1}
         /\ \A l \in Links(T) : Target(l) \in Ram \ mem.free
<1> SUFFICES ASSUME NEW l \in Links(T)
             PROVE  Target(l) \in Frames /\ lev[Target(l)] = k - 1 /\ Target(l) \in Ram \ mem.free
  BY Zenon DEF Below
<1>1. l[1] \in T /\ l[2] \in Slots /\ Linked(mem, l[1], l[2])
  BY Zenon DEF Links, Linked
<1>2. EntryRight(mem, lev, l[1], l[2]) /\ lev[l[1]] = k /\ k > 1
  BY <1>1 DEF Shape
<1>3. Target(l) \in Ram /\ lev[Target(l)] = k - 1
  BY <1>1, <1>2, Zenon DEF EntryRight, Target
<1>4. Target(l) \in Frames /\ Target(l) # Root
  BY <1>3, Facts, Zenon DEF Shape
<1> QED
  BY <1>3, <1>4 DEF Shape

(* No two entries of the tables link to the same frame.                     *)
LEMMA LinkOnce ==
  ASSUME NEW lev \in Levels, Shape(mem, lev),
         NEW T \in SUBSET {f \in Frames : lev[f] # 0}, NEW l \in Links(T), NEW k \in Links(T),
         Target(l) = Target(k), Target(l) \in Ram
  PROVE  l = k
<1>1. /\ l \in T \X Slots /\ k \in T \X Slots
      /\ Linked(mem, l[1], l[2]) /\ Linked(mem, k[1], k[2])
  BY Zenon DEF Links, Linked
<1>2. l[1] = k[1] /\ l[2] = k[2]
  BY <1>1 DEF Shape, Target
<1> QED
  BY <1>1, <1>2

(* The invariant contains the type invariant.                               *)
LEMMA InvTypes == VmmInv => TypeOK
<1> SUFFICES ASSUME VmmInv PROVE TypeOK
  BY Zenon
<1>1. /\ mem.free \subseteq Ram /\ mem.broken \in BOOLEAN
      /\ \A f \in Frames, i \in Slots : At(mem, f, i) \in Entries
  BY Zenon DEF VmmInv, Memories, At
<1>2. op.kind \in {"none", "map", "unmap", "pin"} /\ op.v \in VPages /\ op.n \in Nat
  BY Zenon DEF VmmInv, CallRight, Calls
<1> QED
  BY <1>1, <1>2, Zenon DEF TypeOK, Entries, VmmInv

(* The invariant implies NoAlias.                                           *)
LEMMA InvNoAlias == VmmInv => NoAlias
<1> SUFFICES ASSUME VmmInv, ~mem.broken
    PROVE  LET pdpts  == Below({Root})
               pds    == Below(pdpts)
               pts    == Below(pds)
               tables == {Root} \cup pdpts \cup pds \cup pts
               inner  == Links({Root} \cup pdpts \cup pds)
               leaves == Links(pts)
           IN  /\ \A l, k \in inner : Target(l) = Target(k) => l = k
               /\ \A l \in inner : Target(l) \in Ram \ mem.free
               /\ \A l \in leaves : Target(l) \notin tables \cup mem.free
               /\ \A l, k \in leaves : Target(l) = Target(k) /\ Target(l) \in Ram => l = k
  BY InvTypes, Zenon DEF NoAlias
<1>1. PICK lev \in Levels : Shape(mem, lev)
  BY Zenon DEF VmmInv
<1>2. mem \in Memories /\ mem.free \subseteq Ram
  BY Zenon DEF VmmInv, Memories, At
<1> DEFINE pdpts == Below({Root})
           pds   == Below(pdpts)
           pts   == Below(pds)
           upper == {Root} \cup pdpts \cup pds
<1>3. {Root} \subseteq {f \in Frames : lev[f] = 4}
  BY <1>1, Facts, Zenon DEF Shape
<1>4. /\ pdpts \subseteq {f \in Frames : lev[f] = 3}
      /\ \A l \in Links({Root}) : Target(l) \in Ram \ mem.free
  BY <1>1, <1>2, <1>3, BelowLevel, 4 - 1 = 3
<1> HIDE DEF pdpts
<1>5. /\ pds \subseteq {f \in Frames : lev[f] = 2}
      /\ \A l \in Links(pdpts) : Target(l) \in Ram \ mem.free
  BY <1>1, <1>2, <1>4, BelowLevel, 3 - 1 = 2
<1> HIDE DEF pds
<1>6. /\ pts \subseteq {f \in Frames : lev[f] = 1}
      /\ \A l \in Links(pds) : Target(l) \in Ram \ mem.free
  BY <1>1, <1>2, <1>5, BelowLevel, 2 - 1 = 1
<1> HIDE DEF pts
<1>7. upper \subseteq {f \in Frames : lev[f] # 0} /\ pts \subseteq {f \in Frames : lev[f] # 0}
  BY <1>3, <1>4, <1>5, <1>6
<1>8. Links(upper) = Links({Root}) \cup Links(pdpts) \cup Links(pds)
  BY Zenon DEF Links
<1>9. \A l \in Links(upper) : Target(l) \in Ram \ mem.free
  BY <1>4, <1>5, <1>6, <1>8, Zenon
<1>10. ASSUME NEW l \in Links(pts)
       PROVE  Target(l) \notin upper \cup pts \cup mem.free
  <2>1. l[1] \in Frames /\ l[2] \in Slots /\ lev[l[1]] = 1 /\ Linked(mem, l[1], l[2])
    BY <1>6, <1>10, Zenon DEF Links, Linked
  <2>2. EntryRight(mem, lev, l[1], l[2])
    BY <1>1, <2>1 DEF Shape
  <2>3. Target(l) # Root /\ (Target(l) \in Ram => Target(l) \notin mem.free /\ lev[Target(l)] = 0)
    BY <2>1, <2>2, Zenon DEF EntryRight, Target
  <2>4. \A f \in Frames \ {Root} : lev[f] # 0 => f \in Ram
    BY <1>1, Zenon DEF Shape
  <2> QED
    BY <1>2, <1>7, <2>3, <2>4, Zenon
<1> HIDE DEF upper
<1>11. \A l, k \in Links(upper) : Target(l) = Target(k) => l = k
  BY <1>1, <1>7, <1>9, LinkOnce, Zenon
<1>12. \A l, k \in Links(pts) : Target(l) = Target(k) /\ Target(l) \in Ram => l = k
  BY <1>1, <1>7, LinkOnce, Zenon
<1> QED
  BY <1>9, <1>10, <1>11, <1>12, Zenon DEF upper, pts, pds, pdpts

(* Page tables and data never share a frame, whatever the calls: walks     *)
(* that create tables and demand paging take frames nobody else has.       *)
THEOREM NoAliasAlways == Spec => []NoAlias
  BY InvNoAlias, VmmInvariant, PTL

-----------------------------------------------------------------------------
(* What the calls answer.                                                  *)

(* Only the rounds of the pin loop end a pin call.                          *)
LEMMA OnlyPinReturns ==
  ASSUME VmmInv, Next, op.kind = "pin", op' = Idle
  PROVE  PinPresent \/ PinMissing
<1>1. op # Idle /\ op' # op
  BY IdleCall, Zenon
<1>2. ~Ready /\ ~UNCHANGED vars
  BY <1>1, Zenon DEF Ready, vars
<1> QED
  BY <1>2, Zenon DEF Next, Work, Halted, MapStep, MapHugeStep, UnmapStep, CallZero, UnmapCall,
       MapCall, GetPhysical, PinCall, Access, PageFaultMissing, PageFaultPresent

(* What vmm_pin_pages and vmm_get_physical_from_virtual tell their callers *)
(* is what the processor does.                                             *)
THEOREM AnswersSoundAlways == Spec => AnswersSound
<1>1. ASSUME VmmInv, [Next]_vars PROVE [PinTrue /\ PhysicalTrue]_vars
  <2>1. CASE UNCHANGED vars
    BY <2>1, Zenon
  <2>2. CASE Next
    <3>1. PinTrue
      <4> SUFFICES ASSUME op.kind = "pin", op' = Idle, ret'.code = "OK", ~mem'.broken
                   PROVE  \A v \in op.first .. op.n : Pinned(mem', v, op.w)
        BY Zenon DEF PinTrue, PinReturns
      <4>1. CASE PinPresent
        BY <1>1, <4>1, PinPresentDoes, Zenon
      <4>2. CASE PinMissing
        <5>1. ret' = Code("EFAULT")
          BY <1>1, <4>2, PinMissingDoes, Zenon
        <5> QED
          BY <5>1, Zenon DEF Code
      <4> QED
        BY <1>1, <2>2, <4>1, <4>2, OnlyPinReturns, Zenon
    <3>2. PhysicalTrue
      BY <1>1, GetPhysicalDoes, Zenon DEF PhysicalTrue
    <3> QED
      BY <3>1, <3>2, Zenon
  <2> QED
    BY <1>1, <2>1, <2>2, Zenon
<1> QED
  BY <1>1, VmmInvariant, PTL DEF Spec, AnswersSound

-----------------------------------------------------------------------------
(* The tables implement a partial function from pages to frames.           *)

Map == [v \in VPages |-> Translate(mem, v)]

(* The abstract map at one page, before and after a step.                   *)
LEMMA MapAt ==
  ASSUME NEW x \in VPages
  PROVE  Map[x] = Translate(mem, x) /\ Map'[x] = Translate(mem', x)
<1>1. Map' = [v \in VPages |-> Translate(mem', v)]
  BY Zenon DEF Map
<1> QED
  BY <1>1, Zenon DEF Map

(* A step that keeps every translation keeps the abstract map.              *)
LEMMA MapKept ==
  ASSUME \A x \in VPages : Same(x)
  PROVE  Map' = Map
  BY Zenon DEF Map, Same

(* A step that keeps every other translation sets the abstract map at one   *)
(* page.                                                                    *)
LEMMA MapSet ==
  ASSUME NEW v \in VPages, \A x \in VPages \ {v} : Same(x)
  PROVE  Map' = [Map EXCEPT ![v] = Translate(mem', v)]
  BY Zenon DEF Map, Same

(* A step that keeps every translation outside a block sets the abstract    *)
(* map on the block.                                                        *)
LEMMA MapBlock ==
  ASSUME NEW v \in VPages, \A x \in VPages \ Block(v) : Same(x)
  PROVE  Map' = [x \in VPages |-> IF x \in Block(v) THEN Translate(mem', x) ELSE Map[x]]
  BY Zenon DEF Map, Same

(* Such a step outside a map or unmap call is a quiet step of PageMap.      *)
LEMMA QuietSteps ==
  ASSUME op.kind \notin {"map", "unmap"}, \A x \in VPages : Same(x)
  PROVE  PM!Quiet
<1>1. Map' = Map
  BY MapKept, Zenon
<1> QED
  BY <1>1, Zenon DEF PM!Quiet, Map

(* A demand mapping is a DemandPage step of PageMap.                        *)
LEMMA DemandSteps ==
  ASSUME NEW v \in VPages, op.kind \in {"none", "pin"}, DemandDone(v)
  PROVE  PM!DemandPage(v, Map'[v].frame)
<1>1. /\ Translate(mem, v) = None
      /\ Translate(mem', v) = Mapping(Translate(mem', v).frame, TRUE)
      /\ \A x \in VPages : Translate(mem, x) # None => Translate(mem, x).frame # Translate(mem', v).frame
      /\ \A x \in VPages \ {v} : Same(x)
  BY Zenon DEF DemandDone, Writeable
<1>2. /\ Map[v] = None /\ Map'[v] = Translate(mem', v)
      /\ \A x \in VPages : Map[x] # None => Map[x].frame # Map'[v].frame
  BY <1>1, MapAt, Zenon
<1>3. Map' = [Map EXCEPT ![v] = [frame |-> Map'[v].frame, w |-> TRUE]]
  BY <1>1, <1>2, MapSet, Zenon DEF Mapping
<1> QED
  BY <1>2, <1>3, Zenon DEF PM!DemandPage, Map

(* A refusal is a MapExists step of PageMap.                                *)
LEMMA RefusedSteps ==
  ASSUME op.v \in VPages, op.kind = "map", MapRefused
  PROVE  PM!MapExists
<1>1. Map' = Map
  BY MapKept, Zenon DEF MapRefused
<1>2. op.huge \/ Map[op.v] # None
  BY MapAt, Zenon DEF MapRefused
<1>3. op'.kind = "none" /\ ret'.code = "EEXIST"
  BY IdleCall, Zenon DEF MapRefused, Code
<1> QED
  BY <1>1, <1>2, <1>3, Zenon DEF PM!MapExists, Map

(* A round of the map loop is a MapPage or MapExists step.                  *)
LEMMA MapSteps ==
  ASSUME VmmInv, MapStep, ~mem'.broken
  PROVE  PM!MapPage \/ PM!MapExists
<1>1. op.v \in VPages /\ op.kind = "map" /\ ~op.huge /\ (MapDone \/ MapRefused)
  BY MapStepDoes, Zenon DEF VmmInv, CallRight, Calls, MapStep
<1>2. CASE MapDone
  <2>1. Map[op.v] = None
    BY <1>1, <1>2, MapAt, Zenon DEF MapDone
  <2>2. Map' = [Map EXCEPT ![op.v] = [frame |-> op.p, w |-> op.w]]
    BY <1>1, <1>2, MapSet, Zenon DEF MapDone, Mapping
  <2> QED
    BY <1>1, <2>1, <2>2, Zenon DEF PM!MapPage, Map
<1>3. CASE MapRefused
  BY <1>1, <1>3, RefusedSteps, Zenon
<1> QED
  BY <1>1, <1>2, <1>3, Zenon

(* A round of the huge map loop is a MapHuge or MapExists step.             *)
LEMMA MapHugeSteps ==
  ASSUME VmmInv, MapHugeStep, ~mem'.broken
  PROVE  PM!MapHuge \/ PM!MapExists
<1>1. op.v \in VPages /\ op.kind = "map" /\ op.huge /\ (HugeDone \/ MapRefused)
  BY MapHugeStepDoes, Zenon DEF VmmInv, CallRight, Calls, MapHugeStep
<1>2. CASE HugeDone
  <2>1. \A x \in Block(op.v) : Map[x] = None
    BY <1>2, MapAt, Zenon DEF HugeDone, Block
  <2>2. \A x \in Block(op.v) :
          Translate(mem', x) = [frame |-> op.p - (op.p % Fan) + (x % Fan), w |-> op.w]
    BY <1>2, Zenon DEF HugeDone, Mapping
  <2>3. Map' = [x \in VPages |-> IF x \in Block(op.v) THEN Translate(mem', x) ELSE Map[x]]
    BY <1>1, <1>2, MapBlock, Zenon DEF HugeDone
  <2>4. Map' = [x \in VPages |->
                 IF x \in Block(op.v)
                   THEN [frame |-> op.p - (op.p % Fan) + (x % Fan), w |-> op.w]
                   ELSE Map[x]]
    BY <2>2, <2>3, Zenon
  <2> QED
    BY <1>1, <2>1, <2>4, Zenon DEF PM!MapHuge, PM!Block, Block, Map
<1>3. CASE MapRefused
  BY <1>1, <1>3, RefusedSteps, Zenon
<1> QED
  BY <1>1, <1>2, <1>3, Zenon

(* A round of the unmap loop is an UnmapPage step.                          *)
LEMMA UnmapSteps ==
  ASSUME VmmInv, UnmapStep, ~mem'.broken
  PROVE  PM!UnmapPage
<1>1. op.v \in VPages /\ op.kind = "unmap" /\ (UnmapOne \/ UnmapBlock)
  BY UnmapStepDoes, Zenon DEF VmmInv, CallRight, Calls, UnmapStep
<1>2. CASE UnmapOne
  <2>1. Map' = [Map EXCEPT ![op.v] = None]
    BY <1>1, <1>2, MapSet, Zenon DEF UnmapOne
  <2> QED
    BY <1>1, <2>1, Zenon DEF PM!UnmapPage, Map
<1>3. CASE UnmapBlock
  <2>1. Map' = [x \in VPages |-> IF x \in Block(op.v) THEN Translate(mem', x) ELSE Map[x]]
    BY <1>1, <1>3, MapBlock, Zenon DEF UnmapBlock
  <2>2. Map' = [x \in VPages |-> IF x \in Block(op.v) THEN None ELSE Map[x]]
    BY <1>3, <2>1, Zenon DEF UnmapBlock
  <2> QED
    BY <1>1, <2>2, Zenon DEF PM!UnmapPage, PM!Block, Block, Map
<1> QED
  BY <1>1, <1>2, <1>3, Zenon

(* A round of the pin loop is a quiet or a DemandPage step.                 *)
LEMMA PinSteps ==
  ASSUME VmmInv, PinPresent \/ PinMissing, ~mem'.broken
  PROVE  PM!Quiet \/ \E v \in VPages : PM!DemandPage(v, Map'[v].frame)
<1>1. op.v \in VPages /\ op.kind = "pin"
  BY Zenon DEF VmmInv, CallRight, Calls, PinPresent, PinMissing
<1>2. (\A x \in VPages : Same(x)) \/ DemandDone(op.v)
  BY PinPresentDoes, PinMissingDoes, Zenon
<1> QED
  BY <1>1, <1>2, QuietSteps, DemandSteps, Zenon

(* So is every step outside the map and unmap loops.                        *)
LEMMA OtherSteps ==
  ASSUME VmmInv, Next, ~Work, ~mem'.broken, ~UNCHANGED vars
  PROVE  PM!Quiet \/ \E v \in VPages : PM!DemandPage(v, Map'[v].frame)
<1>1. ASSUME op.kind = "none", mem' = mem PROVE PM!Quiet
  BY <1>1, QuietSteps, Zenon DEF Same
<1>2. ASSUME NEW v \in Pages, NEW n \in MapCounts,
             \/ UnmapCall(v, n)
             \/ \E p \in Devices, w \in BOOLEAN :
                  MapCall(v, p, n, w, FALSE) \/ (HugeCalls /\ MapCall(v, p, n, w, TRUE))
      PROVE  PM!Quiet
  BY <1>1, <1>2, CallInv, Zenon
<1>3. ASSUME NEW v \in Pages, GetPhysical(v) PROVE PM!Quiet
  BY <1>3, GetPhysicalDoes, QuietSteps, Zenon
<1>4. ASSUME NEW addr \in PinAddrs, NEW n \in PinCounts, NEW w \in BOOLEAN, PinCall(addr, n, w)
      PROVE  PM!Quiet
  BY <1>1, <1>4, IdleCall, Zenon DEF PinCall, Ready
<1>5. ASSUME CallZero \/ \E v \in Pages : Access(v) \/ PageFaultPresent(v)
      PROVE  PM!Quiet
  BY <1>1, <1>5, IdleCall, Zenon DEF CallZero, Access, PageFaultPresent, Ready
<1>6. ASSUME NEW v \in Pages, PageFaultMissing(v)
      PROVE  PM!Quiet \/ \E x \in VPages : PM!DemandPage(x, Map'[x].frame)
  <2>1. v \in VPages /\ op.kind = "none" /\ (mem' = mem \/ DemandDone(v))
    BY <1>6, FaultDoes, Zenon
  <2> QED
    BY <1>1, <2>1, DemandSteps, Zenon
<1> QED
  BY <1>2, <1>3, <1>4, <1>5, <1>6, Zenon DEF Next, Halted

(* The page tables of vmm.c are a partial function from pages to frames    *)
(* that every operation changes at the addressed pages only, for as long   *)
(* as its walks stay inside the tables: every step is a step of PageMap.   *)
THEOREM TablesImplementPageMap == Spec => ImplementsPageMap
<1>1. Init => PM!Init
  <2> SUFFICES ASSUME Init PROVE PM!Init
    BY Zenon
  <2>1. ~mem.broken /\ (\E lev \in Levels : Shape(mem, lev)) /\ mem \in Memories
    BY InitInv, Zenon DEF Init, VmmInv
  <2>2. \A i \in Slots : ~At(mem, Root, i).present
    BY Facts, Zenon DEF Init, ZeroTable, Empty, At
  <2>3. \A v \in VPages : Translate(mem, v) = None
    BY <2>1, <2>2, TranslateIs, IndexSlots, Zenon DEF E4
  <2> QED
    BY <2>1, <2>3, Zenon DEF PM!Init, Init
<1>2. ASSUME VmmInv, [Next]_vars PROVE [PM!Next]_(PM!vars)
  <2>1. CASE UNCHANGED vars
    BY <2>1, Zenon DEF vars, PM!vars
  <2>2. CASE mem'.broken
    BY <2>2, Zenon DEF PM!Next
  <2>3. CASE ~mem'.broken /\ Work
    <3>1. \/ PM!MapPage \/ PM!MapExists \/ PM!MapHuge \/ PM!UnmapPage \/ PM!Quiet
          \/ \E v \in VPages : PM!DemandPage(v, Map'[v].frame)
      BY <1>2, <2>3, MapSteps, MapHugeSteps, UnmapSteps, PinSteps, Zenon DEF Work
    <3> QED
      BY <2>3, <3>1, Zenon DEF PM!Next, Map
  <2>4. CASE ~mem'.broken /\ ~Work /\ ~UNCHANGED vars
    <3>1. PM!Quiet \/ \E v \in VPages : PM!DemandPage(v, Map'[v].frame)
      BY <1>2, <2>4, OtherSteps, Zenon
    <3> QED
      BY <2>4, <3>1, Zenon DEF PM!Next, Map
  <2> QED
    BY <1>2, <2>1, <2>2, <2>3, <2>4, Zenon
<1> QED
  BY <1>1, <1>2, VmmInvariant, PTL DEF Spec, ImplementsPageMap, PM!Spec
=============================================================================
