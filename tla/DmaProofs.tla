------------------------------ MODULE DmaProofs ------------------------------
(***************************************************************************)
(* Proofs about the DMA and MMIO wrappers, for any memory, page size and   *)
(* requests: every frame, range and array has one owner, and every block   *)
(* is reached through the pointer its caller got.                          *)
(***************************************************************************)
EXTENDS Dma, FiniteSetTheorems, SequenceTheorems, TLAPS

-----------------------------------------------------------------------------
(* The inductive invariant.                                                *)

Blocks == [kind : {"mmio", "dma", "scatter"}, virt : Nat, size : Nat \ {0}, phys : Seq(Nat)]
Regions == [start : Pages, pages : Nat \ {0}, type : {"mmio", "unmanaged"}]

(* The first page of a block and its region.                               *)
First(b) == b.virt \div PageBytes
RegionOf(b) == [start |-> First(b), pages |-> Len(b.phys),
                type |-> IF b.kind = "scatter" THEN "unmanaged" ELSE "mmio"]

(* Every variable has its type, and a block of RAM has a frame per page.   *)
Types ==
  /\ free \subseteq Frames /\ stained \subseteq Pages /\ map \in [Pages -> Nat]
  /\ regions \subseteq Regions /\ \A r \in regions : PagesOf(r) \subseteq Pages
  /\ lost.starts \subseteq Pages /\ lost = [frames |-> lost.frames, starts |-> lost.starts]
  /\ halted \in BOOLEAN /\ arrays \in Int
  /\ call \in [pages : Nat, start : Nat, phys : Seq(Frames)] /\ IsInjective(call.phys)
  /\ Len(call.phys) <= call.pages
  /\ call # Idle => call.start \in Pages /\ call.pages > 0
  /\ held \subseteq Blocks
  /\ \A b \in held : b.kind # "mmio" => b.phys \in Seq(Frames) /\ IsInjective(b.phys)

(* The ranges in use are disjoint. Each is that of one block, of the       *)
(* running call, or of a scatter allocation that failed.                   *)
CallRegion == [start |-> call.start, pages |-> call.pages, type |-> "unmanaged"]

RangesOnce ==
  /\ \A r, s \in regions : r # s => PagesOf(r) \cap PagesOf(s) = {}
  /\ \A b \in held : RegionOf(b) \in regions /\ PagesOfBlock(b) = PagesOf(RegionOf(b))
  /\ call # Idle => CallRegion \in regions
  /\ \A b, c \in held : First(b) = First(c) => b = c
  /\ \A b \in held : First(b) \notin lost.starts /\ First(b) # call.start
  /\ call.start \notin lost.starts
  /\ {r.start : r \in regions} = {First(b) : b \in held} \cup lost.starts \cup ({call.start} \ {0})

(* Every frame has one owner.                                              *)
FramesOnce ==
  /\ \A f \in Frames : f \in free \/ f \in lost.frames \/ f \in Range(call.phys) \/ \E b \in held : f \in Ram(b)
  /\ lost.frames \subseteq Frames
  /\ free \cap lost.frames = {} /\ free \cap Range(call.phys) = {} /\ lost.frames \cap Range(call.phys) = {}
  /\ \A b \in held : Ram(b) \cap (free \cup lost.frames \cup Range(call.phys)) = {}
  /\ \A b, c \in held : b # c => Ram(b) \cap Ram(c) = {}

Scattered == {b \in held : b.kind = "scatter"}
Running == IF call = Idle THEN 0 ELSE 1

(* There are as many ranges and arrays as they have owners.                *)
Counted ==
  /\ IsFiniteSet(regions) /\ IsFiniteSet(held) /\ IsFiniteSet(lost.starts)
  /\ Cardinality(regions) = Cardinality(held) + Cardinality(lost.starts) + Running
  /\ arrays = Cardinality(Scattered) + Running

(* A block or a call in pages that no scattered buffer was in is mapped    *)
(* page by page, and so far; unused pages are not mapped.                  *)
MappedTo(start, phys) == \A k \in DOMAIN phys : map[start + k - 1] = phys[k]

MappedRight ==
  /\ \A b \in held : PagesOf(RegionOf(b)) \cap stained = {} => MappedTo(First(b), b.phys)
  /\ call # Idle /\ PagesOf(CallRegion) \cap stained = {} =>
       /\ MappedTo(call.start, call.phys)
       /\ \A k \in (Len(call.phys) + 1) .. call.pages : map[call.start + k - 1] = 0
  /\ \A p \in Pages \ (InUse \cup stained) : map[p] = 0

DmaInv == Types /\ RangesOnce /\ FramesOnce /\ Counted /\ MappedRight

-----------------------------------------------------------------------------
(* Division by the page size.                                              *)

LEMMA DivMod ==
  ASSUME NEW n \in Nat, NEW s \in Nat \ {0}
  PROVE  /\ n \div s \in Nat /\ n % s \in 0 .. (s - 1)
         /\ n = s * (n \div s) + (n % s)
  OBVIOUS

(* A quotient and a remainder below the divisor are the only ones.         *)
LEMMA DivUnique ==
  ASSUME NEW s \in Nat \ {0}, NEW q \in Nat, NEW r \in 0 .. (s - 1)
  PROVE  (s * q + r) \div s = q /\ (s * q + r) % s = r
<1> DEFINE n == s * q + r
           k == n \div s
<1>1. n \in Nat /\ k \in Nat /\ n % s \in 0 .. (s - 1) /\ n = s * k + (n % s)
  <2>1. n \in Nat
    OBVIOUS
  <2> HIDE DEF n
  <2> QED
    BY <2>1, DivMod, Zenon
<1>2. ASSUME NEW a \in Nat, NEW b \in Nat, a < b
      PROVE  s * a + s <= s * b
  <2>1. PICK e \in Nat : b = a + 1 + e
    BY <1>2
  <2>2. s * (a + 1 + e) = s * a + s + s * e /\ s * e >= 0
    OBVIOUS
  <2> QED
    BY <2>1, <2>2
<1> HIDE DEF k
<1>3. s * q \in Nat /\ s * k \in Nat
  BY <1>1
<1>4. ~(q < k)
  <2>1. SUFFICES ASSUME q < k PROVE FALSE
    BY Zenon
  <2>2. s * q + s <= s * k
    BY <1>1, <1>2, <2>1, Zenon
  <2> QED
    BY <1>1, <1>3, <2>2
<1>5. ~(k < q)
  <2>1. SUFFICES ASSUME k < q PROVE FALSE
    BY Zenon
  <2>2. s * k + s <= s * q
    BY <1>1, <1>2, <2>1, Zenon
  <2> QED
    BY <1>1, <1>3, <2>2
<1>6. k = q
  BY <1>1, <1>4, <1>5
<1> QED
  BY <1>1, <1>6 DEF k

(* A block of size bytes, at an offset in its first page, ends in the last *)
(* of the pages that kmap_mmio counts.                                     *)
LEMMA PagesSpanned ==
  ASSUME NEW off \in 0 .. (PageBytes - 1), NEW size \in Nat \ {0}, NEW start \in Nat
  PROVE  LET n == (size + off + PageBytes - 1) \div PageBytes
             virt == start * PageBytes + off
         IN  /\ n \in Nat \ {0} /\ virt \in Nat
             /\ virt \div PageBytes = start /\ virt % PageBytes = off
             /\ (virt + size - 1) \div PageBytes = start + n - 1
<1> DEFINE n == (size + off + PageBytes - 1) \div PageBytes
           virt == start * PageBytes + off
<1>0. PageBytes \in Nat \ {0}
  BY DmaAssumption, Zenon
<1>1. virt = PageBytes * start + off /\ virt \in Nat
  BY <1>0
<1>2. virt \div PageBytes = start /\ virt % PageBytes = off
  BY <1>0, <1>1, DivUnique, Zenon
<1>3. PICK q \in Nat, r \in 0 .. (PageBytes - 1) : size + off - 1 = PageBytes * q + r
  <2>1. size + off - 1 \in Nat
    BY <1>0
  <2> QED
    BY <1>0, <2>1, DivMod, ZenonT(30)
<1>4. n = q + 1
  <2>1. size + off + PageBytes - 1 = PageBytes * (q + 1) + r
    BY <1>0, <1>3
  <2>2. q + 1 \in Nat /\ (PageBytes * (q + 1) + r) \div PageBytes = q + 1
    BY <1>0, DivUnique
  <2> QED
    BY <2>1, <2>2, Zenon
<1>5. (virt + size - 1) \div PageBytes = start + q
  <2>1. virt + size - 1 = PageBytes * (start + q) + r
    <3>1. PageBytes * (start + q) = PageBytes * start + PageBytes * q
      BY <1>0
    <3>2. PageBytes * start \in Nat /\ PageBytes * q \in Nat
      BY <1>0
    <3> QED
      BY <1>0, <1>1, <1>3, <3>1, <3>2
  <2>2. start + q \in Nat
    OBVIOUS
  <2>3. (PageBytes * (start + q) + r) \div PageBytes = start + q
    BY <1>0, <2>2, DivUnique, Zenon
  <2> QED
    BY <2>1, <2>3, Zenon
<1>6. n \in Nat \ {0} /\ start + q = start + n - 1
  BY <1>4
<1> QED
  BY <1>1, <1>2, <1>5, <1>6, Zenon

-----------------------------------------------------------------------------
(* Ranges and mappings.                                                    *)

LEMMA Constants == PageBytes \in Nat \ {0} /\ Frames \subseteq Nat \ {0} /\ Pages \subseteq Nat \ {0}
  BY DmaAssumption, Zenon

(* A region begins with its first page.                                    *)
LEMMA StartInRegion ==
  ASSUME NEW r \in Regions
  PROVE  r.start \in PagesOf(r)
<1>1. r.start \in Nat /\ r.pages \in Nat \ {0}
  BY Constants, Zenon DEF Regions
<1> QED
  BY <1>1 DEF PagesOf, Span

(* Regions that begin with the same page are the same.                     *)
LEMMA OneRegionPerStart ==
  ASSUME Types, RangesOnce, NEW r \in regions, NEW s \in regions, r.start = s.start
  PROVE  r = s
<1>1. r.start \in PagesOf(r) /\ r.start \in PagesOf(s)
  BY StartInRegion, Zenon DEF Types
<1> QED
  BY <1>1, Zenon DEF RangesOnce

(* A range that the VMA answers with overlaps no other, and nobody has it. *)
LEMMA RangeIsNew ==
  ASSUME Types, RangesOnce, NEW n \in Nat, NEW start \in FreeRanges(n)
  PROVE  /\ n > 0 /\ start \in Pages /\ start \in Nat \ {0} /\ start \in Span(start, n)
         /\ Span(start, n) \subseteq Pages
         /\ \A s \in regions : Span(start, n) \cap PagesOf(s) = {} /\ s.start # start
         /\ \A b \in held : First(b) # start
         /\ start \notin lost.starts /\ start # call.start
<1>1. n > 0 /\ start \in Pages /\ start \in Nat \ {0} /\ Span(start, n) \subseteq Pages
  BY Constants, Zenon DEF FreeRanges
<1>2. start \in Span(start, n)
  BY <1>1 DEF Span
<1>3. \A s \in regions : Span(start, n) \cap PagesOf(s) = {}
  BY Zenon DEF FreeRanges, InUse
<1>4. \A s \in regions : s.start # start
  BY <1>2, <1>3, StartInRegion, Zenon DEF Types
<1>5. start \notin {First(b) : b \in held} \cup lost.starts \cup ({call.start} \ {0})
  BY <1>4, Zenon DEF RangesOnce
<1> QED
  BY <1>1, <1>2, <1>3, <1>4, <1>5, Zenon

(* vmm_map changes the pages of the range only, and maps all of them if    *)
(* none is mapped.                                                         *)
LEMMA MappedRange ==
  ASSUME NEW m \in [Pages -> Nat], NEW phys \in Seq(Nat), NEW start \in Nat,
         Span(start, Len(phys)) \subseteq Pages
  PROVE  /\ Mapped(m, start, phys) \in [Pages -> Nat]
         /\ \A p \in Pages \ Span(start, Len(phys)) : Mapped(m, start, phys)[p] = m[p]
         /\ (\A p \in Span(start, Len(phys)) : m[p] = 0) =>
              \A k \in DOMAIN phys : Mapped(m, start, phys)[start + k - 1] = phys[k]
<1> DEFINE done == {i \in DOMAIN phys : \A j \in 1 .. i : m[start + j - 1] = 0}
<1>1. Mapped(m, start, phys) = [p \in Pages |-> IF p - start + 1 \in done THEN phys[p - start + 1] ELSE m[p]]
  BY Zenon DEF Mapped
<1>2. done \subseteq 1 .. Len(phys) /\ DOMAIN phys = 1 .. Len(phys) /\ Len(phys) \in Nat
  OBVIOUS
<1>3. \A k \in 1 .. Len(phys) : start + k - 1 \in Span(start, Len(phys)) /\ (start + k - 1) - start + 1 = k
  BY <1>2 DEF Span
<1>4. \A p \in Pages \ Span(start, Len(phys)) : p - start + 1 \notin done
  BY <1>2, Constants DEF Span
<1>5. ASSUME \A p \in Span(start, Len(phys)) : m[p] = 0
      PROVE  \A k \in DOMAIN phys : k \in done
  BY <1>2, <1>3, <1>5
<1> HIDE DEF done
<1>6. Mapped(m, start, phys) \in [Pages -> Nat]
  <2>1. \A i \in done : phys[i] \in Nat
    BY <1>2
  <2> QED
    BY <1>1, <2>1, Zenon
<1>7. \A p \in Pages \ Span(start, Len(phys)) : Mapped(m, start, phys)[p] = m[p]
  BY <1>1, <1>4, Zenon
<1>8. ASSUME \A p \in Span(start, Len(phys)) : m[p] = 0, NEW k \in DOMAIN phys
      PROVE  Mapped(m, start, phys)[start + k - 1] = phys[k]
  <2>1. start + k - 1 \in Pages /\ (start + k - 1) - start + 1 = k /\ k \in done
    BY <1>2, <1>3, <1>5, <1>8, Zenon
  <2> QED
    BY <1>1, <2>1, Zenon
<1> QED
  BY <1>6, <1>7, <1>8, Zenon

(* The frames of a run are those of its span, each once.                   *)
LEMMA RunFrames ==
  ASSUME NEW start \in Nat, NEW n \in Nat
  PROVE  /\ Run(start, n) \in Seq(Nat) /\ Len(Run(start, n)) = n
         /\ IsInjective(Run(start, n)) /\ Range(Run(start, n)) = Span(start, n)
<1>1. Run(start, n) \in [1 .. n -> Nat]
  BY DEF Run
<1>2. Run(start, n) \in Seq(Nat) /\ Len(Run(start, n)) = n /\ DOMAIN Run(start, n) = 1 .. n
  BY <1>1, IsASeq
<1>3. \A i \in 1 .. n : Run(start, n)[i] = start + i - 1
  BY Zenon DEF Run
<1>4. IsInjective(Run(start, n))
  BY <1>2, <1>3 DEF IsInjective
<1>5. ASSUME NEW f \in Span(start, n)
      PROVE  f \in Range(Run(start, n))
  <2>1. f - start + 1 \in 1 .. n /\ start + (f - start + 1) - 1 = f
    BY DEF Span
  <2> QED
    BY <1>2, <1>3, <2>1, Zenon DEF Range
<1>6. Range(Run(start, n)) \subseteq Span(start, n)
  BY <1>2, <1>3 DEF Range, Span
<1> QED
  BY <1>2, <1>4, <1>5, <1>6, Zenon

(* A sequence without repetition has as many members as its length.        *)
LEMMA InjectiveCount ==
  ASSUME NEW S, NEW s \in Seq(S), IsInjective(s)
  PROVE  Cardinality(Range(s)) = Len(s)
<1>1. Len(s) \in Nat /\ DOMAIN s = 1 .. Len(s) /\ s \in [1 .. Len(s) -> Range(s)]
  BY LenProperties, Zenon DEF Range
<1>2. s \in Bijection(1 .. Len(s), Range(s))
  BY <1>1, Zenon DEF Bijection, Injection, Surjection, IsInjective, Range
<1> QED
  BY <1>1, <1>2, FS_CountingElements, Zenon DEF ExistsBijection

-----------------------------------------------------------------------------
(* A block is taken: kmap_mmio and kallocate_dma.                          *)

LEMMA BlockTaken ==
  ASSUME DmaInv, call = Idle,
         NEW b \in Blocks, b.kind # "scatter",
         First(b) \in FreeRanges(Len(b.phys)), PagesOfBlock(b) = Span(First(b), Len(b.phys)),
         b.kind # "mmio" => b.phys \in Seq(Frames) /\ IsInjective(b.phys) /\ Range(b.phys) \subseteq free,
         regions' = regions \cup {RegionOf(b)},
         map' = Mapped(map, First(b), b.phys),
         held' = held \cup {b},
         free' = free \ Ram(b),
         UNCHANGED <<arrays, call, lost, stained, halted>>
  PROVE  DmaInv'
<1> DEFINE n == Len(b.phys)
           r == RegionOf(b)
<1>1. b.phys \in Seq(Nat) /\ n \in Nat
  BY DEF Blocks
<1>2. /\ n > 0 /\ First(b) \in Pages /\ First(b) \in Nat \ {0} /\ Span(First(b), n) \subseteq Pages
      /\ \A s \in regions : Span(First(b), n) \cap PagesOf(s) = {} /\ s.start # First(b)
      /\ \A c \in held : First(c) # First(b)
      /\ First(b) \notin lost.starts /\ First(b) # call.start
  BY <1>1, RangeIsNew, Zenon DEF DmaInv
<1>3. r \in Regions /\ PagesOf(r) = Span(First(b), n) /\ r.start = First(b) /\ r \notin regions
  BY <1>1, <1>2 DEF RegionOf, Regions, PagesOf
<1>4. b \notin held
  BY <1>2, Zenon
<1>5. /\ map' \in [Pages -> Nat]
      /\ \A p \in Pages \ Span(First(b), n) : map'[p] = map[p]
      /\ (\A p \in Span(First(b), n) : map[p] = 0) => \A k \in DOMAIN b.phys : map'[First(b) + k - 1] = b.phys[k]
  <2>1. map \in [Pages -> Nat]
    BY Zenon DEF DmaInv, Types
  <2>2. First(b) \in Nat /\ Span(First(b), Len(b.phys)) \subseteq Pages
    BY <1>2, Zenon
  <2>3. Mapped(map, First(b), b.phys) \in [Pages -> Nat]
    BY <1>1, <2>1, <2>2, MappedRange, Zenon
  <2>4. \A p \in Pages \ Span(First(b), Len(b.phys)) : Mapped(map, First(b), b.phys)[p] = map[p]
    BY <1>1, <2>1, <2>2, MappedRange, Zenon
  <2>5. (\A p \in Span(First(b), Len(b.phys)) : map[p] = 0) =>
          \A k \in DOMAIN b.phys : Mapped(map, First(b), b.phys)[First(b) + k - 1] = b.phys[k]
    BY <1>1, <2>1, <2>2, MappedRange, Zenon
  <2> QED
    BY <2>3, <2>4, <2>5, Zenon
<1> HIDE DEF r, n
<1>6. Types'
  <2>1. \A c \in held' : c.kind # "mmio" => c.phys \in Seq(Frames) /\ IsInjective(c.phys)
    BY Zenon DEF DmaInv, Types
  <2>2. regions' \subseteq Regions /\ \A s \in regions' : PagesOf(s) \subseteq Pages
    BY <1>2, <1>3, Zenon DEF DmaInv, Types, r
  <2> QED
    BY <1>5, <2>1, <2>2, Zenon DEF DmaInv, Types, Idle
<1>7. RangesOnce'
  <2>1. \A s, t \in regions' : s # t => PagesOf(s) \cap PagesOf(t) = {}
    BY <1>2, <1>3 DEF DmaInv, RangesOnce, r
  <2>2. \A c \in held' : RegionOf(c) \in regions' /\ PagesOfBlock(c) = PagesOf(RegionOf(c))
    BY <1>3, Zenon DEF DmaInv, RangesOnce, r, n
  <2>3. \A c, e \in held' : First(c) = First(e) => c = e
    BY <1>2, Zenon DEF DmaInv, RangesOnce
  <2>4. \A c \in held' : First(c) \notin lost.starts /\ First(c) # call.start
    BY <1>2, Zenon DEF DmaInv, RangesOnce
  <2>5. {s.start : s \in regions'} = {First(c) : c \in held'} \cup lost.starts \cup ({call.start} \ {0})
    <3>1. {s.start : s \in regions'} = {s.start : s \in regions} \cup {First(b)}
      BY <1>3, Zenon DEF r
    <3>2. {First(c) : c \in held'} = {First(c) : c \in held} \cup {First(b)}
      BY Zenon
    <3> QED
      BY <3>1, <3>2, Zenon DEF DmaInv, RangesOnce
  <2> QED
    BY <2>1, <2>2, <2>3, <2>4, <2>5, Zenon DEF DmaInv, RangesOnce
<1>8. FramesOnce'
  <2>1. Ram(b) \subseteq free
    BY Zenon DEF Ram
  <2>2. \A c \in held : Ram(c) \cap Ram(b) = {}
    BY <2>1, Zenon DEF DmaInv, FramesOnce
  <2>3. \A f \in Frames : f \in free' \/ f \in lost.frames \/ f \in Range(call.phys) \/ \E c \in held' : f \in Ram(c)
    BY <2>1, Zenon DEF DmaInv, FramesOnce
  <2>4. \A c, e \in held' : c # e => Ram(c) \cap Ram(e) = {}
    BY <2>2, Zenon DEF DmaInv, FramesOnce
  <2>5. \A c \in held' : Ram(c) \cap (free' \cup lost.frames \cup Range(call.phys)) = {}
    BY <2>1, Zenon DEF DmaInv, FramesOnce
  <2> QED
    BY <2>3, <2>4, <2>5, Zenon DEF DmaInv, FramesOnce
<1>9. Counted'
  <2>1. IsFiniteSet(regions') /\ Cardinality(regions') = Cardinality(regions) + 1
    BY <1>3, FS_AddElement, Zenon DEF DmaInv, Counted, r
  <2>2. IsFiniteSet(held') /\ Cardinality(held') = Cardinality(held) + 1
    BY <1>4, FS_AddElement, Zenon DEF DmaInv, Counted
  <2>3. Scattered' = Scattered /\ Running' = Running
    BY Zenon DEF Scattered, Running
  <2>4. Cardinality(held) \in Nat /\ Cardinality(lost.starts) \in Nat /\ Running \in Nat
    BY FS_CardinalityType, Zenon DEF DmaInv, Counted, Running
  <2> QED
    BY <2>1, <2>2, <2>3, <2>4 DEF DmaInv, Counted
<1>10. MappedRight'
  <2>1. ASSUME NEW c \in held, PagesOf(RegionOf(c)) \cap stained = {}
        PROVE  MappedTo(First(c), c.phys)'
    <3>1. RegionOf(c) \in regions /\ PagesOf(RegionOf(c)) = Span(First(c), Len(c.phys)) /\ First(c) \in Nat
      BY Constants DEF DmaInv, RangesOnce, RegionOf, PagesOf, Types, Regions
    <3>2. \A k \in DOMAIN c.phys : First(c) + k - 1 \in PagesOf(RegionOf(c))
      <4>1. c.phys \in Seq(Nat)
        BY Zenon DEF DmaInv, Types, Blocks
      <4>2. DOMAIN c.phys = 1 .. Len(c.phys) /\ Len(c.phys) \in Nat
        BY <4>1
      <4> QED
        BY <3>1, <4>2 DEF Span
    <3>3. PagesOf(RegionOf(c)) \subseteq Pages \ Span(First(b), n)
      BY <1>2, <3>1, Zenon DEF DmaInv, Types, n
    <3>4. MappedTo(First(c), c.phys)
      BY <2>1, Zenon DEF DmaInv, MappedRight
    <3> QED
      BY <1>5, <3>2, <3>3, <3>4, Zenon DEF MappedTo
  <2>2. ASSUME PagesOf(r) \cap stained = {}
        PROVE  MappedTo(First(b), b.phys)'
    <3>1. Span(First(b), n) \subseteq Pages \ (InUse \cup stained)
      BY <1>2, <1>3, <2>2 DEF InUse
    <3> QED
      BY <1>5, <3>1, Zenon DEF MappedTo, DmaInv, MappedRight
  <2>3. \A p \in Pages \ (InUse' \cup stained) : map'[p] = 0
    <3>1. InUse' = InUse \cup Span(First(b), n)
      BY <1>3, Zenon DEF InUse, r
    <3> QED
      BY <1>5, <3>1, Zenon DEF DmaInv, MappedRight
  <2> QED
    BY <2>1, <2>2, <2>3, Zenon DEF MappedRight, r
<1> QED
  BY <1>6, <1>7, <1>8, <1>9, <1>10, Zenon DEF DmaInv

-----------------------------------------------------------------------------
(* kallocate_scatter_dma.                                                  *)

(* Pages of a block that is held, or of the running call.                  *)
LEMMA BlockPages ==
  ASSUME DmaInv, NEW c \in held
  PROVE  /\ RegionOf(c) \in regions /\ PagesOf(RegionOf(c)) = Span(First(c), Len(c.phys))
         /\ PagesOf(RegionOf(c)) \subseteq Pages
         /\ \A k \in DOMAIN c.phys : First(c) + k - 1 \in PagesOf(RegionOf(c))
<1>1. RegionOf(c) \in regions /\ PagesOf(RegionOf(c)) = Span(First(c), Len(c.phys)) /\ First(c) \in Nat
  BY Constants DEF DmaInv, RangesOnce, RegionOf, PagesOf, Types, Regions
<1>2. c.phys \in Seq(Nat)
  BY Zenon DEF DmaInv, Types, Blocks
<1>3. DOMAIN c.phys = 1 .. Len(c.phys) /\ Len(c.phys) \in Nat
  BY <1>2
<1>4. PagesOf(RegionOf(c)) \subseteq Pages
  BY <1>1, Zenon DEF DmaInv, Types
<1>5. ASSUME NEW k \in DOMAIN c.phys PROVE First(c) + k - 1 \in Span(First(c), Len(c.phys))
  BY <1>1, <1>3 DEF Span
<1> QED
  BY <1>1, <1>4, <1>5, Zenon

LEMMA CallPages ==
  ASSUME DmaInv, call # Idle
  PROVE  /\ CallRegion \in regions /\ PagesOf(CallRegion) \subseteq Pages
         /\ call.start \in Nat \ {0} /\ call.pages \in Nat
         /\ PagesOf(CallRegion) = Span(call.start, call.pages)
         /\ \A k \in 1 .. call.pages : call.start + k - 1 \in PagesOf(CallRegion)
         /\ \A c \in held : PagesOf(RegionOf(c)) \cap PagesOf(CallRegion) = {}
<1>1. call.start \in Nat \ {0} /\ call.pages \in Nat /\ CallRegion \in regions
  BY Constants, Zenon DEF DmaInv, Types, RangesOnce
<1>2. PagesOf(CallRegion) = Span(call.start, call.pages) /\ PagesOf(CallRegion) \subseteq Pages
  BY <1>1, Zenon DEF DmaInv, Types, CallRegion, PagesOf
<1>3. \A c \in held : PagesOf(RegionOf(c)) \cap PagesOf(CallRegion) = {}
  BY <1>1, Zenon DEF DmaInv, RangesOnce, RegionOf, CallRegion
<1> QED
  BY <1>1, <1>2, <1>3 DEF Span

LEMMA ScatterStarted ==
  ASSUME DmaInv, NEW n \in Counts, kallocate_scatter_dma(n)
  PROVE  DmaInv'
<1>1. PICK start \in FreeRanges(n) :
        /\ regions' = regions \cup {[start |-> start, pages |-> n, type |-> "unmanaged"]}
        /\ call' = [pages |-> n, start |-> start, phys |-> <<>>]
  BY Zenon DEF kallocate_scatter_dma
<1>2. call = Idle /\ arrays' = arrays + 1 /\ UNCHANGED <<free, map, held, lost, stained, halted>>
  BY Zenon DEF kallocate_scatter_dma, Ready
<1>3. n \in Nat
  BY DmaAssumption, Zenon
<1>4. /\ n > 0 /\ start \in Pages /\ start \in Nat \ {0} /\ Span(start, n) \subseteq Pages
      /\ \A s \in regions : Span(start, n) \cap PagesOf(s) = {} /\ s.start # start
      /\ \A c \in held : First(c) # start
      /\ start \notin lost.starts
  BY <1>3, RangeIsNew, Zenon DEF DmaInv
<1> DEFINE r == [start |-> start, pages |-> n, type |-> "unmanaged"]
<1>5. r \in Regions /\ PagesOf(r) = Span(start, n) /\ r.start = start /\ r \notin regions
  BY <1>3, <1>4 DEF Regions, PagesOf
<1>6. /\ call'.start = start /\ call'.pages = n /\ call'.phys = <<>> /\ call' # Idle
      /\ CallRegion' = r /\ Range(call'.phys) = {} /\ Range(call.phys) = {}
  BY <1>1, <1>2, <1>4 DEF Idle, CallRegion, Range
<1> HIDE DEF r
<1>7. Types'
  <2>1. regions' \subseteq Regions /\ \A s \in regions' : PagesOf(s) \subseteq Pages
    BY <1>1, <1>4, <1>5, Zenon DEF DmaInv, Types, r
  <2>2. call' \in [pages : Nat, start : Nat, phys : Seq(Frames)] /\ IsInjective(call'.phys) /\ Len(call'.phys) <= n
    BY <1>1, <1>3, <1>4 DEF IsInjective
  <2>3. arrays' \in Int
    BY <1>2 DEF DmaInv, Types
  <2> QED
    BY <1>2, <1>4, <1>6, <2>1, <2>2, <2>3, Zenon DEF DmaInv, Types
<1>8. RangesOnce'
  <2>1. \A s, t \in regions' : s # t => PagesOf(s) \cap PagesOf(t) = {}
    BY <1>1, <1>4, <1>5 DEF DmaInv, RangesOnce, r
  <2>2. {s.start : s \in regions'} = {First(c) : c \in held'} \cup lost'.starts \cup ({call'.start} \ {0})
    <3>1. {s.start : s \in regions'} = {s.start : s \in regions} \cup {start}
      BY <1>1, <1>5, Zenon DEF r
    <3>2. {call'.start} \ {0} = {start} /\ {call.start} \ {0} = {}
      BY <1>2, <1>4, <1>6, Zenon DEF Idle
    <3> QED
      BY <1>2, <3>1, <3>2, Zenon DEF DmaInv, RangesOnce
  <2> QED
    BY <1>1, <1>2, <1>4, <1>5, <1>6, <2>1, <2>2, Zenon DEF DmaInv, RangesOnce, r
<1>9. FramesOnce'
  BY <1>2, <1>6, Zenon DEF DmaInv, FramesOnce
<1>10. Counted'
  <2>1. IsFiniteSet(regions') /\ Cardinality(regions') = Cardinality(regions) + 1
    BY <1>1, <1>5, FS_AddElement, Zenon DEF DmaInv, Counted, r
  <2>2. Scattered' = Scattered /\ Running' = 1 /\ Running = 0
    BY <1>2, <1>6, Zenon DEF Scattered, Running
  <2>3. IsFiniteSet(Scattered)
    BY FS_Subset, Zenon DEF DmaInv, Counted, Scattered
  <2>4. Cardinality(held) \in Nat /\ Cardinality(lost.starts) \in Nat /\ Cardinality(Scattered) \in Nat
    BY <2>3, FS_CardinalityType, Zenon DEF DmaInv, Counted
  <2> QED
    BY <1>2, <2>1, <2>2, <2>4 DEF DmaInv, Counted
<1>11. MappedRight'
  <2>1. ASSUME PagesOf(r) \cap stained = {}
        PROVE  \A k \in 1 .. n : map[start + k - 1] = 0
    <3>1. Span(start, n) \subseteq Pages \ (InUse \cup stained)
      BY <1>4, <1>5, <2>1 DEF InUse
    <3>2. \A k \in 1 .. n : start + k - 1 \in Span(start, n)
      BY <1>3, <1>4 DEF Span
    <3> QED
      BY <3>1, <3>2, Zenon DEF DmaInv, MappedRight
  <2>2. InUse \subseteq InUse'
    BY <1>1, Zenon DEF InUse
  <2>3. \A k \in (Len(call'.phys) + 1) .. call'.pages : k \in 1 .. n
    BY <1>6
  <2>4. DOMAIN call'.phys = {}
    BY <1>6
  <2> QED
    BY <1>2, <1>6, <2>1, <2>2, <2>3, <2>4, Zenon DEF DmaInv, MappedRight, MappedTo
<1> QED
  BY <1>7, <1>8, <1>9, <1>10, <1>11, Zenon DEF DmaInv

LEMMA ScatterPageTaken ==
  ASSUME DmaInv, ScatterPage
  PROVE  DmaInv'
<1> DEFINE n == Len(call.phys)
           at == call.start + n
<1>1. PICK frame \in FreeRuns(1) :
        /\ free' = free \ {frame}
        /\ map' = Mapped(map, at, <<frame>>)
        /\ call' = [call EXCEPT !.phys = Append(call.phys, frame)]
  BY Zenon DEF ScatterPage
<1>2. n < call.pages /\ UNCHANGED <<regions, arrays, held, lost, stained, halted>>
  BY Zenon DEF ScatterPage
<1>3. frame \in Frames /\ frame \in free /\ frame \in Nat
  BY Constants DEF FreeRuns, Span
<1>4. call \in [pages : Nat, start : Nat, phys : Seq(Frames)] /\ n \in Nat /\ call.phys \in Seq(Frames)
  BY DEF DmaInv, Types
<1>5. call # Idle
  BY <1>2, <1>4 DEF Idle
<1>6. /\ call'.start = call.start /\ call'.pages = call.pages /\ call'.phys = Append(call.phys, frame)
      /\ call' \in [pages : Nat, start : Nat, phys : Seq(Frames)]
  <2>1. Append(call.phys, frame) \in Seq(Frames)
    BY <1>3, <1>4, AppendProperties, Zenon
  <2> HIDE DEF n, at
  <2> QED
    BY <1>1, <1>4, <2>1, ZenonT(30)
<1>7. /\ Len(call'.phys) = n + 1 /\ call'.phys[n + 1] = frame /\ DOMAIN call'.phys = 1 .. (n + 1)
      /\ \A k \in 1 .. n : call'.phys[k] = call.phys[k]
      /\ DOMAIN call.phys = 1 .. n
  BY <1>3, <1>4, <1>6, AppendProperties
<1>8. call' # Idle /\ CallRegion' = CallRegion
  BY <1>2, <1>4, <1>6 DEF Idle, CallRegion
<1>9. at \in PagesOf(CallRegion) /\ at \in Pages /\ at \in Nat
  <2>1. n + 1 \in 1 .. call.pages /\ call.start + (n + 1) - 1 = at
    BY <1>2, <1>4
  <2> QED
    BY <1>5, <2>1, CallPages, Constants, Zenon
<1>10. Range(call'.phys) = Range(call.phys) \cup {frame} /\ frame \notin Range(call.phys)
  <2>1. frame \notin Range(call.phys)
    BY <1>3, Zenon DEF DmaInv, FramesOnce
  <2>2. \A k \in 1 .. (n + 1) : k \in 1 .. n \/ k = n + 1
    BY <1>4
  <2>3. n + 1 \in 1 .. (n + 1) /\ 1 .. n \subseteq 1 .. (n + 1)
    BY <1>4
  <2> HIDE DEF n
  <2> QED
    BY <1>7, <2>1, <2>2, <2>3, Zenon DEF Range
<1>11. PICK one : one = <<frame>>
  BY ZenonT(30)
<1> DEFINE S == Span(at, Len(one))
<1>12. /\ map' \in [Pages -> Nat]
       /\ \A p \in Pages \ {at} : map'[p] = map[p]
       /\ map[at] = 0 => map'[at] = frame
  <2>1. one \in Seq(Nat) /\ DOMAIN one = {1} /\ one[1] = frame /\ S = {at}
    BY <1>3, <1>9, <1>11 DEF Span
  <2>2. map \in [Pages -> Nat] /\ S \subseteq Pages
    BY <1>9, <2>1, Zenon DEF DmaInv, Types
  <2>3. Mapped(map, at, one) \in [Pages -> Nat]
    BY <1>9, <2>1, <2>2, MappedRange, ZenonT(30)
  <2>4. \A p \in Pages \ S : Mapped(map, at, one)[p] = map[p]
    BY <1>9, <2>1, <2>2, MappedRange, ZenonT(30)
  <2>5. (\A p \in S : map[p] = 0) => \A k \in DOMAIN one : Mapped(map, at, one)[at + k - 1] = one[k]
    BY <1>9, <2>1, <2>2, MappedRange, Zenon
  <2>6. at + 1 - 1 = at
    BY <1>9
  <2> HIDE DEF at, S
  <2>7. map[at] = 0 => Mapped(map, at, one)[at] = frame
    BY <2>1, <2>5, <2>6, Zenon
  <2> QED
    BY <1>1, <1>11, <2>1, <2>3, <2>4, <2>7, Zenon
<1> HIDE DEF n, S
<1>13. Types'
  <2>1. IsInjective(call'.phys)
    <3>1. IsInjective(call.phys) /\ \A k \in 1 .. n : call.phys[k] # frame
      BY <1>7, <1>10, Zenon DEF DmaInv, Types, Range
    <3>2. \A k \in 1 .. (n + 1) : k \in 1 .. n \/ k = n + 1
      BY <1>4
    <3> QED
      BY <1>7, <3>1, <3>2, Zenon DEF IsInjective
  <2>2. Len(call'.phys) <= call'.pages
    BY <1>2, <1>4, <1>6, <1>7
  <2> QED
    BY <1>1, <1>2, <1>5, <1>6, <1>12, <2>1, <2>2, ZenonT(30) DEF DmaInv, Types
<1>14. RangesOnce'
  BY <1>2, <1>5, <1>6, <1>8, Zenon DEF DmaInv, RangesOnce
<1>15. FramesOnce'
  BY <1>1, <1>2, <1>3, <1>10 DEF DmaInv, FramesOnce
<1>16. Counted'
  BY <1>2, <1>5, <1>8, Zenon DEF DmaInv, Counted, Scattered, Running
<1>17. MappedRight'
  <2>1. ASSUME NEW c \in held, PagesOf(RegionOf(c)) \cap stained = {}
        PROVE  MappedTo(First(c), c.phys)'
    <3>1. \A k \in DOMAIN c.phys : First(c) + k - 1 \in Pages \ {at}
      BY <1>5, <1>9, BlockPages, CallPages, Zenon
    <3> QED
      BY <1>12, <2>1, <3>1, Zenon DEF DmaInv, MappedRight, MappedTo
  <2>2. ASSUME PagesOf(CallRegion) \cap stained = {}
        PROVE  /\ MappedTo(call.start, call.phys)'
               /\ \A k \in (n + 2) .. call.pages : map'[call.start + k - 1] = 0
    <3>1. MappedTo(call.start, call.phys) /\ \A k \in (n + 1) .. call.pages : map[call.start + k - 1] = 0
      BY <1>5, <2>2, Zenon DEF DmaInv, MappedRight, n
    <3>2. map[at] = 0
      <4>1. n + 1 \in (n + 1) .. call.pages /\ call.start + (n + 1) - 1 = at
        BY <1>2, <1>4 DEF n
      <4> QED
        BY <3>1, <4>1, Zenon
    <3>3. ASSUME NEW k \in 1 .. call.pages, k # n + 1
          PROVE  map'[call.start + k - 1] = map[call.start + k - 1]
      <4>1. call.start + k - 1 # at
        BY <1>4, <3>3 DEF n
      <4> QED
        BY <1>5, <1>12, <4>1, CallPages, Zenon
    <3>4. \A k \in 1 .. n : map'[call.start + k - 1] = call'.phys[k]
      <4>1. \A k \in 1 .. n : k \in 1 .. call.pages /\ k # n + 1
        BY <1>2, <1>4 DEF n
      <4> QED
        BY <1>7, <3>1, <3>3, <4>1, Zenon DEF MappedTo
    <3>5. map'[call.start + (n + 1) - 1] = call'.phys[n + 1]
      <4>1. call.start + (n + 1) - 1 = at
        BY <1>4 DEF n
      <4> QED
        BY <1>7, <1>12, <3>2, <4>1, Zenon
    <3>6. \A k \in 1 .. (n + 1) : k \in 1 .. n \/ k = n + 1
      BY <1>4
    <3>7. \A k \in (n + 2) .. call.pages : k \in 1 .. call.pages /\ k # n + 1 /\ k \in (n + 1) .. call.pages
      BY <1>4
    <3> HIDE DEF at
    <3>8. MappedTo(call.start, call.phys)'
      BY <1>6, <1>7, <3>4, <3>5, <3>6, Zenon DEF MappedTo
    <3> QED
      BY <3>1, <3>3, <3>7, <3>8, Zenon
  <2>3. \A p \in Pages \ (InUse \cup stained) : map'[p] = 0
    <3>1. at \in InUse
      BY <1>5, <1>9, CallPages, Zenon DEF InUse
    <3> QED
      BY <1>12, <3>1, Zenon DEF DmaInv, MappedRight
  <2>4. Len(call'.phys) + 1 = n + 2
    BY <1>4, <1>7
  <2>5. InUse' = InUse
    BY <1>2, Zenon DEF InUse
  <2> QED
    BY <1>2, <1>5, <1>6, <1>8, <2>1, <2>2, <2>3, <2>4, <2>5, Zenon DEF MappedRight
<1> QED
  BY <1>13, <1>14, <1>15, <1>16, <1>17, Zenon DEF DmaInv

(* The pages of a block of whole pages.                                    *)
LEMMA WholePages ==
  ASSUME NEW start \in Nat, NEW n \in Nat \ {0}
  PROVE  /\ start * PageBytes \in Nat /\ n * PageBytes \in Nat \ {0}
         /\ (start * PageBytes) \div PageBytes = start
         /\ (start * PageBytes + n * PageBytes - 1) \div PageBytes = start + n - 1
<1>0. PageBytes \in Nat \ {0}
  BY Constants, Zenon
<1>1. start * PageBytes \in Nat /\ n * PageBytes \in Nat \ {0}
  <2>1. PICK m \in Nat : n = m + 1
    <3>1. n - 1 \in Nat /\ n = (n - 1) + 1
      OBVIOUS
    <3> QED
      BY <3>1, Zenon
  <2>2. (m + 1) * PageBytes = m * PageBytes + PageBytes /\ m * PageBytes \in Nat
    BY <1>0
  <2> QED
    BY <1>0, <2>1, <2>2
<1>2. (n * PageBytes + 0 + PageBytes - 1) \div PageBytes = n
  <2>1. n * PageBytes + 0 + PageBytes - 1 = PageBytes * n + (PageBytes - 1)
    BY <1>0
  <2>2. PageBytes - 1 \in 0 .. (PageBytes - 1)
    BY <1>0
  <2>3. (PageBytes * n + (PageBytes - 1)) \div PageBytes = n
    BY <1>0, <2>2, DivUnique, Zenon
  <2> QED
    BY <2>1, <2>3, Zenon
<1>3. 0 \in 0 .. (PageBytes - 1)
  BY <1>0
<1>4. PICK size \in Nat \ {0} : size = n * PageBytes
  BY <1>1, Zenon
<1>5. /\ (start * PageBytes + 0) \div PageBytes = start
      /\ (start * PageBytes + 0 + size - 1) \div PageBytes
           = start + ((size + 0 + PageBytes - 1) \div PageBytes) - 1
  BY <1>3, PagesSpanned, Zenon
<1>6. start * PageBytes + 0 = start * PageBytes
  BY <1>1
<1> QED
  BY <1>1, <1>2, <1>4, <1>5, <1>6, Zenon

LEMMA OneMore ==
  ASSUME NEW S, IsFiniteSet(S), NEW x, x \notin S
  PROVE  IsFiniteSet(S \cup {x}) /\ Cardinality(S \cup {x}) = Cardinality(S) + 1
  BY FS_AddElement

LEMMA ScatterFailed ==
  ASSUME DmaInv, ScatterFail
  PROVE  DmaInv'
<1>1. /\ arrays' = arrays - 1 /\ call' = Idle
      /\ lost' = [frames |-> lost.frames \cup Range(call.phys), starts |-> lost.starts \cup {call.start}]
      /\ stained' = stained \cup Span(call.start, call.pages)
      /\ UNCHANGED <<free, map, regions, held, halted>>
  BY Zenon DEF ScatterFail
<1>2. call # Idle
  <2>1. Len(call.phys) < call.pages
    BY Zenon DEF ScatterFail
  <2> QED
    BY <2>1 DEF Idle
<1>3. /\ call.start \in Pages /\ call.start \in Nat \ {0}
      /\ PagesOf(CallRegion) = Span(call.start, call.pages) /\ PagesOf(CallRegion) \subseteq Pages
  BY <1>2, CallPages, Zenon DEF DmaInv, Types
<1>4. call'.start = 0 /\ call'.pages = 0 /\ call'.phys = <<>> /\ Range(call'.phys) = {} /\ 0 \notin Pages
  BY <1>1, Constants DEF Idle, Range
<1>5. \A c \in held : First(c) \in Pages
  BY BlockPages, ZenonT(30) DEF DmaInv, Types, Regions, RegionOf
<1>6. lost'.frames = lost.frames \cup Range(call.phys) /\ lost'.starts = lost.starts \cup {call.start}
  BY <1>1, Zenon
<1>7. Types'
  <2>1. call' \in [pages : Nat, start : Nat, phys : Seq(Frames)] /\ IsInjective(call'.phys) /\ Len(call'.phys) <= call'.pages
    BY <1>1 DEF Idle, IsInjective
  <2>2. arrays' \in Int
    BY <1>1 DEF DmaInv, Types
  <2> QED
    BY <1>1, <1>3, <1>6, <2>1, <2>2, Zenon DEF DmaInv, Types
<1>8. RangesOnce'
  <2>1. \A c \in held : First(c) \notin lost'.starts /\ First(c) # call'.start
    BY <1>4, <1>5, <1>6, ZenonT(30) DEF DmaInv, RangesOnce
  <2>2. call'.start \notin lost'.starts
    BY <1>3, <1>4, <1>6, Zenon DEF DmaInv, Types
  <2>3. {call.start} \ {0} = {call.start} /\ {call'.start} \ {0} = {}
    BY <1>3, <1>4, Zenon
  <2>4. {r.start : r \in regions} = {First(c) : c \in held} \cup lost'.starts \cup ({call'.start} \ {0})
    BY <1>6, <2>3, Zenon DEF DmaInv, RangesOnce
  <2> QED
    BY <1>1, <2>1, <2>2, <2>4, Zenon DEF DmaInv, RangesOnce
<1>9. FramesOnce'
  <2>1. Range(call.phys) \subseteq Frames
    BY DEF DmaInv, Types, Range
  <2> QED
    BY <1>1, <1>4, <1>6, <2>1, Zenon DEF DmaInv, FramesOnce
<1>10. Counted'
  <2>1. IsFiniteSet(lost'.starts) /\ Cardinality(lost'.starts) = Cardinality(lost.starts) + 1
    <3>1. IsFiniteSet(lost.starts) /\ call.start \notin lost.starts
      BY Zenon DEF DmaInv, Counted, RangesOnce
    <3> QED
      BY <1>6, <3>1, OneMore
  <2>2. Scattered' = Scattered /\ Running' = 0 /\ Running = 1
    BY <1>1, <1>2, Zenon DEF Scattered, Running
  <2>3. IsFiniteSet(Scattered)
    BY FS_Subset, Zenon DEF DmaInv, Counted, Scattered
  <2>4. Cardinality(held) \in Nat /\ Cardinality(lost.starts) \in Nat /\ Cardinality(Scattered) \in Nat
    BY <2>3, FS_CardinalityType, Zenon DEF DmaInv, Counted
  <2> QED
    BY <1>1, <2>1, <2>2, <2>4 DEF DmaInv, Counted
<1>11. MappedRight'
  <2>1. InUse' = InUse
    BY <1>1, Zenon DEF InUse
  <2> QED
    BY <1>1, <2>1, Zenon DEF DmaInv, MappedRight, MappedTo
<1> QED
  BY <1>7, <1>8, <1>9, <1>10, <1>11, Zenon DEF DmaInv

LEMMA ScatterFinished ==
  ASSUME DmaInv, ScatterDone
  PROVE  DmaInv'
<1> DEFINE b == Block("scatter", call.start * PageBytes, call.pages * PageBytes, call.phys)
<1>1. /\ call # Idle /\ Len(call.phys) = call.pages /\ call' = Idle /\ held' = held \cup {b}
      /\ UNCHANGED <<free, map, regions, arrays, lost, stained, halted>>
  BY Zenon DEF ScatterDone, memory
<1>2. /\ call.start \in Pages /\ call.start \in Nat \ {0} /\ call.pages \in Nat \ {0}
      /\ PagesOf(CallRegion) = Span(call.start, call.pages) /\ CallRegion \in regions
  <2>1. call.start \in Pages /\ call.pages > 0
    BY <1>1, Zenon DEF DmaInv, Types
  <2>2. /\ call.start \in Nat \ {0} /\ call.pages \in Nat
        /\ PagesOf(CallRegion) = Span(call.start, call.pages) /\ CallRegion \in regions
    BY <1>1, CallPages, Zenon
  <2>3. call.pages # 0
    BY <2>1, <2>2
  <2> QED
    BY <2>1, <2>2, <2>3, Zenon
<1>3. /\ call.phys \in Seq(Frames) /\ call.phys \in Seq(Nat) /\ IsInjective(call.phys)
      /\ Range(call.phys) \subseteq Frames
  <2>1. call.phys \in Seq(Frames) /\ IsInjective(call.phys)
    BY Zenon DEF DmaInv, Types
  <2>2. call.phys \in [1 .. Len(call.phys) -> Frames] /\ Len(call.phys) \in Nat
    BY <2>1, LenProperties, Zenon
  <2>3. call.phys \in [1 .. Len(call.phys) -> Nat]
    BY <2>2, Constants, Zenon
  <2>4. call.phys \in Seq(Nat)
    BY <2>2, <2>3, IsASeq
  <2> QED
    BY <2>1, <2>2, <2>4, Zenon DEF Range
<1>4. /\ b.kind = "scatter" /\ b.phys = call.phys
      /\ b.virt = call.start * PageBytes /\ b.size = call.pages * PageBytes
  BY Zenon DEF Block
<1>5. b \in Blocks
  BY <1>2, <1>3, WholePages, Zenon DEF Block, Blocks
<1> HIDE DEF b
<1>6. First(b) = call.start /\ PagesOfBlock(b) = Span(call.start, call.pages)
  BY <1>2, <1>4, WholePages, ZenonT(30) DEF First, PagesOfBlock, Span
<1>7. RegionOf(b) = CallRegion /\ Ram(b) = Range(call.phys)
  BY <1>1, <1>4, <1>6, Zenon DEF RegionOf, CallRegion, Ram
<1>8. b \notin held
  BY <1>6, Zenon DEF DmaInv, RangesOnce
<1>9. call'.start = 0 /\ call'.pages = 0 /\ call'.phys = <<>> /\ Range(call'.phys) = {} /\ 0 \notin Pages
  BY <1>1, Constants DEF Idle, Range
<1>10. Types'
  <2>1. call' \in [pages : Nat, start : Nat, phys : Seq(Frames)] /\ IsInjective(call'.phys) /\ Len(call'.phys) <= call'.pages
    BY <1>1 DEF Idle, IsInjective
  <2> QED
    BY <1>1, <1>3, <1>4, <1>5, <2>1, Zenon DEF DmaInv, Types
<1>11. RangesOnce'
  <2>1. \A c \in held' : RegionOf(c) \in regions /\ PagesOfBlock(c) = PagesOf(RegionOf(c)) /\ First(c) \in Pages
    <3>1. \A c \in held : RegionOf(c) \in regions /\ PagesOfBlock(c) = PagesOf(RegionOf(c))
      BY Zenon DEF DmaInv, RangesOnce
    <3>2. \A c \in held : First(c) \in Pages
      BY BlockPages, ZenonT(30) DEF DmaInv, Types, Regions, RegionOf
    <3> QED
      BY <1>1, <1>2, <1>6, <1>7, <3>1, <3>2, Zenon
  <2>2. \A c \in held' : First(c) \notin lost.starts
    BY <1>1, <1>6, Zenon DEF DmaInv, RangesOnce
  <2>3. \A c, e \in held' : First(c) = First(e) => c = e
    BY <1>1, <1>6, Zenon DEF DmaInv, RangesOnce
  <2>4. {First(c) : c \in held'} = {First(c) : c \in held} \cup {call.start}
    BY <1>1, <1>6, Zenon
  <2>5. {call.start} \ {0} = {call.start} /\ {call'.start} \ {0} = {} /\ call'.start \notin lost.starts
    BY <1>2, <1>9, Zenon DEF DmaInv, Types
  <2>6. {s.start : s \in regions'} = {First(c) : c \in held'} \cup lost'.starts \cup ({call'.start} \ {0})
    BY <1>1, <2>4, <2>5, Zenon DEF DmaInv, RangesOnce
  <2>7. \A c \in held' : First(c) \notin lost'.starts /\ First(c) # call'.start
    BY <1>1, <1>9, <2>1, <2>2, Zenon
  <2>8. \A s, t \in regions' : s # t => PagesOf(s) \cap PagesOf(t) = {}
    BY <1>1, Zenon DEF DmaInv, RangesOnce
  <2> QED
    BY <1>1, <2>1, <2>3, <2>5, <2>6, <2>7, <2>8, Zenon DEF RangesOnce
<1>12. FramesOnce'
  BY <1>1, <1>7, <1>9 DEF DmaInv, FramesOnce
<1>13. Counted'
  <2>1. IsFiniteSet(held') /\ Cardinality(held') = Cardinality(held) + 1
    BY <1>1, <1>8, FS_AddElement, Zenon DEF DmaInv, Counted
  <2>2. Running' = 0 /\ Running = 1
    BY <1>1, Zenon DEF Running
  <2>3. Scattered' = Scattered \cup {b} /\ b \notin Scattered
    BY <1>1, <1>4, <1>8, Zenon DEF Scattered
  <2>4. IsFiniteSet(Scattered)
    BY FS_Subset, Zenon DEF DmaInv, Counted, Scattered
  <2>5. Cardinality(Scattered') = Cardinality(Scattered) + 1
    BY <2>3, <2>4, FS_AddElement, Zenon
  <2>6. Cardinality(held) \in Nat /\ Cardinality(lost.starts) \in Nat /\ Cardinality(Scattered) \in Nat
    BY <2>4, FS_CardinalityType, Zenon DEF DmaInv, Counted
  <2> QED
    BY <1>1, <2>1, <2>2, <2>5, <2>6 DEF DmaInv, Counted
<1>14. MappedRight'
  <2>1. InUse' = InUse
    BY <1>1, Zenon DEF InUse
  <2> QED
    BY <1>1, <1>4, <1>6, <1>7, <2>1 DEF DmaInv, MappedRight, MappedTo
<1> QED
  BY <1>10, <1>11, <1>12, <1>13, <1>14, Zenon DEF DmaInv

-----------------------------------------------------------------------------
(* A block is given back: kunmap_mmio, kfree_dma and kfree_scatter_dma.    *)

(* The pages of two blocks.                                                *)
LEMMA BlocksApart ==
  ASSUME DmaInv, NEW b \in held, NEW c \in held, b # c
  PROVE  /\ RegionOf(b) # RegionOf(c) /\ PagesOf(RegionOf(b)) \cap PagesOf(RegionOf(c)) = {}
         /\ First(b) # First(c)
<1>1. First(b) # First(c) /\ RegionOf(b) \in regions /\ RegionOf(c) \in regions
  BY Zenon DEF DmaInv, RangesOnce
<1>2. RegionOf(b) # RegionOf(c)
  BY <1>1, Zenon DEF RegionOf
<1> QED
  BY <1>1, <1>2, Zenon DEF DmaInv, RangesOnce

(* The region that the VMA finds at the pointer of a block is the block's. *)
LEMMA RegionFound ==
  ASSUME DmaInv, NEW b \in held, NEW r \in RegionsAt(b.virt)
  PROVE  r = RegionOf(b)
<1>1. r \in regions /\ r.start * PageBytes = b.virt /\ r.start \in Nat
  BY Constants, Zenon DEF RegionsAt, DmaInv, Types, Regions
<1>2. First(b) = r.start
  <2>1. PICK q \in Nat : q = r.start
    BY <1>1, Zenon
  <2>2. 1 \in Nat \ {0} /\ (q * PageBytes) \div PageBytes = q
    BY WholePages
  <2> QED
    BY <1>1, <2>1, <2>2, Zenon DEF First
<1>3. RegionOf(b) \in regions /\ RegionOf(b).start = First(b)
  BY BlockPages, Zenon DEF RegionOf
<1> QED
  BY <1>1, <1>2, <1>3, OneRegionPerStart, Zenon DEF DmaInv

LEMMA BlockGiven ==
  ASSUME DmaInv, call = Idle, NEW b \in held,
         \E r \in RegionsAt(b.virt) : FreeRegion(r),
         free' = free \cup Ram(b),
         arrays' = (IF b.kind = "scatter" THEN arrays - 1 ELSE arrays),
         held' = held \ {b},
         UNCHANGED <<call, lost, halted>>
  PROVE  DmaInv'
<1> DEFINE r == RegionOf(b)
<1>1. FreeRegion(r)
  BY RegionFound, Zenon
<1>2. regions' = regions \ {r}
  BY <1>1, Zenon DEF FreeRegion
<1>3. /\ r \in regions /\ PagesOf(r) \subseteq Pages /\ r.start = First(b)
      /\ r.type = (IF b.kind = "scatter" THEN "unmanaged" ELSE "mmio")
  BY BlockPages, Zenon DEF RegionOf
<1>4. \A c \in held' : c \in held /\ c # b /\ RegionOf(c) # r /\ PagesOf(RegionOf(c)) \cap PagesOf(r) = {}
  BY BlocksApart, Zenon
<1>5. Range(call.phys) = {} /\ Range(call'.phys) = {} /\ call.start = 0 /\ call'.start = 0 /\ call' = Idle
  BY DEF Idle, Range
<1>6. \A s \in regions' : s \in regions /\ s # r /\ PagesOf(s) \cap PagesOf(r) = {}
  BY <1>2, <1>3, Zenon DEF DmaInv, RangesOnce
<1> HIDE DEF r
<1>7. /\ map' \in [Pages -> Nat] /\ stained' \subseteq Pages
      /\ \A p \in Pages \ PagesOf(r) : map'[p] = map[p] /\ (p \in stained' <=> p \in stained)
      /\ \A p \in PagesOf(r) : p \in stained' \/ map'[p] = 0
  <2>1. map \in [Pages -> Nat] /\ stained \subseteq Pages
    BY Zenon DEF DmaInv, Types
  <2>2. CASE r.type = "mmio"
    <3>1. map' = [p \in Pages |-> IF p \in PagesOf(r) THEN 0 ELSE map[p]] /\ stained' = stained \ PagesOf(r)
      BY <1>1, <2>2, Zenon DEF FreeRegion, Unmapped
    <3> QED
      BY <1>3, <2>1, <3>1, Zenon
  <2>3. CASE r.type # "mmio"
    <3>1. map' = map /\ stained' = stained \cup PagesOf(r)
      BY <1>1, <2>3, Zenon DEF FreeRegion
    <3> QED
      BY <1>3, <2>1, <3>1, Zenon
  <2> QED
    BY <2>2, <2>3, Zenon
<1>8. Types'
  <2>1. free' \subseteq Frames
    <3>1. b.kind # "mmio" => b.phys \in Seq(Frames)
      BY Zenon DEF DmaInv, Types
    <3>2. Ram(b) \subseteq Frames
      BY <3>1 DEF Ram, Range
    <3> QED
      BY <3>2, Zenon DEF DmaInv, Types
  <2>2. arrays' \in Int
    BY DEF DmaInv, Types
  <2> QED
    BY <1>2, <1>5, <1>7, <2>1, <2>2, Zenon DEF DmaInv, Types
<1>9. RangesOnce'
  <2>1. \A c \in held' : RegionOf(c) \in regions' /\ PagesOfBlock(c) = PagesOf(RegionOf(c))
    BY <1>2, <1>4, Zenon DEF DmaInv, RangesOnce
  <2>2. {s.start : s \in regions'} = {First(c) : c \in held'} \cup lost.starts \cup ({call.start} \ {0})
    <3>1. \A s \in regions' : s.start # First(b)
      BY <1>3, <1>6, OneRegionPerStart, Zenon DEF DmaInv
    <3>2. \A s \in regions : s.start # First(b) => s \in regions'
      BY <1>2, <1>3, Zenon
    <3>3. {s.start : s \in regions'} = {s.start : s \in regions} \ {First(b)}
      BY <1>2, <3>1, <3>2, Zenon
    <3>4. \A c \in held' : First(c) # First(b)
      BY <1>4, Zenon DEF DmaInv, RangesOnce
    <3>5. {First(c) : c \in held'} = {First(c) : c \in held} \ {First(b)}
      BY <3>4, Zenon
    <3>6. First(b) \notin lost.starts \cup ({call.start} \ {0})
      BY Zenon DEF DmaInv, RangesOnce
    <3>7. {s.start : s \in regions} = {First(c) : c \in held} \cup lost.starts \cup ({call.start} \ {0})
      BY Zenon DEF DmaInv, RangesOnce
    <3> QED
      BY <3>3, <3>5, <3>6, <3>7, Zenon
  <2>3. \A s, t \in regions' : s # t => PagesOf(s) \cap PagesOf(t) = {}
    BY <1>2, Zenon DEF DmaInv, RangesOnce
  <2>4. /\ \A c, e \in held' : First(c) = First(e) => c = e
        /\ \A c \in held' : First(c) \notin lost'.starts /\ First(c) # call'.start
        /\ call'.start \notin lost'.starts
    BY Zenon DEF DmaInv, RangesOnce
  <2> QED
    BY <1>5, <2>1, <2>2, <2>3, <2>4, Zenon DEF RangesOnce
<1>10. FramesOnce'
  <2>1. \A c \in held' : Ram(c) \cap (free' \cup lost'.frames \cup Range(call'.phys)) = {}
    BY <1>4, <1>5, Zenon DEF DmaInv, FramesOnce
  <2>2. free' \cap lost'.frames = {} /\ free' \cap Range(call'.phys) = {} /\ lost'.frames \cap Range(call'.phys) = {}
    BY <1>5, Zenon DEF DmaInv, FramesOnce
  <2>3. \A f \in Frames : f \in free' \/ f \in lost'.frames \/ f \in Range(call'.phys) \/ \E c \in held' : f \in Ram(c)
    BY <1>5, Zenon DEF DmaInv, FramesOnce
  <2>4. lost'.frames \subseteq Frames /\ \A c, e \in held' : c # e => Ram(c) \cap Ram(e) = {}
    BY Zenon DEF DmaInv, FramesOnce
  <2> QED
    BY <2>1, <2>2, <2>3, <2>4, Zenon DEF FramesOnce
<1>11. Counted'
  <2>1. IsFiniteSet(regions') /\ Cardinality(regions') = Cardinality(regions) - 1
    BY <1>2, <1>3, FS_RemoveElement, Zenon DEF DmaInv, Counted
  <2>2. IsFiniteSet(held') /\ Cardinality(held') = Cardinality(held) - 1
    BY FS_RemoveElement, Zenon DEF DmaInv, Counted
  <2>3. IsFiniteSet(Scattered) /\ IsFiniteSet(lost.starts)
    BY FS_Subset, Zenon DEF DmaInv, Counted, Scattered
  <2>4. arrays' = Cardinality(Scattered')
    <3>1. arrays = Cardinality(Scattered) /\ Cardinality(Scattered) \in Nat
      BY <2>3, FS_CardinalityType DEF DmaInv, Counted, Running
    <3>2. CASE b.kind = "scatter"
      <4>1. b \in Scattered /\ Scattered' = Scattered \ {b}
        BY <3>2, Zenon DEF Scattered
      <4> QED
        BY <2>3, <3>1, <3>2, <4>1, FS_RemoveElement, Zenon
    <3>3. CASE b.kind # "scatter"
      <4>1. Scattered' = Scattered
        BY <3>3 DEF Scattered
      <4> QED
        BY <3>1, <3>3, <4>1, Zenon
    <3> QED
      BY <3>2, <3>3, Zenon
  <2>5. Running = 0 /\ Running' = 0
    BY <1>5, Zenon DEF Running
  <2>6. /\ Cardinality(held) \in Nat /\ Cardinality(lost.starts) \in Nat
        /\ Cardinality(Scattered') \in Nat
        /\ Cardinality(regions) = Cardinality(held) + Cardinality(lost.starts)
    <3>1. IsFiniteSet(Scattered')
      BY <2>2, FS_Subset, Zenon DEF Scattered
    <3> QED
      BY <2>3, <2>5, <3>1, FS_CardinalityType DEF DmaInv, Counted
  <2> QED
    BY <2>1, <2>2, <2>3, <2>4, <2>5, <2>6 DEF Counted
<1>12. MappedRight'
  <2>1. ASSUME NEW c \in held', PagesOf(RegionOf(c)) \cap stained' = {}
        PROVE  MappedTo(First(c), c.phys)'
    <3>1. /\ PagesOf(RegionOf(c)) \subseteq Pages \ PagesOf(r)
          /\ \A k \in DOMAIN c.phys : First(c) + k - 1 \in PagesOf(RegionOf(c))
      BY <1>4, BlockPages, Zenon
    <3>2. PagesOf(RegionOf(c)) \cap stained = {}
      BY <1>7, <2>1, <3>1, Zenon
    <3>3. MappedTo(First(c), c.phys)
      BY <1>4, <3>2, ZenonT(30) DEF DmaInv, MappedRight
    <3> QED
      BY <1>7, <3>1, <3>3, Zenon DEF MappedTo
  <2>2. \A p \in Pages \ (InUse' \cup stained') : map'[p] = 0
    <3>1. InUse \subseteq InUse' \cup PagesOf(r)
      BY <1>2, Zenon DEF InUse
    <3> QED
      BY <1>7, <3>1, Zenon DEF DmaInv, MappedRight
  <2> QED
    BY <1>5, <2>1, <2>2, Zenon DEF MappedRight
<1> QED
  BY <1>8, <1>9, <1>10, <1>11, <1>12, Zenon DEF DmaInv

-----------------------------------------------------------------------------
(* Every step preserves the invariant.                                     *)

LEMMA MmioMapped ==
  ASSUME DmaInv, NEW d \in Devices, kmap_mmio(d)
  PROVE  DmaInv'
<1> DEFINE n == MmioPages(d)
           off == d.phys % PageBytes
           phys == Run(d.phys \div PageBytes, n)
<1>0. d.phys \in Nat /\ d.size \in Nat \ {0} /\ PageBytes \in Nat \ {0}
  BY DmaAssumption, Zenon
<1>1. off \in 0 .. (PageBytes - 1) /\ d.phys \div PageBytes \in Nat
  BY <1>0, DivMod, Zenon
<1> HIDE DEF off
<1>2. PICK start \in FreeRanges(n) :
        /\ MapRegion(start, phys)
        /\ held' = held \cup {Block("mmio", start * PageBytes + off, d.size, phys)}
  BY Zenon DEF kmap_mmio, off
<1>3. call = Idle /\ UNCHANGED <<free, arrays, call, lost, stained, halted>>
  BY Zenon DEF kmap_mmio, Ready
<1>4. start \in Nat /\ n = (d.size + off + PageBytes - 1) \div PageBytes
  BY Constants, Zenon DEF FreeRanges, MmioPages, off
<1> HIDE DEF n
<1>5. /\ n \in Nat \ {0} /\ start * PageBytes + off \in Nat
      /\ (start * PageBytes + off) \div PageBytes = start
      /\ (start * PageBytes + off + d.size - 1) \div PageBytes = start + n - 1
  <2>1. PICK size \in Nat \ {0} : size = d.size
    BY <1>0, Zenon
  <2>2. LET m == (size + off + PageBytes - 1) \div PageBytes
        IN  /\ m \in Nat \ {0} /\ start * PageBytes + off \in Nat
            /\ (start * PageBytes + off) \div PageBytes = start
            /\ (start * PageBytes + off + size - 1) \div PageBytes = start + m - 1
    BY <1>1, <1>4, PagesSpanned, Zenon
  <2> QED
    BY <1>4, <2>1, <2>2, Zenon
<1>6. phys \in Seq(Nat) /\ Len(phys) = n
  BY <1>1, <1>5, RunFrames, Zenon
<1> HIDE DEF phys
<1> DEFINE b == Block("mmio", start * PageBytes + off, d.size, phys)
<1>7. /\ b \in Blocks /\ held' = held \cup {b}
      /\ b.kind = "mmio" /\ b.virt = start * PageBytes + off /\ b.size = d.size /\ b.phys = phys
  BY <1>0, <1>2, <1>5, <1>6, Zenon DEF Block, Blocks
<1> HIDE DEF b
<1>8. First(b) = start /\ PagesOfBlock(b) = Span(First(b), Len(b.phys))
  BY <1>5, <1>6, <1>7, Zenon DEF First, PagesOfBlock, Span
<1>9. First(b) \in FreeRanges(Len(b.phys))
  BY <1>6, <1>7, <1>8, Zenon
<1>10. regions' = regions \cup {RegionOf(b)} /\ map' = Mapped(map, First(b), b.phys)
  BY <1>2, <1>7, <1>8, Zenon DEF MapRegion, RegionOf
<1>11. free' = free \ Ram(b)
  BY <1>3, <1>7, Zenon DEF Ram
<1> QED
  BY <1>2, <1>3, <1>7, <1>8, <1>9, <1>10, <1>11, BlockTaken, ZenonT(30)

LEMMA DmaAllocated ==
  ASSUME DmaInv, NEW n \in Counts, kallocate_dma(n)
  PROVE  DmaInv'
<1>1. PICK frame \in FreeRuns(n), start \in FreeRanges(n) :
        /\ free' = free \ Span(frame, n)
        /\ MapRegion(start, Run(frame, n))
        /\ held' = held \cup {Block("dma", start * PageBytes, n * PageBytes, Run(frame, n))}
  BY Zenon DEF kallocate_dma
<1>2. call = Idle /\ UNCHANGED <<arrays, call, lost, stained, halted>>
  BY Zenon DEF kallocate_dma, Ready
<1>3. n \in Nat \ {0} /\ frame \in Nat /\ start \in Nat /\ Span(frame, n) \subseteq free
  BY Constants, DmaAssumption DEF FreeRuns, FreeRanges
<1> DEFINE phys == Run(frame, n)
<1>4. phys \in Seq(Nat) /\ Len(phys) = n /\ IsInjective(phys) /\ Range(phys) = Span(frame, n)
  BY <1>3, RunFrames, Zenon
<1>5. phys \in Seq(Frames)
  <2>1. phys \in [1 .. n -> Nat]
    BY <1>4, LenProperties, Zenon
  <2>2. Range(phys) \subseteq Frames
    BY <1>3, <1>4, Zenon DEF DmaInv, Types
  <2>3. phys \in [1 .. n -> Frames]
    BY <2>1, <2>2, Zenon DEF Range
  <2> QED
    BY <1>3, <2>3, IsASeq
<1> HIDE DEF phys
<1>6. /\ start * PageBytes \in Nat /\ n * PageBytes \in Nat \ {0}
      /\ (start * PageBytes) \div PageBytes = start
      /\ (start * PageBytes + n * PageBytes - 1) \div PageBytes = start + n - 1
  BY <1>3, WholePages, Zenon
<1> DEFINE b == Block("dma", start * PageBytes, n * PageBytes, phys)
<1>7. /\ b \in Blocks /\ held' = held \cup {b}
      /\ b.kind = "dma" /\ b.virt = start * PageBytes /\ b.size = n * PageBytes /\ b.phys = phys
  BY <1>1, <1>4, <1>6, Zenon DEF Block, Blocks, phys
<1> HIDE DEF b
<1>8. First(b) = start /\ PagesOfBlock(b) = Span(First(b), Len(b.phys))
  BY <1>4, <1>6, <1>7, Zenon DEF First, PagesOfBlock, Span
<1>9. First(b) \in FreeRanges(Len(b.phys))
  BY <1>4, <1>7, <1>8, Zenon
<1>10. regions' = regions \cup {RegionOf(b)} /\ map' = Mapped(map, First(b), b.phys)
  BY <1>1, <1>7, <1>8, Zenon DEF MapRegion, RegionOf, phys
<1>11. free' = free \ Ram(b)
  BY <1>1, <1>4, <1>7, Zenon DEF Ram, phys
<1>12. b.phys \in Seq(Frames) /\ IsInjective(b.phys) /\ Range(b.phys) \subseteq free
  BY <1>3, <1>4, <1>5, <1>7, Zenon
<1> QED
  BY <1>2, <1>7, <1>8, <1>9, <1>10, <1>11, <1>12, BlockTaken, Zenon

LEMMA FramesLost ==
  ASSUME DmaInv, NEW n \in Counts, kallocate_dma_unmapped(n)
  PROVE  DmaInv'
<1>1. PICK frame \in FreeRuns(n) :
        /\ free' = free \ Span(frame, n)
        /\ lost' = [lost EXCEPT !.frames = @ \cup Span(frame, n)]
  BY Zenon DEF kallocate_dma_unmapped
<1>2. UNCHANGED <<map, regions, arrays, call, held, stained, halted>>
  BY Zenon DEF kallocate_dma_unmapped
<1>3. Span(frame, n) \subseteq free
  BY Zenon DEF FreeRuns
<1>4. lost' = [frames |-> lost.frames \cup Span(frame, n), starts |-> lost.starts]
  BY <1>1, Zenon DEF DmaInv, Types
<1>5. lost'.frames = lost.frames \cup Span(frame, n) /\ lost'.starts = lost.starts
  BY <1>4, Zenon
<1>6. Types'
  BY <1>1, <1>2, <1>4, <1>5, Zenon DEF DmaInv, Types
<1>7. RangesOnce'
  BY <1>2, <1>5, Zenon DEF DmaInv, RangesOnce, CallRegion
<1>8. FramesOnce'
  <2>1. free \subseteq Frames
    BY Zenon DEF DmaInv, Types
  <2> QED
    BY <1>1, <1>2, <1>3, <1>5, <2>1, Zenon DEF DmaInv, FramesOnce
<1>9. Counted'
  BY <1>2, <1>5, ZenonT(30) DEF DmaInv, Counted, Scattered, Running
<1>10. MappedRight'
  BY <1>2, Zenon DEF DmaInv, MappedRight, MappedTo, InUse, CallRegion
<1> QED
  BY <1>6, <1>7, <1>8, <1>9, <1>10, Zenon DEF DmaInv

(* Frees of the three kinds of block.                                      *)
LEMMA BlockFreed ==
  ASSUME DmaInv, NEW b \in held, kunmap_mmio(b) \/ kfree_dma(b) \/ kfree_scatter_dma(b)
  PROVE  DmaInv'
<1>1. call = Idle /\ held' = held \ {b} /\ UNCHANGED <<call, lost, halted>>
  BY Zenon DEF kunmap_mmio, kfree_dma, kfree_scatter_dma, Ready
<1>2. \E r \in RegionsAt(b.virt) : FreeRegion(r)
  BY Zenon DEF kunmap_mmio, kfree_dma, kfree_scatter_dma
<1>3. free' = free \cup Ram(b)
  BY Zenon DEF kunmap_mmio, kfree_dma, kfree_scatter_dma, Ram
<1>4. arrays' = (IF b.kind = "scatter" THEN arrays - 1 ELSE arrays)
  BY Zenon DEF kunmap_mmio, kfree_dma, kfree_scatter_dma
<1> QED
  BY <1>1, <1>2, <1>3, <1>4, BlockGiven, Zenon

LEMMA NothingMoved ==
  ASSUME DmaInv, UNCHANGED <<memory, call, held, lost, stained>>, halted' \in BOOLEAN
  PROVE  DmaInv'
<1>1. Types'
  BY Zenon DEF DmaInv, Types, memory
<1>2. RangesOnce'
  BY ZenonT(30) DEF DmaInv, RangesOnce, CallRegion, memory
<1>3. FramesOnce'
  BY Zenon DEF DmaInv, FramesOnce, memory
<1>4. Counted'
  BY Zenon DEF DmaInv, Counted, Scattered, Running, memory
<1>5. MappedRight'
  BY Zenon DEF DmaInv, MappedRight, MappedTo, InUse, CallRegion, memory
<1> QED
  BY <1>1, <1>2, <1>3, <1>4, <1>5, Zenon DEF DmaInv

LEMMA InitInv == Init => DmaInv
<1> SUFFICES ASSUME Init PROVE DmaInv
  BY Zenon
<1>1. Types
  <2>1. call \in [pages : Nat, start : Nat, phys : Seq(Frames)] /\ IsInjective(call.phys) /\ Len(call.phys) <= call.pages
    BY DEF Init, Idle, IsInjective
  <2>2. lost.starts = {} /\ lost = [frames |-> lost.frames, starts |-> lost.starts]
    BY Zenon DEF Init
  <2>3. map \in [Pages -> Nat]
    BY Zenon DEF Init
  <2>4. regions = {} /\ held = {} /\ call = Idle /\ free = Frames /\ stained = {} /\ halted = FALSE /\ arrays = 0
    BY Zenon DEF Init
  <2>5. halted \in BOOLEAN /\ stained \subseteq Pages /\ free \subseteq Frames
    BY <2>4, ZenonT(30)
  <2>7. arrays \in Int
    BY <2>4
  <2>6. regions \subseteq Regions /\ held \subseteq Blocks /\ lost.starts \subseteq Pages
    BY <2>2, <2>4, Zenon
  <2> QED
    BY <2>1, <2>2, <2>3, <2>4, <2>5, <2>6, <2>7, Zenon DEF Types
<1>2. RangesOnce
  BY Zenon DEF Init, RangesOnce, Idle
<1>3. FramesOnce
  BY DEF Init, FramesOnce, Idle, Range
<1>4. Counted
  <2>1. Scattered = {} /\ Running = 0
    BY Zenon DEF Init, Scattered, Running
  <2> QED
    BY <2>1, FS_EmptySet DEF Init, Counted
<1>5. MappedRight
  BY Zenon DEF Init, MappedRight
<1> QED
  BY <1>1, <1>2, <1>3, <1>4, <1>5, Zenon DEF DmaInv

(* However the calls are answered, the wrappers of kmalloc.c keep their    *)
(* books: DmaInv always holds.                                             *)
THEOREM DmaInvariant == Spec => []DmaInv
<1>1. DmaInv /\ [Next]_vars => DmaInv'
  <2> SUFFICES ASSUME DmaInv, [Next]_vars PROVE DmaInv'
    BY Zenon
  <2>1. ASSUME NEW d \in Devices, kmap_mmio(d) PROVE DmaInv'
    BY <2>1, MmioMapped, Zenon
  <2>2. ASSUME NEW n \in Counts, kallocate_dma(n) PROVE DmaInv'
    BY <2>2, DmaAllocated, Zenon
  <2>3. ASSUME NEW n \in Counts, kallocate_dma_unmapped(n) PROVE DmaInv'
    BY <2>3, FramesLost, Zenon
  <2>4. ASSUME NEW n \in Counts, kallocate_scatter_dma(n) PROVE DmaInv'
    BY <2>4, ScatterStarted, Zenon
  <2>5. CASE ScatterPage
    BY <2>5, ScatterPageTaken, Zenon
  <2>6. CASE ScatterFail
    BY <2>6, ScatterFailed, Zenon
  <2>7. CASE ScatterDone
    BY <2>7, ScatterFinished, Zenon
  <2>8. ASSUME NEW b \in held, kunmap_mmio(b) \/ kfree_dma(b) \/ kfree_scatter_dma(b) PROVE DmaInv'
    BY <2>8, BlockFreed, Zenon
  <2>9. ASSUME NEW b \in held, kunmap_mmio_fault(b) PROVE DmaInv'
    BY <2>9, NothingMoved, Zenon DEF kunmap_mmio_fault
  <2>10. CASE ReturnNull \/ Halted \/ UNCHANGED vars
    <3>1. UNCHANGED <<memory, call, held, lost, stained>> /\ halted' = halted /\ halted \in BOOLEAN
      BY <2>10, Zenon DEF ReturnNull, Halted, vars, DmaInv, Types
    <3> QED
      BY <3>1, NothingMoved, Zenon
  <2> QED
    BY <2>1, <2>2, <2>3, <2>4, <2>5, <2>6, <2>7, <2>8, <2>9, <2>10, Zenon DEF Next
<1> QED
  BY <1>1, InitInv, PTL DEF Spec

-----------------------------------------------------------------------------
(* THEOREMS                                                                *)

(* Whichever step of an allocation is refused, every frame, range of the   *)
(* MMIO tree and heap array of kmalloc.c has exactly one owner.            *)
THEOREM OwnedOnceAlways == Spec => []OwnedOnce
<1>1. DmaInv => OwnedOnce
  <2> SUFFICES ASSUME DmaInv PROVE OwnedOnce
    BY Zenon
  <2>0. \A f : f \in Taken <=> f \in Range(call.phys) \/ \E b \in held : f \in Ram(b)
    BY Zenon DEF Taken
  <2>1. TypeOK
    BY Zenon DEF DmaInv, Types, TypeOK, Regions
  <2>2. free \cup Taken \cup lost.frames = Frames
    <3>1. Range(call.phys) \subseteq Frames
      BY DEF DmaInv, Types, Range
    <3>2. \A b \in held : Ram(b) \subseteq Frames
      BY DEF DmaInv, Types, Range, Ram
    <3>3. free \subseteq Frames /\ lost.frames \subseteq Frames
      BY Zenon DEF DmaInv, Types, FramesOnce
    <3> QED
      BY <2>0, <3>1, <3>2, <3>3, Zenon DEF DmaInv, FramesOnce
  <2>3. free \cap (Taken \cup lost.frames) = {} /\ Taken \cap lost.frames = {}
    BY <2>0, Zenon DEF DmaInv, FramesOnce
  <2>4. \A b, c \in held : b # c => Ram(b) \cap Ram(c) = {}
    BY Zenon DEF DmaInv, FramesOnce
  <2>5. \A b \in held : Ram(b) \cap Range(call.phys) = {}
    BY Zenon DEF DmaInv, FramesOnce
  <2>6. ASSUME NEW b \in held, b.kind # "mmio" PROVE Cardinality(Ram(b)) = Len(b.phys)
    <3>1. b.phys \in Seq(Frames) /\ IsInjective(b.phys) /\ Ram(b) = Range(b.phys)
      BY <2>6, Zenon DEF DmaInv, Types, Ram
    <3> QED
      BY <3>1, InjectiveCount, Zenon
  <2>7. {r.start : r \in regions} = {b.virt \div PageBytes : b \in held} \cup lost.starts \cup ({call.start} \ {0})
    BY Zenon DEF DmaInv, RangesOnce, First
  <2>8. \A r, s \in regions : r # s => PagesOf(r) \cap PagesOf(s) = {}
    BY Zenon DEF DmaInv, RangesOnce
  <2>9. Cardinality({call.start} \ {0}) = Running
    <3>1. CASE call = Idle
      <4>1. {call.start} \ {0} = {}
        BY <3>1, Zenon DEF Idle
      <4> QED
        BY <3>1, <4>1, FS_EmptySet, Zenon DEF Running
    <3>2. CASE call # Idle
      <4>1. {call.start} \ {0} = {call.start}
        BY <3>2, CallPages, Zenon
      <4> QED
        BY <3>2, <4>1, FS_Singleton, Zenon DEF Running
    <3> QED
      BY <3>1, <3>2, Zenon
  <2>10. /\ Cardinality(regions) = Cardinality(held) + Cardinality(lost.starts) + Cardinality({call.start} \ {0})
         /\ arrays = Cardinality({b \in held : b.kind = "scatter"}) + Cardinality({call.start} \ {0})
    BY <2>9, Zenon DEF DmaInv, Counted, Scattered
  <2> QED
    BY <2>1, <2>2, <2>3, <2>4, <2>5, <2>6, <2>7, <2>8, <2>10, Zenon DEF OwnedOnce
<1> QED
  BY <1>1, DmaInvariant, PTL

(* The i-th byte from an offset in a page is where its page and offset say.*)
LEMMA BytePlace ==
  ASSUME NEW virt \in Nat, NEW i \in Nat
  PROVE  LET at == (virt % PageBytes) + i
         IN  /\ at \div PageBytes \in Nat
             /\ (virt + i) \div PageBytes = (virt \div PageBytes) + (at \div PageBytes)
             /\ (virt + i) % PageBytes = at % PageBytes
<1> DEFINE at == (virt % PageBytes) + i
           q == virt \div PageBytes
           e == at \div PageBytes
           r == at % PageBytes
<1>0. PageBytes \in Nat \ {0}
  BY Constants, Zenon
<1>1. q \in Nat /\ virt % PageBytes \in 0 .. (PageBytes - 1) /\ virt = PageBytes * q + (virt % PageBytes)
  BY <1>0, DivMod, Zenon
<1>2. at \in Nat
  BY <1>0, <1>1
<1> HIDE DEF at
<1>3. e \in Nat /\ r \in 0 .. (PageBytes - 1) /\ at = PageBytes * e + r
  BY <1>0, <1>2, DivMod, Zenon
<1> HIDE DEF e, r, q
<1>4. virt + i = PageBytes * (q + e) + r
  <2>1. virt + i = PageBytes * q + at
    BY <1>0, <1>1 DEF at
  <2>2. PageBytes * (q + e) = PageBytes * q + PageBytes * e
    BY <1>0, <1>1, <1>3
  <2>3. PageBytes * q \in Nat /\ PageBytes * e \in Nat
    BY <1>0, <1>1, <1>3
  <2> QED
    BY <1>0, <1>3, <2>1, <2>2, <2>3
<1>5. q + e \in Nat
  BY <1>1, <1>3
<1>6. (PageBytes * (q + e) + r) \div PageBytes = q + e /\ (PageBytes * (q + e) + r) % PageBytes = r
  BY <1>0, <1>3, <1>5, DivUnique, Zenon
<1> QED
  BY <1>3, <1>4, <1>6, Zenon DEF at, q, e, r

(* A larger number has no smaller quotient.                                *)
LEMMA DivMonotonic ==
  ASSUME NEW a \in Nat, NEW b \in Nat, a <= b, NEW s \in Nat \ {0}
  PROVE  a \div s <= b \div s
<1>1. PICK q \in Nat, r \in 0 .. (s - 1) : q = a \div s /\ a = s * q + r
  BY DivMod, Zenon
<1>2. PICK k \in Nat, t \in 0 .. (s - 1) : k = b \div s /\ b = s * k + t
  BY DivMod
<1>3. SUFFICES ASSUME k < q PROVE FALSE
  BY <1>1, <1>2
<1>4. PICK e \in Nat : q = k + 1 + e
  BY <1>3
<1>5. s * (k + 1 + e) = s * k + s + s * e /\ s * e \in Nat /\ s * k \in Nat
  OBVIOUS
<1> QED
  BY <1>1, <1>2, <1>4, <1>5

(* Every byte of a block is reached at its physical address through the    *)
(* pointer that kmap_mmio, kallocate_dma or kallocate_scatter_dma gave,    *)
(* where no scattered buffer used to be; no other page stays mapped.       *)
THEOREM HeldReachableAlways == Spec => []HeldReachable
<1>1. DmaInv => HeldReachable
  <2> SUFFICES ASSUME DmaInv PROVE HeldReachable
    BY Zenon
  <2>1. ASSUME NEW b \in held, PagesOfBlock(b) \cap stained = {}
        PROVE  /\ PagesOfBlock(b) = Span(b.virt \div PageBytes, Len(b.phys))
               /\ \A i \in 0 .. (b.size - 1) : Actual(b, i) = Intended(b, i)
    <3>1. PagesOfBlock(b) = PagesOf(RegionOf(b)) /\ PagesOf(RegionOf(b)) = Span(First(b), Len(b.phys))
      BY BlockPages, Zenon DEF DmaInv, RangesOnce
    <3>2. MappedTo(First(b), b.phys)
      BY <2>1, <3>1, Zenon DEF DmaInv, MappedRight
    <3>3. b.virt \in Nat /\ b.size \in Nat \ {0} /\ b.phys \in Seq(Nat) /\ PageBytes \in Nat \ {0}
      BY Constants, Zenon DEF DmaInv, Types, Blocks
    <3>4. First(b) \in Nat
      BY <3>3, DivMod, Zenon DEF First
    <3>5. ASSUME NEW i \in 0 .. (b.size - 1) PROVE Actual(b, i) = Intended(b, i)
      <4> DEFINE at == (b.virt % PageBytes) + i
      <4>1. i \in Nat /\ b.virt + i \in Nat /\ b.virt + b.size - 1 \in Nat /\ b.virt + i <= b.virt + b.size - 1
            /\ b.virt <= b.virt + i
        BY <3>3
      <4>2. /\ at \div PageBytes \in Nat
            /\ (b.virt + i) \div PageBytes = First(b) + (at \div PageBytes)
            /\ (b.virt + i) % PageBytes = at % PageBytes
        BY <3>3, <4>1, BytePlace, Zenon DEF First
      <4>3. (b.virt + i) \div PageBytes <= (b.virt + b.size - 1) \div PageBytes
        BY <3>3, <4>1, DivMonotonic, Zenon
      <4>4. (b.virt + i) \div PageBytes \in Span(First(b), Len(b.phys))
        <5>1. (b.virt + b.size - 1) \div PageBytes \in Nat
          BY <3>3, <4>1, DivMod, Zenon
        <5>2. (b.virt + i) \div PageBytes \in PagesOfBlock(b)
          BY <3>4, <4>2, <4>3, <5>1 DEF PagesOfBlock, First
        <5> QED
          BY <3>1, <5>2, Zenon
      <4> HIDE DEF at
      <4>5. PICK k \in Nat : k = (at \div PageBytes) + 1 /\ (b.virt + i) \div PageBytes = First(b) + k - 1
        BY <3>4, <4>2
      <4>6. k \in DOMAIN b.phys
        <5>1. PICK page \in Nat : page = First(b)
          BY <3>4, Zenon
        <5>2. page + k - 1 \in page .. (page + Len(b.phys) - 1)
          BY <4>4, <4>5, <5>1, Zenon DEF Span
        <5>3. Len(b.phys) \in Nat
          BY <3>3
        <5>4. k \in 1 .. Len(b.phys)
          BY <5>2, <5>3
        <5> QED
          BY <3>3, <5>4
      <4>7. map[(b.virt + i) \div PageBytes] = b.phys[k]
        BY <3>2, <4>5, <4>6, Zenon DEF MappedTo
      <4> QED
        BY <4>2, <4>5, <4>7, Zenon DEF Actual, Intended, at
    <3> QED
      BY <3>1, <3>5, Zenon DEF First
  <2>2. \A p \in Pages \ (InUse \cup stained) : map[p] = 0
    BY Zenon DEF DmaInv, MappedRight
  <2> QED
    BY <2>1, <2>2, Zenon DEF HeldReachable
<1> QED
  BY <1>1, DmaInvariant, PTL
=============================================================================
