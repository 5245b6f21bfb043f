----------------------------- MODULE BootProofs -----------------------------
(***************************************************************************)
(* Proofs about the boot loader, for any memory map, firmware, kernel and  *)
(* stack: the bitmap and the counters it hands to the PMM are right, and   *)
(* the kernel reaches its memory through the tables it starts with.        *)
(***************************************************************************)
EXTENDS Boot, FiniteSetTheorems, SequenceTheorems, WellFoundedInduction, TLAPS

-----------------------------------------------------------------------------
(* The inductive invariant.                                                *)

Setup == Early \cup {"info"}
Late == {"pml4", "file", "image", "stack", "exit", "kernel"}
BitSet == 0 .. (Bits - 1)

(* What the firmware gave is conventional memory; pages are queued only    *)
(* while mappings are made.                                                *)
TypesRight ==
  /\ pc \in Setup \cup Late \cup {"halted"} /\ layout \in Layouts
  /\ total \in Nat /\ used \in Nat /\ max \in Nat /\ TypeOK
  /\ \A f \in Frames : use[f] # "none" => f # 0 /\ Type(f) = "conv"
  /\ \A k \in DOMAIN tables : tables[k] \in Frames
  /\ queue \in Seq(Int \X Frames)
  /\ queue # <<>> => pc \in {"image", "stack", "exit", "halted"}

(* Until the boot information is made: what the bitmap is at each point,   *)
(* and the one frame it is in.                                             *)
BitmapBegun ==
  /\ pc \in Setup => \A f \in Frames : use[f] \in {"none", "buffer", "bitmap"}
  /\ pc = "survey" => max = 0
  /\ pc \in {"survey", "bitmap"} => busy = {} /\ \A f \in Frames : use[f] # "bitmap"
  /\ pc \in {"build", "info"} => \E b \in Frames : \A f \in Frames : use[f] = "bitmap" <=> f = b
  /\ pc = "build" => busy = BitSet
  /\ pc = "info" => busy = BitSet \ Legal
  /\ pc \in {"bitmap", "build", "info"} => used = Cardinality(Ram \ Legal) /\ total = Cardinality(Ram)
  /\ pc \notin {"survey", "halted"} => Legal \subseteq BitSet

(* From then on: what is free is memory the kernel may have and is not in  *)
(* use by it, and what the firmware may still give is free.                *)
BitmapDone ==
  pc \in Late =>
    /\ BitSet \ busy \subseteq Legal /\ KernelFrames \subseteq busy /\ Available \cap busy = {}
    /\ used + Cardinality(BitSet \ busy) = total

(* Virtual page v leads to frame f, or will when the queue is done.        *)
Leads(v, f) ==
  \/ v \in DOMAIN map /\ map[v] = f
  \/ \E i \in 1 .. Len(queue) : queue[i] = <<v, f>>
Covered(v) == \E f \in Frames : Leads(v, f)

(* What a page may lead to.                                                *)
PairRight(v, f) ==
  \/ v \in ImageRange /\ use[f] = "image"
  \/ v = DirectBase + f
  \/ v = StackBase - 1 /\ use[f] = "stack"
  \/ v = GdtFrame

MapsRight ==
  /\ DOMAIN map \subseteq Int
  /\ \A v \in Int, f \in Frames : Leads(v, f) => PairRight(v, f)
  /\ \A v, x \in ImageRange, f \in Frames : Leads(v, f) /\ Leads(x, f) => v = x
  /\ \A i \in Nat : i < Count("image") => Covered(ImageBase + i)
  /\ Count("stack") > 0 => Covered(StackBase - 1)
  /\ pc \in {"stack", "exit", "kernel"} =>
       Count("image") = ImagePages /\ \A f \in DirectFrames : Covered(DirectBase + f)
  /\ pc \in {"exit", "kernel"} => Count("stack") = StackPages

BootInv == TypesRight /\ BitmapBegun /\ BitmapDone /\ MapsRight

-----------------------------------------------------------------------------
(* Sets of numbers.                                                        *)

(* A finite set of numbers has a greatest one. The sets of numbers above   *)
(* an element are ordered by inclusion, and the least of them is empty.    *)
LEMMA MaxIs ==
  ASSUME NEW S, IsFiniteSet(S), S \subseteq Int, S # {}
  PROVE  Max(S) \in S /\ \A y \in S : y <= Max(S)
<1> DEFINE Above(x) == {y \in S : y > x}
           T == {Above(x) : x \in S}
           R == StrictSubsetOrdering(S)
<1>1. IsWellFoundedOn(R, FiniteSubsetsOf(S)) /\ FiniteSubsetsOf(S) = SUBSET S
  BY FS_StrictSubsetOrderingWellFounded, FS_FiniteSubsetsOfFinite, Zenon
<1>2. T \subseteq SUBSET S /\ T # {}
  BY Zenon
<1>3. \E A \in T : \A B \in T : <<B, A>> \notin R
  <2> DEFINE F == FiniteSubsetsOf(S)
  <2>1. T \subseteq F
    BY <1>1, <1>2, Zenon
  <2>2. IsWellFoundedOn(R, F)
    BY <1>1, Zenon
  <2>3. T # {}
    BY Zenon
  <2> HIDE DEF T, R, F
  <2> QED
    BY <2>1, <2>2, <2>3, WFMin, Zenon
<1>4. PICK x \in S : \A B \in T : <<B, Above(x)>> \notin R
  BY <1>3, Zenon
<1>5. \A y \in S : y <= x
  <2>1. SUFFICES ASSUME NEW y \in S, y > x PROVE FALSE
    OBVIOUS
  <2>2. /\ Above(y) \in SUBSET S /\ Above(x) \in SUBSET S /\ Above(y) \subseteq Above(x)
        /\ Above(y) # Above(x)
    <3>1. y \in Above(x) /\ y \notin Above(y)
      BY <2>1
    <3>2. ASSUME NEW z \in Above(y) PROVE z \in Above(x)
      <4>1. x \in Int /\ y \in Int /\ z \in S /\ z \in Int /\ z > y
        BY Zenon
      <4> QED
        BY <2>1, <4>1
    <3> QED
      BY <3>1, <3>2, Zenon
  <2>3. <<Above(y), Above(x)>> \in R
    <3> HIDE DEF Above
    <3> QED
      BY <2>2, Zenon DEF StrictSubsetOrdering
  <2> QED
    BY <1>4, <2>1, <2>3, Zenon
<1> QED
  BY <1>5, Zenon DEF Max

(* A number below s has quotient 0 by s.                                   *)
LEMMA SmallDiv ==
  ASSUME NEW n \in Nat, NEW s \in Nat \ {0}, n < s
  PROVE  n \div s = 0
  OBVIOUS

(* Quotient and remainder of a natural number.                             *)
LEMMA DivMod ==
  ASSUME NEW n \in Nat, NEW s \in Nat \ {0}
  PROVE  n \div s \in Nat /\ n % s \in 0 .. (s - 1) /\ n = s * (n \div s) + (n % s)
  OBVIOUS

(* Rounding up to whole bytes: at least as many bits as asked for, and     *)
(* none for none.                                                          *)
BitsFor(n) == ((n + BitsPerByte - 1) \div BitsPerByte) * BitsPerByte
LEMMA BitsCover ==
  ASSUME NEW m \in Nat
  PROVE  BitsFor(m) \in Nat /\ m <= BitsFor(m) /\ (m = 0 => BitsFor(m) = 0)
<1> DEFINE n == m + BitsPerByte - 1
           s == BitsPerByte
<1>1. s \in Nat \ {0} /\ n \in Nat /\ n = m + s - 1
  BY SizeAssumption
<1> HIDE DEF n, s
<1>2. n \div s \in Nat /\ n % s \in 0 .. (s - 1) /\ n = s * (n \div s) + (n % s)
  BY <1>1, DivMod, Zenon
<1>3. PICK q \in Nat, r \in 0 .. (s - 1) : q = n \div s /\ n = s * q + r
  BY <1>2, Zenon
<1>4. q * s \in Nat /\ q * s = s * q
  BY <1>1
<1>5. m <= q * s
  BY <1>1, <1>3, <1>4
<1>6. m = 0 => q = 0
  BY <1>1, <1>3, SmallDiv
<1>7. m = 0 => q * s = 0
  BY <1>1, <1>6
<1> QED
  BY <1>3, <1>4, <1>5, <1>7, Zenon DEF BitsFor, n, s

(* The size of the bitmap, before and after a step.                        *)
LEMMA BitsAre == Bits = BitsFor(max) /\ Bits' = BitsFor(max')
  BY Zenon DEF Bits, BitsFor

(* The bits of the bitmap, before and after a step.                        *)
LEMMA BitSetIs == BitSet = 0 .. (Bits - 1) /\ BitSet' = 0 .. (Bits' - 1)
  BY Zenon DEF BitSet

(* The virtual pages are numbers.                                          *)
LEMMA Bases == DirectBase \in Nat /\ ImageBase \in Nat /\ StackBase \in Nat /\ GdtFrame \in Nat
  BY AddressAssumption, Zenon

(* A proper part of a finite set has fewer elements.                       *)
LEMMA Fewer ==
  ASSUME NEW S, IsFiniteSet(S), NEW T \in SUBSET S, NEW x \in S, x \notin T
  PROVE  IsFiniteSet(T) /\ Cardinality(T) \in Nat /\ Cardinality(S) \in Nat /\ Cardinality(T) < Cardinality(S)
<1>1. IsFiniteSet(T) /\ Cardinality(T) <= Cardinality(S) /\ Cardinality(S) # Cardinality(T)
  BY FS_Subset, Zenon
<1>2. Cardinality(T) \in Nat /\ Cardinality(S) \in Nat
  BY <1>1, FS_CardinalityType, Zenon
<1> QED
  BY <1>1, <1>2

(* The queue that the direct map starts with, for the frames D: it has a   *)
(* pair for each of them and no other. The number of smaller frames is an  *)
(* injection of D into as many places as D has elements, so every place is *)
(* taken.                                                                  *)
QueueFor(D) ==
  [i \in 1 .. Cardinality(D) |->
     LET f == CHOOSE f \in D : Cardinality({g \in D : g < f}) = i - 1 IN <<DirectBase + f, f>>]
PairsOf(q, D) ==
  /\ \A i \in 1 .. Len(q) : \E f \in D : q[i] = <<DirectBase + f, f>>
  /\ \A f \in D : \E i \in 1 .. Len(q) : q[i] = <<DirectBase + f, f>>
LEMMA DirectQueue ==
  ASSUME NEW D, IsFiniteSet(D), D \subseteq Int, NEW q, q = QueueFor(D)
  PROVE  q \in Seq(Int \X D) /\ PairsOf(q, D)
<1> DEFINE Smaller(f) == {g \in D : g < f}
           n == Cardinality(D)
           rank == [f \in D |-> Cardinality(Smaller(f)) + 1]
           At(i) == CHOOSE f \in D : Cardinality(Smaller(f)) = i - 1
<1>1. n \in Nat
  BY FS_CardinalityType, Zenon
<1>2. ASSUME NEW f \in D PROVE Cardinality(Smaller(f)) \in Nat /\ Cardinality(Smaller(f)) < n
  <2>1. Smaller(f) \in SUBSET D /\ f \notin Smaller(f)
    OBVIOUS
  <2> HIDE DEF Smaller
  <2> QED
    BY <2>1, Fewer, Zenon
<1>3. ASSUME NEW f \in D, NEW g \in D, f < g
      PROVE  Cardinality(Smaller(f)) # Cardinality(Smaller(g))
  <2>1. f \in Int /\ g \in Int
    BY Zenon
  <2>2. ASSUME NEW h \in Smaller(f) PROVE h \in Smaller(g)
    <3>1. h \in D /\ h \in Int /\ h < f
      BY Zenon
    <3> QED
      BY <1>3, <2>1, <3>1
  <2>3. f \in Smaller(g) /\ f \notin Smaller(f)
    BY <1>3, <2>1
  <2>4. Smaller(g) \in SUBSET D
    BY Zenon
  <2> HIDE DEF Smaller
  <2>5. IsFiniteSet(Smaller(g)) /\ Smaller(f) \in SUBSET Smaller(g)
    BY <2>2, <2>4, FS_Subset, Zenon
  <2>6. Cardinality(Smaller(f)) < Cardinality(Smaller(g))
    BY <2>3, <2>5, Fewer, Zenon
  <2> QED
    BY <1>2, <2>6
<1>4. rank \in Injection(D, 1 .. n)
  <2>1. rank \in [D -> 1 .. n]
    <3> HIDE DEF Smaller, n
    <3> QED
      BY <1>1, <1>2
  <2>2. ASSUME NEW f \in D, NEW g \in D, rank[f] = rank[g] PROVE f = g
    <3>1. Cardinality(Smaller(f)) = Cardinality(Smaller(g))
      <4> HIDE DEF Smaller
      <4> QED
        BY <1>2, <2>2
    <3>2. f \in Int /\ g \in Int
      BY Zenon
    <3> QED
      BY <1>3, <3>1, <3>2
  <2> HIDE DEF rank
  <2> QED
    BY <2>1, <2>2, Zenon DEF Injection, IsInjective
<1>5. IsFiniteSet(1 .. n) /\ Cardinality(1 .. n) = n
  BY <1>1, FS_Interval
<1>6. rank \in Surjection(D, 1 .. n)
  <2> HIDE DEF rank
  <2> QED
    BY <1>4, <1>5, FS_Injection, Zenon DEF n
<1>7. ASSUME NEW i \in 1 .. n PROVE At(i) \in D /\ Cardinality(Smaller(At(i))) = i - 1
  <2>1. PICK f \in D : rank[f] = i
    BY <1>6, Zenon DEF Surjection
  <2>2. Cardinality(Smaller(f)) = i - 1
    <3>1. rank[f] = Cardinality(Smaller(f)) + 1
      BY Zenon
    <3>2. Cardinality(Smaller(f)) \in Nat
      BY <1>2, Zenon
    <3> HIDE DEF Smaller, rank
    <3> QED
      BY <2>1, <3>1, <3>2
  <2> HIDE DEF Smaller
  <2> QED
    BY <2>2, Zenon
<1>8. ASSUME NEW f \in D PROVE rank[f] \in 1 .. n /\ At(rank[f]) = f
  <2>1. rank[f] \in 1 .. n /\ rank[f] - 1 = Cardinality(Smaller(f))
    <3> HIDE DEF Smaller, n
    <3> QED
      BY <1>1, <1>2
  <2> DEFINE k == rank[f]
             g == At(k)
  <2>2. g \in D /\ Cardinality(Smaller(g)) = k - 1
    <3> HIDE DEF rank, At, Smaller
    <3> QED
      BY <1>7, <2>1, Zenon
  <2>3. Cardinality(Smaller(g)) = Cardinality(Smaller(f))
    BY <2>1, <2>2, Zenon
  <2>4. f \in Int /\ g \in Int
    BY <2>2, Zenon
  <2> HIDE DEF rank, At, Smaller, g, k
  <2>5. g = f
    BY <1>3, <2>2, <2>3, <2>4
  <2> QED
    BY <2>1, <2>5, Zenon DEF g, k
<1>9. q = [i \in 1 .. n |-> <<DirectBase + At(i), At(i)>>]
  BY Zenon DEF QueueFor
<1> HIDE DEF At, rank, Smaller, n
<1>10. ASSUME NEW i \in 1 .. n PROVE q[i] = <<DirectBase + At(i), At(i)>> /\ q[i] \in Int \X D
  <2>1. q[i] = <<DirectBase + At(i), At(i)>> /\ At(i) \in D /\ At(i) \in Int
    BY <1>7, <1>9, Zenon
  <2>2. DirectBase + At(i) \in Int
    BY <2>1, Bases
  <2> QED
    BY <2>1, <2>2
<1>11. q \in Seq(Int \X D) /\ Len(q) = n
  <2> DEFINE X == Int \X D
  <2>1. q \in [1 .. n -> X]
    BY <1>9, <1>10, Zenon
  <2> HIDE DEF X
  <2>2. q \in Seq(X)
    BY <1>1, <2>1, SeqDef, Zenon
  <2>3. Len(q) = n
    BY <1>1, <2>1, <2>2
  <2> QED
    BY <2>2, <2>3, Zenon DEF X
<1>12. ASSUME NEW i \in 1 .. n PROVE \E f \in D : q[i] = <<DirectBase + f, f>>
  BY <1>7, <1>10, Zenon
<1>13. ASSUME NEW f \in D PROVE \E i \in 1 .. n : q[i] = <<DirectBase + f, f>>
  <2>1. rank[f] \in 1 .. n /\ At(rank[f]) = f
    BY <1>8, Zenon
  <2>2. q[rank[f]] = <<DirectBase + f, f>>
    BY <1>10, <2>1, Zenon
  <2> QED
    BY <2>1, <2>2, Zenon
<1>14. PairsOf(q, D)
  BY <1>11, <1>12, <1>13, Zenon DEF PairsOf
<1> QED
  BY <1>11, <1>14, Zenon

-----------------------------------------------------------------------------
(* Frames and what they are used for.                                      *)

(* The sets of frames are finite sets of numbers.                          *)
LEMMA FrameSets ==
  ASSUME layout \in Layouts
  PROVE  /\ Len(layout) \in Nat /\ Frames \subseteq Nat /\ IsFiniteSet(Frames)
         /\ Legal \subseteq Ram /\ Ram \subseteq Frames /\ Legal \subseteq DirectFrames
         /\ DirectFrames \subseteq Frames
<1>1. Len(layout) \in Nat
  BY LayoutAssumption
<1>2. Frames \subseteq Nat /\ IsFiniteSet(Frames)
  BY <1>1, FS_Interval DEF Frames
<1> QED
  BY <1>1, <1>2, Zenon DEF Legal, Ram, DirectFrames

(* They depend on the memory map alone, which never changes.               *)
LEMMA LayoutKept ==
  ASSUME layout' = layout
  PROVE  /\ Frames' = Frames /\ Ram' = Ram /\ Legal' = Legal /\ DirectFrames' = DirectFrames
         /\ \A f : Type(f)' = Type(f)
<1>1. Frames' = Frames /\ \A f : Type(f)' = Type(f)
  BY Zenon DEF Frames, Type
<1> QED
  BY <1>1, Zenon DEF Ram, Legal, DirectFrames

(* The number of bits depends on max alone.                                *)
LEMMA BitsKept ==
  ASSUME max' = max
  PROVE  Bits' = Bits /\ BitSet' = BitSet
  BY Zenon DEF Bits, BitSet

(* A page from the firmware, put to a use.                                 *)
Given(f, what) == AllocatePages(f) /\ Took(f, what) /\ layout' = layout

(* It was conventional memory in no use, and only its use changes.         *)
LEMMA PageGiven ==
  ASSUME TypesRight, NEW f, NEW what \in Uses \ {"none"}, Given(f, what)
  PROVE  /\ f \in Frames /\ f # 0 /\ f \in Legal /\ Type(f) = "conv" /\ f \in Available
         /\ use[f] = "none" /\ use'[f] = what
         /\ use' \in [Frames -> Uses] /\ \A g \in Frames \ {f} : use'[g] = use[g]
         /\ Available' = Available \ {f}
         /\ \A g \in Frames : use'[g] # "none" => g # 0 /\ Type(g) = "conv"
<1>1. use \in [Frames -> Uses]
  BY Zenon DEF TypesRight, TypeOK
<1>2. f \in Available /\ use' = [use EXCEPT ![f] = what] /\ layout' = layout
  BY Zenon DEF Given, AllocatePages, Took
<1>3. f \in Frames /\ f # 0 /\ Type(f) = "conv" /\ use[f] = "none"
  BY <1>2, Zenon DEF Available
<1>4. f \in Legal
  BY <1>3, Zenon DEF Legal
<1>5. use'[f] = what /\ use' \in [Frames -> Uses] /\ \A g \in Frames \ {f} : use'[g] = use[g]
  BY <1>1, <1>2, <1>3, Zenon
<1>6. Available' = {g \in Frames \ {0} : Type(g) = "conv" /\ use'[g] = "none"}
  BY <1>2, LayoutKept, Zenon DEF Available
<1>7. Available' = Available \ {f}
  BY <1>3, <1>5, <1>6, Zenon DEF Available
<1>8. \A g \in Frames : use[g] # "none" => g # 0 /\ Type(g) = "conv"
  BY Zenon DEF TypesRight
<1> QED
  BY <1>2, <1>3, <1>4, <1>5, <1>7, <1>8, Zenon

(* It is one more frame in that use.                                       *)
LEMMA CountGiven ==
  ASSUME TypesRight, NEW f, NEW what \in Uses \ {"none"}, Given(f, what)
  PROVE  /\ Count(what) \in Nat /\ Count(what)' = Count(what) + 1
         /\ \A x \in Uses \ {"none", what} : Count(x)' = Count(x)
<1> DEFINE S(x) == {g \in Frames : use[g] = x}
           T(x) == {g \in Frames : use'[g] = x}
<1>1. /\ f \in Frames /\ use[f] = "none" /\ use'[f] = what
      /\ \A g \in Frames \ {f} : use'[g] = use[g]
  BY PageGiven, Zenon
<1>2. Frames' = Frames
  BY LayoutKept, Zenon DEF Given
<1>3. \A x : Count(x) = Cardinality(S(x)) /\ Count(x)' = Cardinality(T(x))
  BY <1>2, Zenon DEF Count
<1>4. T(what) = S(what) \cup {f} /\ f \notin S(what)
  BY <1>1, Zenon
<1>5. ASSUME NEW x \in Uses \ {"none", what} PROVE T(x) = S(x)
  BY <1>1, Zenon
<1>6. IsFiniteSet(S(what))
  BY FrameSets, FS_Subset, Zenon DEF TypesRight
<1> HIDE DEF S, T
<1>7. Cardinality(S(what)) \in Nat /\ Cardinality(T(what)) = Cardinality(S(what)) + 1
  BY <1>4, <1>6, FS_AddElement, FS_CardinalityType, Zenon
<1> QED
  BY <1>3, <1>5, <1>7, Zenon

(* A step that puts no frame to another use keeps the counts.              *)
LEMMA CountKept ==
  ASSUME use' = use, layout' = layout
  PROVE  \A x : Count(x)' = Count(x)
  BY LayoutKept, Zenon DEF Count

-----------------------------------------------------------------------------
(* Every step keeps the types.                                             *)

(* A page from the firmware, with the mappings and tables left alone.      *)
LEMMA TypesGiven ==
  ASSUME TypesRight, NEW f, NEW what \in Uses \ {"none"}, Given(f, what),
         map' = map, tables' = tables, pc' \in Setup \cup Late,
         total' \in Nat, used' \in Nat, max' \in Nat, busy' \subseteq BitSet',
         queue' \in Seq(Int \X Frames), queue' # <<>> => pc' \in {"image", "stack", "exit"}
  PROVE  TypesRight'
<1>1. /\ f \in Frames /\ use[f] = "none" /\ use' \in [Frames -> Uses]
      /\ \A g \in Frames \ {f} : use'[g] = use[g]
      /\ \A g \in Frames : use'[g] # "none" => g # 0 /\ Type(g) = "conv"
  BY PageGiven, Zenon
<1>2. layout' = layout /\ Frames' = Frames /\ \A g : Type(g)' = Type(g)
  BY LayoutKept, Zenon DEF Given
<1>3. /\ \A k \in DOMAIN tables : tables[k] \in Frames /\ use[tables[k]] = "table"
      /\ \A v \in DOMAIN map : map[v] \in Frames
      /\ layout \in Layouts
  BY Zenon DEF TypesRight, TypeOK
<1>4. \A k \in DOMAIN tables : use'[tables[k]] = "table"
  BY <1>1, <1>3, Zenon
<1>5. TypeOK'
  BY <1>1, <1>2, <1>3, <1>4, Zenon DEF TypeOK, BitSet
<1> QED
  BY <1>1, <1>2, <1>3, <1>5, Zenon DEF TypesRight

(* The frames that the firmware gives have a bit.                          *)
LEMMA GivenHasBit ==
  ASSUME TypesRight, BitmapBegun, pc \notin {"survey", "halted"}, NEW f, AllocatePages(f)
  PROVE  f \in BitSet /\ f \in Legal
<1>1. f \in Legal
  BY Zenon DEF AllocatePages, Available, Legal
<1> QED
  BY <1>1, Zenon DEF BitmapBegun

(* What get_memory_map counts, and the last frame it finds.                *)
LEMMA Surveyed ==
  ASSUME TypesRight, Survey
  PROVE  /\ layout' = layout /\ total' \in Nat /\ used' \in Nat /\ max' \in Nat
         /\ Legal \subseteq BitSet'
<1>1. layout \in Layouts
  BY Zenon DEF TypesRight
<1>2. PICK f : AllocatePages(f)
  BY Zenon DEF Survey
<1>3. f \in Legal
  BY <1>2, Zenon DEF AllocatePages, Available, Legal
<1>4. /\ Legal \subseteq Nat /\ IsFiniteSet(Legal) /\ IsFiniteSet(Ram) /\ IsFiniteSet(Ram \ Legal)
  <2>1. Legal \in SUBSET Frames /\ Ram \in SUBSET Frames /\ Ram \ Legal \in SUBSET Frames
    BY <1>1, FrameSets, Zenon
  <2> QED
    BY <1>1, <2>1, FrameSets, FS_Subset, Zenon
<1>5. Max(Legal) \in Legal /\ \A g \in Legal : g <= Max(Legal)
  <2>1. Legal \subseteq Int /\ Legal # {}
    BY <1>3, <1>4
  <2> QED
    BY <1>4, <2>1, MaxIs, Zenon
<1>6. /\ total' = Cardinality(Ram) /\ used' = Cardinality(Ram \ Legal) /\ max' = Max(Legal) + 1
      /\ layout' = layout
  BY Zenon DEF Survey
<1>7. max' \in Nat /\ total' \in Nat /\ used' \in Nat
  <2>1. Max(Legal) \in Nat
    BY <1>4, <1>5, Zenon
  <2>2. Cardinality(Ram) \in Nat /\ Cardinality(Ram \ Legal) \in Nat
    BY <1>4, FS_CardinalityType, Zenon
  <2> QED
    BY <1>6, <2>1, <2>2
<1>8. Bits' \in Nat /\ max' <= Bits'
  BY <1>7, BitsCover, BitsAre, Zenon
<1>9. ASSUME NEW g \in Legal PROVE g \in BitSet'
  <2>1. g \in Nat /\ g < max'
    <3>1. g \in Nat /\ g <= Max(Legal) /\ Max(Legal) \in Nat
      BY <1>4, <1>5, Zenon
    <3> QED
      BY <1>6, <3>1
  <2> QED
    <3>1. PICK k \in Nat, m \in Nat : k = Bits' /\ m = max'
      BY <1>7, <1>8, Zenon
    <3>2. g \in Nat /\ g < m /\ m <= k
      BY <1>8, <2>1, <3>1, Zenon
    <3>3. BitSet' = 0 .. (k - 1)
      BY <3>1, BitSetIs, Zenon
    <3> QED
      BY <3>2, <3>3
<1> QED
  BY <1>6, <1>7, <1>9, Zenon

(* The steps until the kernel is loaded.                                    *)
LEMMA SetupTypes ==
  ASSUME TypesRight, BitmapBegun, Survey \/ AllocBitmap \/ Build \/ AllocInfo \/ AllocPml4 \/ ReadFile
  PROVE  TypesRight'
<1>1. /\ busy \subseteq BitSet /\ total \in Nat /\ used \in Nat /\ max \in Nat
      /\ queue \in Seq(Int \X Frames) /\ (queue # <<>> => pc \in {"image", "stack", "exit", "halted"})
  BY Zenon DEF TypesRight, TypeOK, BitSet
<1>2. CASE Survey
  <2>1. PICK f : Given(f, "buffer")
    BY <1>2, Zenon DEF Survey, Given
  <2>2. busy = {}
    BY <1>2, Zenon DEF Survey, BitmapBegun
  <2>3. /\ map' = map /\ tables' = tables /\ queue' = queue /\ pc = "survey" /\ pc' = "bitmap"
        /\ busy' = busy
    BY <1>2, Zenon DEF Survey
  <2>4. total' \in Nat /\ used' \in Nat /\ max' \in Nat
    BY <1>2, Surveyed, Zenon
  <2> QED
    BY <1>1, <2>1, <2>2, <2>3, <2>4, TypesGiven, Zenon DEF Uses, Setup, Early
<1>3. CASE AllocBitmap
  <2>1. PICK f : Given(f, "bitmap")
    BY <1>3, Zenon DEF AllocBitmap, Given
  <2>2. /\ map' = map /\ tables' = tables /\ queue' = queue /\ pc = "bitmap" /\ pc' = "build"
        /\ busy' = BitSet /\ total' = total /\ used' = used /\ max' = max
    BY <1>3, Zenon DEF AllocBitmap, AllBusy, BitSet
  <2> QED
    BY <1>1, <2>1, <2>2, TypesGiven, BitsKept, Zenon DEF Uses, Setup, Early
<1>4. CASE Build
  <2>1. PICK f : Given(f, "buffer")
    BY <1>4, Zenon DEF Build, Given
  <2>2. /\ map' = map /\ tables' = tables /\ queue' = queue /\ pc = "build" /\ pc' = "info"
        /\ busy' \subseteq busy /\ total' = total /\ used' = used /\ max' = max
    BY <1>4, Zenon DEF Build
  <2> QED
    BY <1>1, <2>1, <2>2, TypesGiven, BitsKept, Zenon DEF Uses, Setup, Early
<1>5. CASE AllocInfo
  <2>1. PICK f : Given(f, "info") /\ busy' = busy \cup {0, f} \cup {g \in Frames : use[g] = "bitmap"}
    BY <1>5, Zenon DEF AllocInfo, Given
  <2>2. /\ map' = map /\ tables' = tables /\ queue' = queue /\ pc = "info" /\ pc' = "pml4"
        /\ total' = total /\ used' = used + 2 + Sentinel /\ max' = max
    BY <1>5, Zenon DEF AllocInfo
  <2>3. f \in BitSet /\ Legal \subseteq BitSet
    BY <2>1, <2>2, GivenHasBit, Zenon DEF Given, BitmapBegun
  <2>4. 0 \in BitSet
    BY <1>1, <2>3, BitsCover, BitsAre DEF BitSet
  <2>5. {g \in Frames : use[g] = "bitmap"} \subseteq Legal
    BY Zenon DEF TypesRight, Legal
  <2>6. busy' \subseteq BitSet' /\ used' \in Nat
    BY <1>1, <2>1, <2>2, <2>3, <2>4, <2>5, BitsKept DEF Sentinel
  <2> QED
    BY <1>1, <2>1, <2>2, <2>6, TypesGiven, Zenon DEF Uses, Late
<1>6. CASE AllocPml4
  <2>1. PICK f : Given(f, "pml4") /\ busy' = busy \cup {f}
    BY <1>6, Zenon DEF AllocPml4, Given
  <2>2. /\ map' = map /\ tables' = tables /\ queue' = queue /\ pc = "pml4" /\ pc' = "file"
        /\ total' = total /\ used' = used + 1 /\ max' = max
    BY <1>6, Zenon DEF AllocPml4
  <2>3. f \in BitSet
    BY <2>1, <2>2, GivenHasBit, Zenon DEF Given
  <2> QED
    BY <1>1, <2>1, <2>2, <2>3, TypesGiven, BitsKept DEF Uses, Late
<1>7. CASE ReadFile
  <2>1. PICK f : Given(f, "buffer")
    BY <1>7, Zenon DEF ReadFile, Given
  <2>2. /\ map' = map /\ tables' = tables /\ queue' = queue /\ pc = "file" /\ pc' = "image"
        /\ busy' = busy /\ total' = total /\ used' = used /\ max' = max
    BY <1>7, Zenon DEF ReadFile
  <2> QED
    BY <1>1, <2>1, <2>2, TypesGiven, BitsKept, Zenon DEF Uses, Late
<1> QED
  BY <1>2, <1>3, <1>4, <1>5, <1>6, <1>7, Zenon

(* A new table on the walk of map_vaddr_to_paddr.                          *)
LEMMA WalkTypes ==
  ASSUME TypesRight, BitmapBegun, Walk
  PROVE  TypesRight'
<1>1. /\ busy \subseteq BitSet /\ total \in Nat /\ used \in Nat /\ max \in Nat /\ layout \in Layouts
      /\ queue \in Seq(Int \X Frames)
      /\ \A v \in DOMAIN map : map[v] \in Frames
      /\ \A k \in DOMAIN tables : tables[k] \in Frames /\ use[tables[k]] = "table"
  BY Zenon DEF TypesRight, TypeOK, BitSet
<1>2. /\ pc \in {"image", "stack", "exit"} /\ pc' = pc /\ layout' = layout /\ total' = total
      /\ max' = max /\ map' = map /\ queue' = queue
  BY Zenon DEF Walk, TypesRight
<1>3. PICK f, k : /\ Given(f, "table") /\ busy' = busy \cup {f} /\ used' = used + 1
                  /\ tables' = [x \in DOMAIN tables \cup {k} |-> IF x = k THEN f ELSE tables[x]]
  BY Zenon DEF Walk, NewTable, Given
<1>4. /\ f \in Frames /\ use[f] = "none" /\ use'[f] = "table" /\ use' \in [Frames -> Uses]
      /\ \A g \in Frames \ {f} : use'[g] = use[g]
      /\ \A g \in Frames : use'[g] # "none" => g # 0 /\ Type(g) = "conv"
  BY <1>3, PageGiven, Zenon DEF Uses
<1>5. Frames' = Frames /\ (\A g : Type(g)' = Type(g)) /\ BitSet' = BitSet
  BY <1>2, LayoutKept, BitsKept, Zenon
<1>6. f \in BitSet
  BY <1>2, <1>3, GivenHasBit, Zenon DEF Given
<1>7. ASSUME NEW x \in DOMAIN tables' PROVE tables'[x] \in Frames /\ use'[tables'[x]] = "table"
  BY <1>1, <1>3, <1>4, Zenon
<1>8. busy' \subseteq BitSet' /\ used' \in Nat
  BY <1>1, <1>3, <1>5, <1>6
<1>9. TypeOK'
  BY <1>1, <1>2, <1>4, <1>5, <1>7, <1>8, Zenon DEF TypeOK, BitSet
<1> QED
  BY <1>1, <1>2, <1>4, <1>5, <1>7, <1>8, <1>9, Zenon DEF TypesRight, Late

(* The entry of the page itself.                                           *)
LEMMA MapPageTypes ==
  ASSUME TypesRight, MapPage
  PROVE  TypesRight'
<1>1. /\ queue \in Seq(Int \X Frames) /\ queue # <<>> /\ queue' = Tail(queue)
      /\ pc \in {"image", "stack", "exit"} /\ pc' = pc /\ layout' = layout
      /\ UNCHANGED <<use, total, used, max, busy, tables>>
  BY Zenon DEF MapPage, TypesRight
<1>2. PICK v \in Int, f \in Frames :
        map' = [x \in DOMAIN map \cup {v} |-> IF x = v THEN f ELSE map[x]]
  <2>1. Head(queue)[1] \in Int /\ Head(queue)[2] \in Frames
    BY <1>1
  <2> QED
    BY <2>1, Zenon DEF MapPage
<1>3. queue' \in Seq(Int \X Frames)
  BY <1>1
<1>4. \A x \in DOMAIN map : map[x] \in Frames
  BY Zenon DEF TypesRight, TypeOK
<1>5. \A x \in DOMAIN map' : map'[x] \in Frames
  BY <1>2, <1>4, Zenon
<1>6. Frames' = Frames /\ (\A g : Type(g)' = Type(g)) /\ Bits' = Bits
  BY <1>1, LayoutKept, BitsKept, Zenon
<1>7. TypeOK'
  BY <1>1, <1>5, <1>6, Zenon DEF TypeOK, TypesRight
<1> QED
  BY <1>1, <1>3, <1>6, <1>7, Zenon DEF TypesRight, Late

(* The steps that queue a mapping, and the end.                            *)
LEMMA MappingTypes ==
  ASSUME TypesRight, BitmapBegun, LoadPage \/ Direct \/ StackPage \/ ExitBootServices
  PROVE  TypesRight'
<1>1. /\ busy \subseteq BitSet /\ total \in Nat /\ used \in Nat /\ max \in Nat /\ layout \in Layouts
      /\ queue \in Seq(Int \X Frames)
  BY Zenon DEF TypesRight, TypeOK, BitSet
<1>2. CASE LoadPage
  <2>1. PICK f : /\ Given(f, "image") /\ queue' = <<<<ImageBase + Count("image"), f>>>>
                 /\ busy' = busy \cup {f}
    BY <1>2, Zenon DEF LoadPage, Given
  <2>2. /\ map' = map /\ tables' = tables /\ pc = "image" /\ pc' = "image"
        /\ total' = total /\ used' = used + 1 /\ max' = max
    BY <1>2, Zenon DEF LoadPage
  <2>3. f \in BitSet /\ f \in Frames /\ ImageBase + Count("image") \in Int
    BY <2>1, <2>2, GivenHasBit, PageGiven, CountGiven, Bases DEF Given, Uses
  <2>4. queue' \in Seq(Int \X Frames)
    BY <2>1, <2>3
  <2> QED
    BY <1>1, <2>1, <2>2, <2>3, <2>4, TypesGiven, BitsKept DEF Uses, Late
<1>3. CASE Direct
  <2>1. PICK f : Given(f, "buffer")
    BY <1>3, Zenon DEF Direct, Given
  <2>2. /\ map' = map /\ tables' = tables /\ pc' = "stack" /\ queue' = QueueFor(DirectFrames)
        /\ busy' = busy /\ total' = total /\ used' = used /\ max' = max
    BY <1>3, Zenon DEF Direct, QueueFor
  <2>3. DirectFrames \subseteq Frames /\ IsFiniteSet(DirectFrames) /\ DirectFrames \subseteq Int
    BY <1>1, FrameSets, FS_Subset
  <2>4. queue' \in Seq(Int \X DirectFrames)
    BY <2>2, <2>3, DirectQueue, Zenon
  <2>5. Int \X DirectFrames \subseteq Int \X Frames
    BY <2>3, Zenon
  <2>6. queue' \in Seq(Int \X Frames)
    BY <2>4, <2>5, SeqMonotonic, Zenon
  <2> QED
    BY <1>1, <2>1, <2>2, <2>6, TypesGiven, BitsKept, Zenon DEF Uses, Late
<1>4. CASE StackPage
  <2>1. PICK f : Given(f, "stack") /\ queue' = <<<<StackBase - 1, f>>>>
    BY <1>4, Zenon DEF StackPage, Given
  <2>2. /\ map' = map /\ tables' = tables /\ pc = "stack" /\ pc' = "stack"
        /\ busy' = busy /\ total' = total /\ used' = used /\ max' = max
    BY <1>4, Zenon DEF StackPage
  <2>3. f \in Frames /\ StackBase - 1 \in Int
    BY <2>1, PageGiven, Bases DEF Uses
  <2>4. queue' \in Seq(Int \X Frames)
    BY <2>1, <2>3
  <2> QED
    BY <1>1, <2>1, <2>2, <2>4, TypesGiven, BitsKept, Zenon DEF Uses, Late
<1>5. CASE ExitBootServices
  <2>1. PICK f : Given(f, "buffer")
    BY <1>5, Zenon DEF ExitBootServices, Given
  <2>2. /\ map' = map /\ tables' = tables /\ pc' = "kernel" /\ queue' = queue /\ queue = <<>>
        /\ busy' = busy /\ total' = total /\ used' = used /\ max' = max
    BY <1>5, Zenon DEF ExitBootServices
  <2> QED
    BY <1>1, <2>1, <2>2, TypesGiven, BitsKept, Zenon DEF Uses, Late
<1> QED
  BY <1>2, <1>3, <1>4, <1>5, Zenon

(* The steps that take no page from the firmware.                          *)
LEMMA QuietTypes ==
  ASSUME TypesRight, Identity \/ Fail \/ UNCHANGED vars
  PROVE  TypesRight'
<1>1. /\ pc \in Setup \cup Late \cup {"halted"} /\ layout \in Layouts
      /\ total \in Nat /\ used \in Nat /\ max \in Nat /\ TypeOK
      /\ \A f \in Frames : use[f] # "none" => f # 0 /\ Type(f) = "conv"
      /\ \A k \in DOMAIN tables : tables[k] \in Frames
      /\ queue \in Seq(Int \X Frames)
      /\ queue # <<>> => pc \in {"image", "stack", "exit", "halted"}
  BY Zenon DEF TypesRight
<1>2. UNCHANGED <<layout, use, total, used, max, busy, tables, map>>
  BY Zenon DEF Identity, Fail, vars
<1>3. Frames' = Frames /\ (\A g : Type(g)' = Type(g)) /\ Bits' = Bits
  BY <1>2, LayoutKept, BitsKept, Zenon
<1>4. TypeOK'
  BY <1>1, <1>2, <1>3, Zenon DEF TypeOK
<1>5. pc' \in Setup \cup Late \cup {"halted"}
  BY <1>1, Zenon DEF Identity, Fail, vars, Late
<1>6. queue' \in Seq(Int \X Frames) /\ (queue' # <<>> => pc' \in {"image", "stack", "exit", "halted"})
  <2>1. CASE Identity
    <3>1. GdtFrame \in Int /\ GdtFrame \in Frames
      BY <1>1, AddressAssumption, FrameSets DEF Frames
    <3> QED
      BY <2>1, <3>1 DEF Identity
  <2>2. CASE Fail \/ UNCHANGED vars
    BY <1>1, <2>2, Zenon DEF Fail, vars
  <2> QED
    BY <2>1, <2>2, Zenon
<1> QED
  BY <1>1, <1>2, <1>3, <1>4, <1>5, <1>6, Zenon DEF TypesRight

-----------------------------------------------------------------------------
(* Every step keeps the bitmap right.                                      *)

(* Once the bitmap is sized, every usable frame has a bit.                 *)
LEMMA LateBegun ==
  ASSUME BitmapBegun, pc \notin {"survey", "halted"}, pc' \in Late, layout' = layout, max' = max
  PROVE  BitmapBegun'
<1>1. Legal' = Legal /\ BitSet' = BitSet
  BY LayoutKept, BitsKept, Zenon
<1> QED
  BY <1>1, Zenon DEF BitmapBegun, Late, Setup, Early

(* The survey, the bitmap with all bits set, and the frames set free in it. *)
LEMMA SetupBegun ==
  ASSUME TypesRight, BitmapBegun, Survey \/ AllocBitmap \/ Build
  PROVE  BitmapBegun'
<1>1. CASE Survey
  <2>1. PICK f : Given(f, "buffer")
    BY <1>1, Zenon DEF Survey, Given
  <2>2. /\ pc = "survey" /\ pc' = "bitmap" /\ busy' = busy /\ layout' = layout
        /\ total' = Cardinality(Ram) /\ used' = Cardinality(Ram \ Legal)
    BY <1>1, Zenon DEF Survey
  <2>3. busy = {} /\ \A g \in Frames : use[g] = "none" \/ use[g] = "buffer"
    BY <2>2, Zenon DEF BitmapBegun, Setup, Early
  <2>4. f \in Frames /\ use'[f] = "buffer" /\ \A g \in Frames \ {f} : use'[g] = use[g]
    BY <2>1, PageGiven, Zenon DEF Uses
  <2>5. \A g \in Frames : use'[g] = "none" \/ use'[g] = "buffer"
    BY <2>3, <2>4, Zenon
  <2>6. Legal \subseteq BitSet'
    BY <1>1, Surveyed, Zenon
  <2>7. Frames' = Frames /\ Legal' = Legal /\ Ram' = Ram
    BY <2>2, LayoutKept, Zenon
  <2> QED
    BY <2>2, <2>3, <2>5, <2>6, <2>7, Zenon DEF BitmapBegun
<1>2. CASE AllocBitmap
  <2>1. PICK f : Given(f, "bitmap")
    BY <1>2, Zenon DEF AllocBitmap, Given
  <2>2. /\ pc = "bitmap" /\ pc' = "build" /\ busy' = BitSet /\ layout' = layout /\ max' = max
        /\ total' = total /\ used' = used
    BY <1>2, Zenon DEF AllocBitmap, AllBusy, BitSet
  <2>3. /\ \A g \in Frames : use[g] = "none" \/ use[g] = "buffer"
        /\ Legal \subseteq BitSet /\ used = Cardinality(Ram \ Legal) /\ total = Cardinality(Ram)
    BY <2>2, Zenon DEF BitmapBegun, Setup, Early
  <2>4. f \in Frames /\ use'[f] = "bitmap" /\ \A g \in Frames \ {f} : use'[g] = use[g]
    BY <2>1, PageGiven, Zenon DEF Uses
  <2>5. /\ \A g \in Frames : use'[g] \in {"none", "buffer", "bitmap"}
        /\ \A g \in Frames : use'[g] = "bitmap" <=> g = f
    BY <2>3, <2>4, Zenon
  <2>6. Frames' = Frames /\ Legal' = Legal /\ Ram' = Ram /\ BitSet' = BitSet
    BY <2>2, LayoutKept, BitsKept, Zenon
  <2> QED
    BY <2>2, <2>3, <2>4, <2>5, <2>6, Zenon DEF BitmapBegun
<1>3. CASE Build
  <2>1. PICK f : Given(f, "buffer")
    BY <1>3, Zenon DEF Build, Given
  <2>2. /\ pc = "build" /\ pc' = "info" /\ busy' = busy \ Legal /\ layout' = layout /\ max' = max
        /\ total' = total /\ used' = used
    BY <1>3, Zenon DEF Build, Freed
  <2>3. /\ \A g \in Frames : use[g] \in {"none", "buffer", "bitmap"}
        /\ Legal \subseteq BitSet /\ used = Cardinality(Ram \ Legal) /\ total = Cardinality(Ram)
        /\ busy = BitSet
    BY <2>2, Zenon DEF BitmapBegun, Setup, Early
  <2>4. PICK b \in Frames : \A g \in Frames : use[g] = "bitmap" <=> g = b
    BY <2>2, Zenon DEF BitmapBegun
  <2>5. /\ f \in Frames /\ use[f] = "none" /\ use'[f] = "buffer"
        /\ \A g \in Frames \ {f} : use'[g] = use[g]
    BY <2>1, PageGiven, Zenon DEF Uses
  <2>6. /\ \A g \in Frames : use'[g] \in {"none", "buffer", "bitmap"}
        /\ \A g \in Frames : use'[g] = "bitmap" <=> g = b
    BY <2>3, <2>4, <2>5, Zenon
  <2>7. Frames' = Frames /\ Legal' = Legal /\ Ram' = Ram /\ BitSet' = BitSet
    BY <2>2, LayoutKept, BitsKept, Zenon
  <2> QED
    BY <2>2, <2>3, <2>4, <2>6, <2>7, Zenon DEF BitmapBegun
<1> QED
  BY <1>1, <1>2, <1>3, Zenon

(* The boot information: the bitmap, frame 0 and the frame of the boot     *)
(* information become busy, and are counted once each.                     *)
LEMMA InfoDone ==
  ASSUME TypesRight, BitmapBegun, AllocInfo
  PROVE  BitmapDone'
<1>1. PICK f : Given(f, "info") /\ busy' = busy \cup {0, f} \cup {g \in Frames : use[g] = "bitmap"}
  BY Zenon DEF AllocInfo, Given
<1>2. /\ pc = "info" /\ pc' = "pml4" /\ layout' = layout /\ max' = max
      /\ total' = total /\ used' = used + 2 + Sentinel
  BY Zenon DEF AllocInfo
<1>3. /\ \A g \in Frames : use[g] \in {"none", "buffer", "bitmap"}
      /\ Legal \subseteq BitSet /\ used = Cardinality(Ram \ Legal) /\ total = Cardinality(Ram)
      /\ busy = BitSet \ Legal
  BY <1>2, Zenon DEF BitmapBegun, Setup, Early
<1>4. PICK b \in Frames : \A g \in Frames : use[g] = "bitmap" <=> g = b
  BY <1>2, Zenon DEF BitmapBegun
<1>5. /\ f \in Frames /\ f # 0 /\ f \in Legal /\ use[f] = "none" /\ use'[f] = "info"
      /\ \A g \in Frames \ {f} : use'[g] = use[g]
      /\ Available' = Available \ {f}
  BY <1>1, PageGiven, Zenon DEF Uses
<1>6. b # 0 /\ b # f /\ b \in Legal /\ b \notin Available /\ 0 \notin Available
  BY <1>4, <1>5, Zenon DEF TypesRight, Legal, Available
<1>7. busy' = busy \cup {0, f, b}
  BY <1>1, <1>4, Zenon
<1>8. Frames' = Frames /\ Legal' = Legal /\ BitSet' = BitSet /\ max \in Nat /\ layout \in Layouts
  BY <1>2, LayoutKept, BitsKept, Zenon DEF TypesRight
<1>9. 0 \in BitSet
  BY <1>3, <1>5, <1>8, BitsCover, BitsAre DEF BitSet
<1>10. BitSet \ busy' = ((Legal \ {f}) \ {b}) \ {0}
  BY <1>3, <1>7, Zenon
<1>11. KernelFrames' \subseteq busy'
  <2>1. \A g \in Frames : use'[g] \in {"bitmap", "info", "pml4", "table", "image"} => g \in {f, b}
    BY <1>3, <1>4, <1>5, Zenon
  <2> QED
    BY <1>7, <1>8, <2>1, Zenon DEF KernelFrames
<1>12. Available' \cap busy' = {}
  <2>1. Available \subseteq Legal
    BY Zenon DEF Available, Legal
  <2> QED
    BY <1>3, <1>5, <1>6, <1>7, <2>1, Zenon
<1>13. used' + Cardinality(BitSet \ busy') = total
  <2>1. IsFiniteSet(Legal) /\ IsFiniteSet(Ram) /\ Legal \subseteq Ram
    <3>1. Legal \in SUBSET Frames /\ Ram \in SUBSET Frames /\ Legal \subseteq Ram
      BY <1>8, FrameSets, Zenon
    <3> QED
      BY <1>8, <3>1, FrameSets, FS_Subset, Zenon
  <2>2. Cardinality(Ram \ Legal) = Cardinality(Ram) - Cardinality(Legal)
    <3>1. Ram \cap Legal = Legal
      BY <2>1, Zenon
    <3> QED
      BY <2>1, <3>1, FS_Difference, Zenon
  <2> DEFINE A == Legal \ {f}
             B == A \ {b}
             C == B \ {0}
  <2>3. IsFiniteSet(A) /\ Cardinality(A) = Cardinality(Legal) - 1
    BY <1>5, <2>1, FS_RemoveElement, Zenon
  <2>4. b \in A
    BY <1>6, Zenon
  <2>5. 0 \in B <=> 0 \in Legal
    BY <1>5, <1>6, Zenon
  <2> HIDE DEF A
  <2>6. IsFiniteSet(B) /\ Cardinality(B) = Cardinality(A) - 1
    BY <2>3, <2>4, FS_RemoveElement, Zenon
  <2> HIDE DEF B
  <2>7. Cardinality(C) = IF 0 \in Legal THEN Cardinality(B) - 1 ELSE Cardinality(B)
    BY <2>5, <2>6, FS_RemoveElement, Zenon
  <2>8. Sentinel = IF 0 \in Legal THEN 1 ELSE 0
    BY <1>3, <1>9, Zenon DEF Sentinel
  <2>9. BitSet \ busy' = C
    BY <1>10, Zenon DEF A, B
  <2>10. Cardinality(Legal) \in Nat /\ Cardinality(Ram) \in Nat
    BY <2>1, FS_CardinalityType, Zenon
  <2> HIDE DEF C
  <2>11. Cardinality(C) = Cardinality(Legal) - 2 - Sentinel /\ Sentinel \in Nat
    BY <2>3, <2>6, <2>7, <2>8, <2>10
  <2>12. used' = Cardinality(Ram) - Cardinality(Legal) + 2 + Sentinel
    BY <1>2, <1>3, <2>2, Zenon
  <2>13. used' + Cardinality(C) = Cardinality(Ram)
    BY <2>10, <2>11, <2>12
  <2> QED
    BY <1>3, <2>9, <2>13, Zenon
<1> QED
  BY <1>2, <1>8, <1>10, <1>11, <1>12, <1>13, Zenon DEF BitmapDone

(* A page the loader notes in the bitmap: one frame less is free.          *)
LEMMA NotedDone ==
  ASSUME TypesRight, BitmapBegun, BitmapDone, pc \in Late, NEW f, NEW what \in Uses \ {"none"},
         Given(f, what), busy' = busy \cup {f}, used' = used + 1, total' = total, max' = max
  PROVE  BitmapDone'
<1>1. /\ f \in Frames /\ f \in Legal /\ f \in Available /\ use'[f] = what
      /\ \A g \in Frames \ {f} : use'[g] = use[g]
  BY PageGiven, Zenon
<1>2. Available' = Available \ {f}
  BY PageGiven, Zenon
<1>3. /\ BitSet \ busy \subseteq Legal /\ KernelFrames \subseteq busy /\ Available \cap busy = {}
      /\ used + Cardinality(BitSet \ busy) = total
  BY Zenon DEF BitmapDone
<1>4. f \in BitSet
  BY GivenHasBit, Zenon DEF Given, Late
<1>5. Frames' = Frames /\ Legal' = Legal /\ BitSet' = BitSet
  BY LayoutKept, BitsKept, Zenon DEF Given
<1>6. KernelFrames' \subseteq busy'
  BY <1>1, <1>3, <1>5, Zenon DEF KernelFrames
<1>7. Available' \cap busy' = {} /\ BitSet \ busy' \subseteq Legal
  BY <1>2, <1>3, Zenon
<1>8. used' + Cardinality(BitSet \ busy') = total
  <2> DEFINE A == BitSet \ busy
  <2>1. IsFiniteSet(A)
    <3>1. max \in Nat /\ Bits \in Nat
      BY BitsCover, BitsAre, Zenon DEF TypesRight
    <3>2. IsFiniteSet(BitSet) /\ A \in SUBSET BitSet
      BY <3>1, FS_Interval DEF BitSet
    <3> QED
      BY <3>2, FS_Subset, Zenon
  <2>2. f \in A /\ BitSet \ busy' = A \ {f}
    BY <1>1, <1>3, <1>4, Zenon
  <2>3. used + Cardinality(A) = total /\ used \in Nat
    BY <1>3, Zenon DEF TypesRight
  <2> HIDE DEF A
  <2>4. Cardinality(A \ {f}) = Cardinality(A) - 1 /\ Cardinality(A) \in Nat
    BY <2>1, <2>2, FS_RemoveElement, FS_CardinalityType, Zenon
  <2> QED
    BY <2>2, <2>3, <2>4
<1> QED
  BY <1>5, <1>6, <1>7, <1>8, Zenon DEF BitmapDone

(* A page that it does not note, for a buffer or for the stack.            *)
LEMMA UnnotedDone ==
  ASSUME TypesRight, BitmapDone, pc \in Late, NEW f, NEW what \in {"buffer", "stack"},
         Given(f, what), busy' = busy, used' = used, total' = total, max' = max
  PROVE  BitmapDone'
<1>1. /\ f \in Frames /\ use'[f] = what /\ \A g \in Frames \ {f} : use'[g] = use[g]
      /\ Available' = Available \ {f}
  BY PageGiven, Zenon DEF Uses
<1>2. /\ BitSet \ busy \subseteq Legal /\ KernelFrames \subseteq busy /\ Available \cap busy = {}
      /\ used + Cardinality(BitSet \ busy) = total
  BY Zenon DEF BitmapDone
<1>3. Frames' = Frames /\ Legal' = Legal /\ BitSet' = BitSet
  BY LayoutKept, BitsKept, Zenon DEF Given
<1>4. KernelFrames' \subseteq busy' /\ Available' \cap busy' = {}
  BY <1>1, <1>2, <1>3, Zenon DEF KernelFrames
<1> QED
  BY <1>2, <1>3, <1>4, Zenon DEF BitmapDone

(* Mapping pages takes no frame.                                           *)
LEMMA QuietDone ==
  ASSUME BitmapDone, pc \in Late, UNCHANGED <<layout, use, total, used, max, busy>>
  PROVE  BitmapDone'
<1>1. Frames' = Frames /\ Legal' = Legal /\ BitSet' = BitSet /\ \A g : Type(g)' = Type(g)
  BY LayoutKept, BitsKept, Zenon
<1>2. KernelFrames' = KernelFrames /\ Available' = Available
  BY <1>1, Zenon DEF KernelFrames, Available
<1> QED
  BY <1>1, <1>2, Zenon DEF BitmapDone

(* Every step preserves both parts.                                        *)
LEMMA StepBitmap ==
  ASSUME TypesRight, BitmapBegun, BitmapDone, [Next]_vars
  PROVE  BitmapBegun' /\ BitmapDone'
<1>1. CASE Survey \/ AllocBitmap \/ Build
  <2>1. pc' \in Setup
    BY <1>1, Zenon DEF Survey, AllocBitmap, Build, Setup, Early
  <2>2. pc' \notin Late
    BY <2>1, Zenon DEF Setup, Early, Late
  <2> QED
    BY <1>1, <2>2, SetupBegun, Zenon DEF BitmapDone
<1>2. CASE AllocInfo
  <2>1. pc = "info" /\ pc' \in Late /\ layout' = layout /\ max' = max
    BY <1>2, Zenon DEF AllocInfo, Late
  <2> QED
    BY <1>2, <2>1, LateBegun, InfoDone, Zenon
<1>3. CASE AllocPml4 \/ Walk \/ LoadPage
  <2>1. /\ pc \in Late /\ pc' \in Late /\ layout' = layout /\ max' = max /\ total' = total
    BY <1>3, Zenon DEF AllocPml4, Walk, LoadPage, Late, TypesRight
  <2>2. \E f \in Frames, what \in Uses \ {"none"} :
           Given(f, what) /\ busy' = busy \cup {f} /\ used' = used + 1
    <3>1. CASE AllocPml4
      <4>1. \E f \in Frames : Given(f, "pml4") /\ busy' = busy \cup {f} /\ used' = used + 1
        BY <3>1, Zenon DEF AllocPml4, Given
      <4> QED
        BY <4>1, Zenon DEF Uses
    <3>2. CASE Walk
      <4>1. \E f \in Frames : Given(f, "table") /\ busy' = busy \cup {f} /\ used' = used + 1
        BY <3>2, Zenon DEF Walk, NewTable, Given
      <4> QED
        BY <4>1, Zenon DEF Uses
    <3>3. CASE LoadPage
      <4>1. \E f \in Frames : Given(f, "image") /\ busy' = busy \cup {f} /\ used' = used + 1
        BY <3>3, Zenon DEF LoadPage, Given
      <4> QED
        BY <4>1, Zenon DEF Uses
    <3> QED
      BY <1>3, <3>1, <3>2, <3>3, Zenon
  <2>3. pc \notin {"survey", "halted"}
    BY <2>1, Zenon DEF Late
  <2> QED
    BY <2>1, <2>2, <2>3, LateBegun, NotedDone, Zenon
<1>4. CASE ReadFile \/ Direct \/ StackPage \/ ExitBootServices
  <2>1. /\ pc \in Late /\ pc' \in Late /\ layout' = layout
        /\ max' = max /\ total' = total /\ busy' = busy /\ used' = used
    BY <1>4, Zenon DEF ReadFile, Direct, StackPage, ExitBootServices, Late
  <2>2. \E f \in Frames, what \in {"buffer", "stack"} : Given(f, what)
    BY <1>4, Zenon DEF ReadFile, Direct, StackPage, ExitBootServices, Given
  <2>3. pc \notin {"survey", "halted"}
    BY <2>1, Zenon DEF Late
  <2> QED
    BY <2>1, <2>2, <2>3, LateBegun, UnnotedDone, Zenon
<1>5. CASE MapPage \/ Identity
  <2>1. /\ pc \in Late /\ pc' \in Late /\ UNCHANGED <<layout, use, total, used, max, busy>>
    BY <1>5, Zenon DEF MapPage, Identity, Late, TypesRight
  <2>2. pc \notin {"survey", "halted"}
    BY <2>1, Zenon DEF Late
  <2> QED
    BY <2>1, <2>2, LateBegun, QuietDone, Zenon
<1>6. CASE Fail
  <2>1. pc' = "halted"
    BY <1>6, Zenon DEF Fail
  <2> QED
    BY <2>1, Zenon DEF BitmapBegun, BitmapDone, Setup, Early, Late
<1>7. CASE UNCHANGED vars
  <2>1. /\ UNCHANGED <<pc, layout, use, total, used, max, busy>>
    BY <1>7, Zenon DEF vars
  <2>2. /\ Frames' = Frames /\ Legal' = Legal /\ Ram' = Ram /\ BitSet' = BitSet
        /\ \A g : Type(g)' = Type(g)
    BY <2>1, LayoutKept, BitsKept, Zenon
  <2>3. BitmapBegun'
    BY <2>1, <2>2, Zenon DEF BitmapBegun
  <2>4. BitmapDone'
    BY <2>1, <2>2, QuietDone, Zenon DEF BitmapDone
  <2> QED
    BY <2>3, <2>4, Zenon
<1> QED
  BY <1>1, <1>2, <1>3, <1>4, <1>5, <1>6, <1>7, Zenon DEF Next

-----------------------------------------------------------------------------
(* Every step keeps the mappings right.                                    *)

(* What a page leads to is left alone with the map and the queue.          *)
LEMMA LeadsKept ==
  ASSUME map' = map, queue' = queue, NEW v, NEW f
  PROVE  Leads(v, f)' <=> Leads(v, f)
  BY Zenon DEF Leads

(* A pair is added when it is put in the empty queue.                      *)
LEMMA LeadsAdded ==
  ASSUME map' = map, queue = <<>>, NEW w, NEW h, queue' = <<<<w, h>>>>, NEW v, NEW f
  PROVE  Leads(v, f)' <=> Leads(v, f) \/ (v = w /\ f = h)
<1>1. Len(queue) = 0 /\ Len(queue') = 1 /\ queue'[1] = <<w, h>>
  BY Zenon
<1>2. Leads(v, f) <=> v \in DOMAIN map /\ map[v] = f
  BY <1>1 DEF Leads
<1>3. Leads(v, f)' <=> (v \in DOMAIN map /\ map[v] = f) \/ (v = w /\ f = h)
  BY <1>1 DEF Leads
<1> QED
  BY <1>2, <1>3, Zenon

(* The map has pages for its arguments.                                    *)
LEMMA LeadsInt ==
  ASSUME TypesRight, MapsRight, NEW v, NEW f, Leads(v, f)
  PROVE  v \in Int /\ f \in Frames
<1>1. CASE v \in DOMAIN map /\ map[v] = f
  BY <1>1, Zenon DEF MapsRight, TypesRight, TypeOK
<1>2. CASE \E i \in 1 .. Len(queue) : queue[i] = <<v, f>>
  <2>1. PICK i \in 1 .. Len(queue) : queue[i] = <<v, f>>
    BY <1>2, Zenon
  <2>2. queue[i] \in Int \X Frames
    BY <2>1 DEF TypesRight
  <2> QED
    BY <2>1, <2>2
<1> QED
  BY <1>1, <1>2, Zenon DEF Leads

(* map_vaddr_to_paddr for the first pair of the queue leads to no new      *)
(* frame, and loses no page.                                               *)
LEMMA LeadsMapped ==
  ASSUME TypesRight, MapPage
  PROVE  /\ \A v, f : Leads(v, f)' => Leads(v, f)
         /\ \A v : Covered(v) => Covered(v)'
<1>1. /\ queue \in Seq(Int \X Frames) /\ queue # <<>> /\ queue' = Tail(queue) /\ layout' = layout
      /\ \A x \in DOMAIN map : map[x] \in Frames
  BY Zenon DEF MapPage, TypesRight, TypeOK
<1>2. PICK w, h : queue[1] = <<w, h>> /\ h \in Frames
  BY <1>1
<1>3. map' = [x \in DOMAIN map \cup {w} |-> IF x = w THEN h ELSE map[x]]
  BY <1>1, <1>2 DEF MapPage
<1>4. DOMAIN map' = DOMAIN map \cup {w} /\ map'[w] = h /\ \A x \in DOMAIN map \ {w} : map'[x] = map[x]
  BY <1>3, Zenon
<1>5. Len(queue) \in Nat /\ Len(queue) >= 1 /\ Len(queue') = Len(queue) - 1
  BY <1>1
<1>6. ASSUME NEW i \in 1 .. Len(queue') PROVE i + 1 \in 1 .. Len(queue) /\ queue'[i] = queue[i + 1]
  BY <1>1, <1>5
<1>7. ASSUME NEW v, NEW f, Leads(v, f)' PROVE Leads(v, f)
  <2>1. CASE v \in DOMAIN map' /\ map'[v] = f
    <3>1. CASE v = w
      BY <1>2, <1>4, <1>5, <2>1, <3>1 DEF Leads
    <3>2. CASE v # w
      BY <1>4, <2>1, <3>2, Zenon DEF Leads
    <3> QED
      BY <3>1, <3>2, Zenon
  <2>2. CASE \E i \in 1 .. Len(queue') : queue'[i] = <<v, f>>
    BY <1>6, <2>2, Zenon DEF Leads
  <2> QED
    BY <1>7, <2>1, <2>2, Zenon DEF Leads
<1>8. ASSUME NEW v, Covered(v) PROVE Covered(v)'
  <2>1. Frames' = Frames
    BY <1>1, LayoutKept, Zenon
  <2>2. PICK f \in Frames : Leads(v, f)
    BY <1>8, Zenon DEF Covered
  <2>3. CASE v = w
    <3>1. Leads(v, h)'
      BY <1>4, <2>3, Zenon DEF Leads
    <3> QED
      BY <1>2, <2>1, <3>1, Zenon DEF Covered
  <2>4. CASE v # w
    <3>1. Leads(v, f)'
      <4>1. CASE v \in DOMAIN map /\ map[v] = f
        BY <1>4, <2>4, <4>1, Zenon DEF Leads
      <4>2. CASE \E i \in 1 .. Len(queue) : queue[i] = <<v, f>>
        <5>1. PICK i \in 1 .. Len(queue) : queue[i] = <<v, f>>
          BY <4>2, Zenon
        <5>2. i # 1
          BY <1>2, <2>4, <5>1
        <5>3. i - 1 \in 1 .. Len(queue') /\ queue'[i - 1] = queue[i]
          BY <1>5, <1>6, <5>1, <5>2
        <5> QED
          BY <5>1, <5>3, Zenon DEF Leads
      <4> QED
        BY <2>2, <4>1, <4>2, Zenon DEF Leads
    <3> QED
      BY <2>1, <3>1, Zenon DEF Covered
  <2> QED
    BY <2>3, <2>4, Zenon
<1> QED
  BY <1>7, <1>8, Zenon

(* What a page leads to stays right when a frame in no use is given one.   *)
LEMMA PairsGiven ==
  ASSUME TypesRight, NEW f, NEW what \in Uses \ {"none"}, Given(f, what),
         NEW v, NEW g \in Frames, PairRight(v, g)
  PROVE  PairRight(v, g)'
<1>1. use[f] = "none" /\ \A x \in Frames \ {f} : use'[x] = use[x]
  BY PageGiven, Zenon
<1>2. use[g] # "none" => use'[g] = use[g]
  BY <1>1, Zenon
<1> QED
  BY <1>2, Zenon DEF PairRight

(* Coverage when no pair is lost.                                          *)
LEMMA CoveredKept ==
  ASSUME layout' = layout, NEW v, \A f \in Frames : Leads(v, f) => Leads(v, f)', Covered(v)
  PROVE  Covered(v)'
  BY LayoutKept, Zenon DEF Covered

(* A page for another use than the image or the stack.                     *)
LEMMA GivenMaps ==
  ASSUME TypesRight, MapsRight, NEW f, NEW what \in Uses \ {"none", "image", "stack"}, Given(f, what),
         map' = map, queue' = queue,
         pc' \in {"stack", "exit", "kernel"} => pc \in {"stack", "exit", "kernel"},
         pc' \in {"exit", "kernel"} => pc \in {"exit", "kernel"}
  PROVE  MapsRight'
<1>1. layout' = layout /\ Frames' = Frames /\ DirectFrames' = DirectFrames
  BY LayoutKept, Zenon DEF Given
<1>2. Count("image")' = Count("image") /\ Count("stack")' = Count("stack")
  BY CountGiven, Zenon DEF Uses
<1>3. \A v, g : Leads(v, g)' <=> Leads(v, g)
  BY LeadsKept, Zenon
<1>4. \A v : Covered(v) => Covered(v)'
  BY <1>1, <1>3, CoveredKept, Zenon
<1>5. ASSUME NEW v \in Int, NEW g \in Frames, Leads(v, g)' PROVE PairRight(v, g)'
  <2>1. PairRight(v, g)
    BY <1>3, <1>5, Zenon DEF MapsRight
  <2> QED
    BY <2>1, PairsGiven, Zenon
<1>6. ASSUME NEW v \in ImageRange, NEW x \in ImageRange, NEW g \in Frames, Leads(v, g)', Leads(x, g)'
      PROVE  v = x
  BY <1>3, <1>6, Zenon DEF MapsRight
<1> QED
  BY <1>1, <1>2, <1>4, <1>5, <1>6, Zenon DEF MapsRight

(* Nothing changes but the point the loader is at.                         *)
LEMMA QuietMaps ==
  ASSUME MapsRight, UNCHANGED <<layout, use, map, queue>>,
         pc' \in {"stack", "exit", "kernel"} => pc' = pc
  PROVE  MapsRight'
<1>1. Frames' = Frames /\ DirectFrames' = DirectFrames
  BY LayoutKept, Zenon
<1>2. \A x : Count(x)' = Count(x)
  BY CountKept, Zenon
<1>3. \A v, g : Leads(v, g)' <=> Leads(v, g)
  BY LeadsKept, Zenon
<1>4. \A v : Covered(v) => Covered(v)'
  BY <1>3, CoveredKept, Zenon
<1>5. \A v, g : PairRight(v, g)' <=> PairRight(v, g)
  BY Zenon DEF PairRight
<1> QED
  BY <1>1, <1>2, <1>3, <1>4, <1>5, Zenon DEF MapsRight

(* A mapping is made.                                                      *)
LEMMA MapPageMaps ==
  ASSUME TypesRight, MapsRight, MapPage
  PROVE  MapsRight'
<1>1. UNCHANGED <<pc, layout, use>>
  BY Zenon DEF MapPage
<1>2. Frames' = Frames /\ DirectFrames' = DirectFrames
  BY <1>1, LayoutKept, Zenon
<1>3. \A x : Count(x)' = Count(x)
  BY <1>1, CountKept, Zenon
<1>4. (\A v, g : Leads(v, g)' => Leads(v, g)) /\ \A v : Covered(v) => Covered(v)'
  BY LeadsMapped, Zenon
<1>5. \A v, g : PairRight(v, g)' <=> PairRight(v, g)
  BY <1>1, Zenon DEF PairRight
<1>6. DOMAIN map' \subseteq Int
  <2>1. queue \in Seq(Int \X Frames) /\ queue # <<>>
    BY Zenon DEF MapPage, TypesRight
  <2>2. Head(queue)[1] \in Int
    BY <2>1
  <2>3. DOMAIN map \subseteq Int
    BY Zenon DEF MapsRight
  <2> QED
    BY <2>2, <2>3, Zenon DEF MapPage
<1> QED
  BY <1>1, <1>2, <1>3, <1>4, <1>5, <1>6, Zenon DEF MapsRight

(* One pair (w, h) is queued: what it has to satisfy.                      *)
LEMMA QueuedMaps ==
  ASSUME TypesRight, MapsRight, layout' = layout, map' = map, queue = <<>>,
         NEW w \in Int, NEW h \in Frames, queue' = <<<<w, h>>>>,
         \A v \in Int, g \in Frames : PairRight(v, g) => PairRight(v, g)',
         PairRight(w, h)', w \in ImageRange => \A v \in ImageRange : ~Leads(v, h)
  PROVE  /\ DOMAIN map' \subseteq Int
         /\ \A v \in Int, g \in Frames' : Leads(v, g)' => PairRight(v, g)'
         /\ \A v, x \in ImageRange, g \in Frames' : Leads(v, g)' /\ Leads(x, g)' => v = x
         /\ \A v : Covered(v) => Covered(v)'
         /\ Covered(w)'
<1>1. Frames' = Frames
  BY LayoutKept, Zenon
<1>2. \A v, g : Leads(v, g)' <=> Leads(v, g) \/ (v = w /\ g = h)
  BY LeadsAdded, Zenon
<1>3. DOMAIN map' \subseteq Int
  BY Zenon DEF MapsRight
<1>4. ASSUME NEW v \in Int, NEW g \in Frames, Leads(v, g)' PROVE PairRight(v, g)'
  BY <1>2, <1>4, Zenon DEF MapsRight
<1>5. ASSUME NEW v \in ImageRange, NEW x \in ImageRange, NEW g \in Frames, Leads(v, g)', Leads(x, g)'
      PROVE  v = x
  BY <1>2, <1>5, Zenon DEF MapsRight
<1>6. \A v : Covered(v) => Covered(v)'
  BY <1>2, CoveredKept, Zenon
<1>7. Covered(w)'
  BY <1>1, <1>2, Zenon DEF Covered
<1> QED
  BY <1>1, <1>3, <1>4, <1>5, <1>6, <1>7, Zenon

(* The ranges of virtual pages are apart.                                  *)
LEMMA RangesApart ==
  ASSUME layout \in Layouts
  PROVE  /\ \A f \in Frames : DirectBase + f \notin ImageRange \cup {StackBase - 1, GdtFrame}
         /\ StackBase - 1 \notin ImageRange \cup {GdtFrame} /\ GdtFrame \notin ImageRange
         /\ GdtFrame \in Frames
<1>1. Len(layout) \in Nat /\ Frames \subseteq Nat
  BY FrameSets, Zenon
<1>2. GdtFrame < Len(layout) /\ GdtFrame \in Nat
  BY AddressAssumption, Zenon
<1>3. \A f \in Frames : DirectBase + f \in DirectRange(Len(layout))
  BY <1>1, Bases DEF DirectRange, Frames
<1>4. DirectRange(Len(layout)) \cap (ImageRange \cup {StackBase - 1, GdtFrame}) = {}
  BY AddressAssumption, Zenon
<1>5. StackBase - 1 \notin ImageRange \cup {GdtFrame} /\ GdtFrame \notin ImageRange
  BY AddressAssumption, Zenon
<1>6. GdtFrame \in Frames
  BY <1>1, <1>2 DEF Frames
<1> QED
  BY <1>3, <1>4, <1>5, <1>6, Zenon

(* So a page of one of them leads where it should.                         *)
LEMMA PairKinds ==
  ASSUME layout \in Layouts, NEW v, NEW g \in Frames, PairRight(v, g)
  PROVE  /\ v \in ImageRange => use[g] = "image"
         /\ v = StackBase - 1 => use[g] = "stack"
         /\ \A f \in Frames : v = DirectBase + f => g = f
<1>1. v \in ImageRange => use[g] = "image"
  BY RangesApart, Zenon DEF PairRight
<1>2. v = StackBase - 1 => use[g] = "stack"
  BY RangesApart, Zenon DEF PairRight
<1>3. ASSUME NEW f \in Frames, v = DirectBase + f PROVE g = f
  <2>1. v = DirectBase + g
    BY <1>3, RangesApart, Zenon DEF PairRight
  <2>2. f \in Nat /\ g \in Nat /\ DirectBase \in Nat
    BY FrameSets, Bases, Zenon
  <2> QED
    BY <1>3, <2>1, <2>2
<1> QED
  BY <1>1, <1>2, <1>3, Zenon

(* A page of the image is loaded and queued.                               *)
LEMMA LoadMaps ==
  ASSUME TypesRight, MapsRight, LoadPage
  PROVE  MapsRight'
<1>1. PICK f : Given(f, "image") /\ queue' = <<<<ImageBase + Count("image"), f>>>>
  BY Zenon DEF LoadPage, Given
<1>2. /\ pc = "image" /\ pc' = "image" /\ queue = <<>> /\ map' = map /\ layout' = layout
      /\ Count("image") < ImagePages
  BY Zenon DEF LoadPage
<1>3. Count("image") \in Nat /\ Count("image")' = Count("image") + 1 /\ Count("stack")' = Count("stack")
  BY <1>1, CountGiven, Zenon DEF Uses
<1>4. PICK n \in Nat : n = Count("image")
  BY <1>3, Zenon
<1>5. n \in Nat /\ Count("image")' = n + 1 /\ Count("stack")' = Count("stack")
  BY <1>3, <1>4, Zenon
<1>6. PICK w : w = ImageBase + n
  BY Zenon
<1>7. layout \in Layouts /\ f \in Frames /\ use[f] = "none" /\ use'[f] = "image"
  BY <1>1, PageGiven, Zenon DEF Uses, TypesRight
<1>8. w \in Int /\ w \in ImageRange /\ w = ImageBase + n
  BY <1>2, <1>4, <1>6, Bases, SizeAssumption DEF ImageRange
<1>9. PairRight(w, f)'
  BY <1>7, <1>8, Zenon DEF PairRight
<1>10. ASSUME NEW v \in Int, NEW g \in Frames, PairRight(v, g) PROVE PairRight(v, g)'
  BY <1>1, <1>10, PairsGiven, Zenon DEF Uses
<1>11. ASSUME NEW v \in ImageRange, Leads(v, f) PROVE FALSE
  <2>1. v \in Int /\ PairRight(v, f)
    BY <1>7, <1>11, LeadsInt, Zenon DEF MapsRight
  <2> QED
    BY <1>7, <2>1, PairKinds, Zenon
<1>12. queue' = <<<<w, f>>>>
  BY <1>1, <1>4, <1>6, Zenon
<1>13. /\ DOMAIN map' \subseteq Int
       /\ \A v \in Int, g \in Frames' : Leads(v, g)' => PairRight(v, g)'
       /\ \A v, x \in ImageRange, g \in Frames' : Leads(v, g)' /\ Leads(x, g)' => v = x
       /\ \A v : Covered(v) => Covered(v)'
       /\ Covered(w)'
  BY <1>2, <1>7, <1>8, <1>9, <1>10, <1>11, <1>12, QueuedMaps, Zenon
<1>14. ASSUME NEW i \in Nat, i < n + 1 PROVE Covered(ImageBase + i)'
  <2>1. CASE i < n
    BY <1>4, <1>13, <2>1, Zenon DEF MapsRight
  <2>2. CASE i = n
    BY <1>8, <1>13, <2>2, Zenon
  <2> QED
    BY <1>5, <1>14, <2>1, <2>2
<1>15. Count("stack")' > 0 => Covered(StackBase - 1)'
  BY <1>5, <1>13, Zenon DEF MapsRight
<1> QED
  BY <1>2, <1>5, <1>13, <1>14, <1>15, Zenon DEF MapsRight

(* A page of the stack is queued.                                          *)
LEMMA StackMaps ==
  ASSUME TypesRight, MapsRight, StackPage
  PROVE  MapsRight'
<1>1. PICK f : Given(f, "stack") /\ queue' = <<<<StackBase - 1, f>>>>
  BY Zenon DEF StackPage, Given
<1>2. pc = "stack" /\ pc' = "stack" /\ queue = <<>> /\ map' = map /\ layout' = layout
  BY Zenon DEF StackPage
<1> DEFINE w == StackBase - 1
<1>3. Count("image")' = Count("image")
  BY <1>1, CountGiven, Zenon DEF Uses
<1>4. layout \in Layouts /\ f \in Frames /\ use'[f] = "stack"
  BY <1>1, PageGiven, Zenon DEF Uses, TypesRight
<1>5. w \in Int /\ w \notin ImageRange
  BY <1>4, RangesApart, Bases
<1>6. PairRight(w, f)'
  BY <1>4, Zenon DEF PairRight
<1>7. ASSUME NEW v \in Int, NEW g \in Frames, PairRight(v, g) PROVE PairRight(v, g)'
  BY <1>1, <1>7, PairsGiven, Zenon DEF Uses
<1>8. queue' = <<<<w, f>>>>
  BY <1>1, Zenon
<1>9. DirectFrames' = DirectFrames
  BY <1>2, LayoutKept, Zenon
<1>10. Covered(w)' = Covered(StackBase - 1)'
  BY Zenon
<1> HIDE DEF w
<1>11. /\ DOMAIN map' \subseteq Int
       /\ \A v \in Int, g \in Frames' : Leads(v, g)' => PairRight(v, g)'
       /\ \A v, x \in ImageRange, g \in Frames' : Leads(v, g)' /\ Leads(x, g)' => v = x
       /\ \A v : Covered(v) => Covered(v)'
       /\ Covered(w)'
  BY <1>2, <1>4, <1>5, <1>6, <1>7, <1>8, QueuedMaps, Zenon
<1> QED
  BY <1>2, <1>3, <1>9, <1>10, <1>11, Zenon DEF MapsRight

(* The frame of the GDT is queued.                                         *)
LEMMA IdentityMaps ==
  ASSUME TypesRight, MapsRight, Identity
  PROVE  MapsRight'
<1>1. /\ pc = "stack" /\ pc' = "exit" /\ queue = <<>> /\ map' = map /\ layout' = layout /\ use' = use
      /\ queue' = <<<<GdtFrame, GdtFrame>>>> /\ Count("stack") = StackPages
  BY Zenon DEF Identity
<1>2. GdtFrame \in Int /\ GdtFrame \in Frames /\ GdtFrame \notin ImageRange
  BY RangesApart, Bases DEF TypesRight
<1>3. PairRight(GdtFrame, GdtFrame)'
  BY Zenon DEF PairRight
<1>4. ASSUME NEW v \in Int, NEW g \in Frames, PairRight(v, g) PROVE PairRight(v, g)'
  BY <1>1, <1>4, Zenon DEF PairRight
<1>5. /\ DOMAIN map' \subseteq Int
      /\ \A v \in Int, g \in Frames' : Leads(v, g)' => PairRight(v, g)'
      /\ \A v, x \in ImageRange, g \in Frames' : Leads(v, g)' /\ Leads(x, g)' => v = x
      /\ \A v : Covered(v) => Covered(v)'
  BY <1>1, <1>2, <1>3, <1>4, QueuedMaps, Zenon
<1>6. DirectFrames' = DirectFrames /\ \A x : Count(x)' = Count(x)
  BY <1>1, LayoutKept, CountKept, Zenon
<1> QED
  BY <1>1, <1>5, <1>6, Zenon DEF MapsRight

(* The frames of the direct map are queued.                                *)
LEMMA DirectMaps ==
  ASSUME TypesRight, MapsRight, Direct
  PROVE  MapsRight'
<1>1. PICK f : Given(f, "buffer")
  BY Zenon DEF Direct, Given
<1>2. /\ pc' = "stack" /\ queue = <<>> /\ map' = map /\ layout' = layout
      /\ Count("image") = ImagePages /\ queue' = QueueFor(DirectFrames)
  BY Zenon DEF Direct, QueueFor
<1>3. /\ layout \in Layouts /\ DirectFrames \subseteq Frames /\ IsFiniteSet(DirectFrames)
      /\ DirectFrames \subseteq Int
  BY FrameSets, FS_Subset DEF TypesRight
<1>4. /\ \A i \in 1 .. Len(queue') : \E g \in DirectFrames : queue'[i] = <<DirectBase + g, g>>
      /\ \A g \in DirectFrames : \E i \in 1 .. Len(queue') : queue'[i] = <<DirectBase + g, g>>
  <2>1. PICK D : D = DirectFrames
    BY Zenon
  <2>2. PICK q : q = queue'
    BY Zenon
  <2>3. IsFiniteSet(D) /\ D \subseteq Int /\ q = QueueFor(D)
    BY <1>2, <1>3, <2>1, <2>2, Zenon
  <2>4. PairsOf(q, D)
    BY <2>3, DirectQueue, Zenon
  <2> QED
    BY <2>1, <2>2, <2>4, Zenon DEF PairsOf
<1>5. Frames' = Frames /\ DirectFrames' = DirectFrames
  BY <1>2, LayoutKept, Zenon
<1>6. Count("image")' = Count("image") /\ Count("stack")' = Count("stack")
  BY <1>1, CountGiven, Zenon DEF Uses
<1>7. ASSUME NEW v, NEW g, Leads(v, g)' PROVE Leads(v, g) \/ (g \in DirectFrames /\ v = DirectBase + g)
  BY <1>2, <1>4, <1>7 DEF Leads
<1>8. ASSUME NEW v, NEW g, Leads(v, g) PROVE Leads(v, g)'
  BY <1>2, <1>8 DEF Leads
<1>9. ASSUME NEW g \in DirectFrames PROVE Leads(DirectBase + g, g)'
  BY <1>4, Zenon DEF Leads
<1>10. ASSUME NEW v \in Int, NEW g \in Frames, Leads(v, g)' PROVE PairRight(v, g)'
  <2>1. CASE Leads(v, g)
    <3>1. PairRight(v, g)
      BY <2>1, Zenon DEF MapsRight
    <3> QED
      BY <1>1, <3>1, PairsGiven, Zenon DEF Uses
  <2>2. CASE v = DirectBase + g
    BY <2>2, Zenon DEF PairRight
  <2> QED
    BY <1>7, <1>10, <2>1, <2>2, Zenon
<1>11. ASSUME NEW v \in ImageRange, NEW g \in Frames, Leads(v, g)' PROVE Leads(v, g)
  BY <1>3, <1>7, <1>11, RangesApart, Zenon
<1>12. ASSUME NEW v, Covered(v) PROVE Covered(v)'
  BY <1>2, <1>8, <1>12, CoveredKept, Zenon
<1>13. ASSUME NEW g \in DirectFrames PROVE Covered(DirectBase + g)'
  BY <1>3, <1>5, <1>9, Zenon DEF Covered
<1>14. \A v, x \in ImageRange, g \in Frames' : Leads(v, g)' /\ Leads(x, g)' => v = x
  BY <1>5, <1>11, Zenon DEF MapsRight
<1>15. \A v \in Int, g \in Frames' : Leads(v, g)' => PairRight(v, g)'
  BY <1>5, <1>10, Zenon
<1>16. /\ DOMAIN map' \subseteq Int
       /\ \A i \in Nat : i < Count("image")' => Covered(ImageBase + i)'
       /\ Count("stack")' > 0 => Covered(StackBase - 1)'
  BY <1>2, <1>6, <1>12, Zenon DEF MapsRight
<1> QED
  BY <1>2, <1>5, <1>6, <1>13, <1>14, <1>15, <1>16, Zenon DEF MapsRight

(* The last map of the memory is fetched, and the kernel starts.           *)
LEMMA ExitMaps ==
  ASSUME TypesRight, MapsRight, ExitBootServices
  PROVE  MapsRight'
<1>1. PICK f : Given(f, "buffer")
  BY Zenon DEF ExitBootServices, Given
<1>2. pc = "exit" /\ map' = map /\ queue' = queue
  BY Zenon DEF ExitBootServices
<1> QED
  BY <1>1, <1>2, GivenMaps, Zenon DEF Uses

(* A table is allocated.                                                   *)
LEMMA WalkMaps ==
  ASSUME TypesRight, MapsRight, Walk
  PROVE  MapsRight'
<1>1. PICK f : Given(f, "table")
  BY Zenon DEF Walk, NewTable, Given
<1>2. pc' = pc /\ map' = map /\ queue' = queue
  BY Zenon DEF Walk
<1> QED
  BY <1>1, <1>2, GivenMaps, Zenon DEF Uses

(* Nothing is mapped before the kernel is in memory.                       *)
LEMMA SetupMaps ==
  ASSUME TypesRight, MapsRight, Survey \/ AllocBitmap \/ Build \/ AllocInfo \/ AllocPml4 \/ ReadFile
  PROVE  MapsRight'
<1>1. /\ map' = map /\ queue' = queue /\ pc' \in {"bitmap", "build", "info", "pml4", "file", "image"}
  BY Zenon DEF Survey, AllocBitmap, Build, AllocInfo, AllocPml4, ReadFile
<1>2. \E f \in Frames, what \in {"buffer", "bitmap", "info", "pml4"} : Given(f, what)
  BY Zenon DEF Survey, AllocBitmap, Build, AllocInfo, AllocPml4, ReadFile, Given
<1> QED
  BY <1>1, <1>2, GivenMaps, Zenon DEF Uses

(* The types, the bitmap and the mappings together.                        *)
LEMMA StepInv ==
  ASSUME BootInv, [Next]_vars
  PROVE  BootInv'
<1>1. TypesRight /\ BitmapBegun /\ BitmapDone /\ MapsRight
  BY Zenon DEF BootInv
<1>2. BitmapBegun' /\ BitmapDone'
  BY <1>1, StepBitmap, Zenon
<1>3. CASE Survey \/ AllocBitmap \/ Build \/ AllocInfo \/ AllocPml4 \/ ReadFile
  BY <1>1, <1>2, <1>3, SetupTypes, SetupMaps, Zenon DEF BootInv
<1>4. CASE Walk
  BY <1>1, <1>2, <1>4, WalkTypes, WalkMaps, Zenon DEF BootInv
<1>5. CASE MapPage
  BY <1>1, <1>2, <1>5, MapPageTypes, MapPageMaps, Zenon DEF BootInv
<1>6. CASE LoadPage
  BY <1>1, <1>2, <1>6, MappingTypes, LoadMaps, Zenon DEF BootInv
<1>7. CASE Direct
  BY <1>1, <1>2, <1>7, MappingTypes, DirectMaps, Zenon DEF BootInv
<1>8. CASE StackPage
  BY <1>1, <1>2, <1>8, MappingTypes, StackMaps, Zenon DEF BootInv
<1>9. CASE Identity
  BY <1>1, <1>2, <1>9, QuietTypes, IdentityMaps, Zenon DEF BootInv
<1>10. CASE ExitBootServices
  BY <1>1, <1>2, <1>10, MappingTypes, ExitMaps, Zenon DEF BootInv
<1>11. CASE Fail \/ UNCHANGED vars
  <2>1. UNCHANGED <<layout, use, map, queue>> /\ (pc' \in {"stack", "exit", "kernel"} => pc' = pc)
    BY <1>11, Zenon DEF Fail, vars
  <2> QED
    BY <1>1, <1>2, <1>11, <2>1, QuietTypes, QuietMaps, Zenon DEF BootInv
<1> QED
  BY <1>3, <1>4, <1>5, <1>6, <1>7, <1>8, <1>9, <1>10, <1>11, Zenon DEF Next

(* The loader starts with nothing taken or mapped.                         *)
LEMMA InitInv ==
  ASSUME Init
  PROVE  BootInv
<1>1. /\ pc = "survey" /\ layout \in Layouts /\ use = [f \in Frames |-> "none"]
      /\ total = 0 /\ used = 0 /\ max = 0 /\ busy = {} /\ queue = <<>> /\ tables = <<>> /\ map = <<>>
  BY Zenon DEF Init
<1>2. DOMAIN map = {} /\ DOMAIN tables = {} /\ Len(queue) = 0
  BY <1>1
<1>3. use \in [Frames -> Uses] /\ \A f \in Frames : use[f] = "none"
  BY <1>1, Zenon DEF Uses
<1>4. TypeOK
  BY <1>1, <1>2, <1>3, Zenon DEF TypeOK
<1>5. queue \in Seq(Int \X Frames)
  BY <1>1
<1>6. TypesRight
  BY <1>1, <1>2, <1>3, <1>4, <1>5, Zenon DEF TypesRight, Setup, Early
<1>7. BitmapBegun
  BY <1>1, <1>3, Zenon DEF BitmapBegun
<1>8. BitmapDone
  BY <1>1, Zenon DEF BitmapDone, Late
<1>9. \A v, f : ~Leads(v, f)
  BY <1>2 DEF Leads
<1>10. Count("image") = 0 /\ Count("stack") = 0
  <2>1. {f \in Frames : use[f] = "image"} = {} /\ {f \in Frames : use[f] = "stack"} = {}
    BY <1>3, Zenon
  <2> QED
    BY <2>1, FS_EmptySet, Zenon DEF Count
<1>11. MapsRight
  BY <1>1, <1>2, <1>9, <1>10 DEF MapsRight
<1> QED
  BY <1>6, <1>7, <1>8, <1>11, Zenon DEF BootInv

-----------------------------------------------------------------------------
(* What the invariant says of the bitmap, the counters and the mappings.   *)

(* Free bits are of memory the kernel may have, at every point.            *)
LEMMA InvBitmap ==
  ASSUME BootInv
  PROVE  BitmapExact
<1>1. TypesRight /\ BitmapBegun /\ BitmapDone /\ TypeOK
  BY Zenon DEF BootInv, TypesRight
<1>2. ASSUME pc = "survey" PROVE BitSet = {}
  <2>1. max = 0
    BY <1>1, <1>2, Zenon DEF BitmapBegun
  <2>2. Bits = 0
    BY <2>1, BitsAre, BitsCover, Zenon
  <2> QED
    BY <2>2, BitSetIs
<1>3. ASSUME pc \notin {"bitmap", "halted"}, NEW f \in BitSet, f \notin busy PROVE f \in Legal
  <2>1. CASE pc = "survey"
    BY <1>2, <1>3, <2>1, Zenon
  <2>2. CASE pc \in {"build", "info"}
    BY <1>1, <1>3, <2>2, Zenon DEF BitmapBegun
  <2>3. CASE pc \in Late
    BY <1>1, <1>3, <2>3, Zenon DEF BitmapDone
  <2> QED
    BY <1>1, <1>3, <2>1, <2>2, <2>3, Zenon DEF TypesRight, Setup, Early
<1>4. ASSUME pc \notin Early \cup {"info", "halted"} PROVE KernelFrames \subseteq busy
  BY <1>1, <1>4, Zenon DEF BitmapDone, TypesRight, Setup
<1> QED
  BY <1>1, <1>3, <1>4, BitSetIs, Zenon DEF BitmapExact

LEMMA InvUsed ==
  ASSUME BootInv
  PROVE  UsedExact
<1>1. TypesRight /\ BitmapDone
  BY Zenon DEF BootInv
<1>2. ASSUME pc \notin Early \cup {"info", "halted"} PROVE used + Cardinality(BitSet \ busy) = total
  BY <1>1, <1>2, Zenon DEF BitmapDone, TypesRight, Setup
<1> QED
  BY <1>2, BitSetIs, Zenon DEF UsedExact

(* When the kernel starts, the queue is empty: a page that is covered is   *)
(* mapped, to a frame that its kind allows.                                *)
LEMMA InvReaches ==
  ASSUME BootInv
  PROVE  KernelReaches
<1>1. SUFFICES ASSUME pc = "kernel"
      PROVE /\ \A i \in 0 .. (ImagePages - 1) : use[map[ImageBase + i]] = "image"
            /\ \A i, j \in 0 .. (ImagePages - 1) : map[ImageBase + i] = map[ImageBase + j] => i = j
            /\ use[map[StackBase - 1]] = "stack"
            /\ \A f \in KernelFrames \cup (BitSet \ busy) :
                 DirectBase + f \in DOMAIN map /\ map[DirectBase + f] = f
  BY BitSetIs, Zenon DEF KernelReaches
<1>2. TypesRight /\ BitmapDone /\ MapsRight /\ layout \in Layouts /\ queue = <<>>
  BY <1>1, Zenon DEF BootInv, TypesRight
<1>3. ASSUME NEW v \in Int, Covered(v)
      PROVE  v \in DOMAIN map /\ map[v] \in Frames /\ Leads(v, map[v]) /\ PairRight(v, map[v])
  <2>1. PICK f \in Frames : Leads(v, f)
    BY <1>3, Zenon DEF Covered
  <2>2. v \in DOMAIN map /\ map[v] = f
    BY <1>2, <2>1 DEF Leads
  <2> QED
    BY <1>2, <2>1, <2>2, Zenon DEF MapsRight
<1>4. /\ Count("image") = ImagePages /\ Count("stack") = StackPages
      /\ \A f \in DirectFrames : Covered(DirectBase + f)
  BY <1>1, <1>2, Zenon DEF MapsRight
<1>5. ASSUME NEW i \in 0 .. (ImagePages - 1)
      PROVE  ImageBase + i \in ImageRange /\ ImageBase + i \in Int /\ Covered(ImageBase + i)
  <2>1. i \in Nat /\ i < ImagePages
    BY SizeAssumption
  <2>2. Covered(ImageBase + i)
    BY <1>2, <1>4, <2>1, Zenon DEF MapsRight
  <2> QED
    BY <2>1, <2>2, Bases, SizeAssumption DEF ImageRange
<1>6. ASSUME NEW i \in 0 .. (ImagePages - 1)
      PROVE  use[map[ImageBase + i]] = "image"
  BY <1>2, <1>3, <1>5, PairKinds, Zenon
<1>7. ASSUME NEW i \in 0 .. (ImagePages - 1), NEW j \in 0 .. (ImagePages - 1),
             map[ImageBase + i] = map[ImageBase + j]
      PROVE  i = j
  <2>1. ImageBase + i = ImageBase + j
    BY <1>2, <1>3, <1>5, <1>7, Zenon DEF MapsRight
  <2> QED
    BY <2>1, Bases, SizeAssumption
<1>8. use[map[StackBase - 1]] = "stack"
  <2>1. StackBase - 1 \in Int /\ Covered(StackBase - 1)
    BY <1>2, <1>4, Bases, SizeAssumption DEF MapsRight
  <2> QED
    BY <1>2, <1>3, <2>1, PairKinds, Zenon
<1>9. ASSUME NEW f \in KernelFrames \cup (BitSet \ busy)
      PROVE  DirectBase + f \in DOMAIN map /\ map[DirectBase + f] = f
  <2>1. f \in Legal
    <3>1. CASE f \in KernelFrames
      BY <1>2, <3>1, Zenon DEF KernelFrames, TypesRight, Legal
    <3>2. CASE f \in BitSet \ busy
      BY <1>1, <1>2, <3>2, Zenon DEF BitmapDone, Late
    <3> QED
      BY <1>9, <3>1, <3>2, Zenon
  <2>2. f \in DirectFrames /\ f \in Frames /\ DirectBase + f \in Int
    BY <1>2, <2>1, FrameSets, Bases
  <2>3. Covered(DirectBase + f)
    BY <1>4, <2>2, Zenon
  <2> QED
    BY <1>2, <1>3, <2>2, <2>3, PairKinds, Zenon
<1> QED
  BY <1>6, <1>7, <1>8, <1>9, Zenon

-----------------------------------------------------------------------------
(* The theorems.                                                           *)

(* The inductive invariant of the boot loader holds at every point of      *)
(* efi_main, whatever the firmware's memory map is and wherever it fails.  *)
THEOREM BootInvariant == Spec => []BootInv
<1>1. Init => BootInv
  BY InitInv, Zenon
<1>2. BootInv /\ [Next]_vars => BootInv'
  BY StepInv, Zenon
<1> QED
  BY <1>1, <1>2, PTL DEF Spec

(* A bit that unset_bitmap_bit cleared and set_bitmap_bit did not set      *)
(* again is of memory the firmware leaves to the kernel; the bitmap, the   *)
(* boot information, the page tables and the kernel's image are busy.      *)
THEOREM BitmapExactAlways == Spec => []BitmapExact
<1>1. BootInv => BitmapExact
  BY InvBitmap, Zenon
<1> QED
  BY <1>1, BootInvariant, PTL

(* The used pages that efi_main counts and the free bits of the bitmap add *)
(* up to the pages of RAM that it hands to pmm_init.                       *)
THEOREM UsedExactAlways == Spec => []UsedExact
<1>1. BootInv => UsedExact
  BY InvUsed, Zenon
<1> QED
  BY <1>1, BootInvariant, PTL

(* The tables that efi_main gives the kernel map every page of its image   *)
(* to a frame of its own, a page of stack, and directly every frame that   *)
(* is free or that the kernel is handed.                                   *)
THEOREM KernelReachesAlways == Spec => []KernelReaches
<1>1. BootInv => KernelReaches
  BY InvReaches, Zenon
<1> QED
  BY <1>1, BootInvariant, PTL
=============================================================================
