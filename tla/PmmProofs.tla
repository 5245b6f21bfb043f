----------------------------- MODULE PmmProofs -----------------------------
(***************************************************************************)
(* Proofs about the physical memory manager, for every number of frames,   *)
(* word size, set of counts and set of alignments.                         *)
(*                                                                         *)
(* TypeOK, Accounting /\ PanicOnlyOnStray, and ScanCovers are inductive in *)
(* this order, each with the help of the ones before it. ScanCovers, the   *)
(* invariant of the allocator's main loop, is what the refinement of the   *)
(* first-fit allocator rests on: when the scan takes base, no lower run    *)
(* fits, and when it reaches the end, none does. That it survives the      *)
(* steps of the loop is the arithmetic of the first section: between two   *)
(* consecutive multiples of the step there is no aligned frame.            *)
(***************************************************************************)
EXTENDS Pmm, FiniteSetTheorems, TLAPS

-----------------------------------------------------------------------------
(* ARITHMETIC OF ALIGNMENT                                                 *)

(* Division with remainder, as the code's / and % on unsigned numbers.     *)
LEMMA DivMod ==
  ASSUME NEW n \in Nat, NEW s \in Nat \ {0}
  PROVE  /\ n \div s \in Nat
         /\ n % s \in 0 .. (s - 1)
         /\ n = s * (n \div s) + (n % s)
  OBVIOUS

(* A multiple of the step has remainder 0.                                 *)
LEMMA MultipleMod ==
  ASSUME NEW q \in Nat, NEW s \in Nat \ {0}
  PROVE  (s * q) % s = 0
  OBVIOUS

(* Multiplication by the step is strictly monotonic.                       *)
LEMMA MultipleOrder ==
  ASSUME NEW q \in Nat, NEW k \in Nat, NEW s \in Nat \ {0}, s * q < s * k
  PROVE  q < k
<1>1. SUFFICES ASSUME k <= q PROVE FALSE
  OBVIOUS
<1>2. PICK e \in Nat : q = k + e
  BY <1>1
<1>3. s * q = s * k + s * e /\ s * e >= 0
  BY <1>2
<1> QED
  BY <1>3

(* No multiple of the step lies strictly between two consecutive ones.     *)
LEMMA MultipleGap ==
  ASSUME NEW q \in Nat, NEW s \in Nat \ {0}, NEW d \in Nat,
         s * q < d, d < s * q + s
  PROVE  d % s # 0
<1>1. SUFFICES ASSUME d % s = 0 PROVE FALSE
  BY Zenon
<1> DEFINE k == d \div s
<1>2. k \in Nat /\ d = s * k
  BY <1>1, DivMod
<1>3. s * (q + 1) = s * q + s
  OBVIOUS
<1>4. q < k /\ k < q + 1
  BY <1>2, <1>3, MultipleOrder
<1> QED
  BY <1>2, <1>4

(* Advancing the scan by one step reaches the next aligned frame.          *)
LEMMA NextMultiple ==
  ASSUME NEW b \in Nat, NEW s \in Nat \ {0}, b % s = 0
  PROVE  /\ (b + s) % s = 0
         /\ \A d \in (b + 1) .. (b + s - 1) : d % s # 0
<1>1. PICK q \in Nat : b = s * q
  <2>1. b \div s \in Nat /\ b = s * (b \div s)
    BY DivMod
  <2> QED BY <2>1
<1>2. b + s = s * (q + 1) /\ q + 1 \in Nat
  BY <1>1
<1>3. (b + s) % s = 0
  <2>1. (s * (q + 1)) % s = 0
    BY <1>2, MultipleMod, Zenon
  <2> QED BY <1>2, <2>1
<1>4. ASSUME NEW d \in (b + 1) .. (b + s - 1) PROVE d % s # 0
  <2>1. d \in Nat /\ s * q < d /\ d < s * q + s
    BY <1>1
  <2> QED BY <2>1, MultipleGap
<1> QED
  BY <1>3, <1>4, Zenon

(* Rounding up (lines 61-67 of pmm.c) passes over no aligned frame.        *)
LEMMA AlignUpMultiple ==
  ASSUME NEW n \in Nat, NEW s \in Nat \ {0}
  PROVE  /\ AlignUp(n, s) \in Nat /\ AlignUp(n, s) >= n
         /\ AlignUp(n, s) % s = 0
         /\ \A d \in n .. (AlignUp(n, s) - 1) : d % s # 0
<1>1. CASE n % s = 0
  BY <1>1 DEF AlignUp
<1>2. CASE n % s # 0
  <2> DEFINE q == n \div s
  <2>1. q \in Nat /\ n = s * q + (n % s) /\ n % s \in 1 .. (s - 1)
    BY <1>2, DivMod
  <2>2. AlignUp(n, s) = s * q + s /\ AlignUp(n, s) \in Nat
    BY <1>2, <2>1 DEF AlignUp
  <2>3. s * q + s = s * (q + 1)
    BY <2>1
  <2>4. AlignUp(n, s) % s = 0
    BY <2>1, <2>2, <2>3, MultipleMod
  <2>5. \A d \in n .. (AlignUp(n, s) - 1) : d % s # 0
    <3> HIDE DEF q
    <3>1. s * q \in Nat
      BY <2>1
    <3> QED BY <2>1, <2>2, <3>1, MultipleGap
  <2>6. AlignUp(n, s) >= n
    BY <2>1, <2>2
  <2> QED
    BY <2>2, <2>4, <2>5, <2>6, Zenon
<1> QED
  BY <1>1, <1>2, Zenon

(* The clamp of line 42 makes every step at least one frame.               *)
LEMMA StepPositive ==
  ASSUME NEW a \in Nat
  PROVE  Step(a) \in Nat \ {0}
  BY PageAssumption DEF Step
-----------------------------------------------------------------------------
(* INVARIANTS                                                              *)

(* The bitmap covers the frames.                                           *)
LEMMA FramesInBits == Frames \subseteq Bits /\ 0 \in Frames
<1> DEFINE n == TotalFrames + WordFrames - 1
<1>1. n \in Nat /\ TotalFrames = n - (WordFrames - 1)
  BY FramesAssumption, WordAssumption
<1>2. PICK w \in Nat, r \in 0 .. (WordFrames - 1) :
        w = n \div WordFrames /\ n = WordFrames * w + r
  <2> HIDE DEF n
  <2>1. /\ n \div WordFrames \in Nat
        /\ n % WordFrames \in 0 .. (WordFrames - 1)
        /\ n = WordFrames * (n \div WordFrames) + (n % WordFrames)
    BY <1>1, WordAssumption, DivMod, Zenon
  <2> QED BY <2>1
<1>3. w * WordFrames = WordFrames * w /\ w * WordFrames \in Nat
  BY WordAssumption
<1>4. TotalFrames <= w * WordFrames
  <2> HIDE DEF n
  <2> QED BY <1>1, <1>2, <1>3, FramesAssumption, WordAssumption
<1>5. Bits = 0 .. (w * WordFrames - 1)
  BY <1>2, Zenon DEF Bits
<1>6. Frames \subseteq Bits
  BY <1>3, <1>4, <1>5, FramesAssumption DEF Frames
<1> QED
  BY <1>6, FramesAssumption DEF Frames

LEMMA InitType == Init => TypeOK
<1> SUFFICES ASSUME Init PROVE TypeOK
  BY Zenon
<1>1. IsFiniteSet(Frames) /\ Cardinality(Frames) = TotalFrames
  BY FramesAssumption, FS_Interval DEF Frames
<1>2. Cardinality(busy \cap Frames) \in Nat /\ Cardinality(busy \cap Frames) <= TotalFrames
  BY <1>1, FS_Subset, FS_CardinalityType, Zenon
<1>3. used \in Nat /\ used < Wrap
  BY <1>2, CounterAssumption, FramesAssumption DEF Init
<1>4. req \in [count : Nat, step : Nat \ {0}]
  BY DEF Init, NoRequest
<1>5. low \in BOOLEAN /\ stray \in BOOLEAN
  BY Zenon DEF Init
<1> QED
  BY <1>3, <1>4, <1>5, FramesInBits, Zenon DEF Init, TypeOK

LEMMA NextType == TypeOK /\ [Next]_vars => TypeOK'
<1> SUFFICES ASSUME TypeOK, [Next]_vars PROVE TypeOK'
  BY Zenon
<1> USE FramesAssumption DEF TypeOK
<1>1. CASE AllocateZero
  BY <1>1, FramesInBits, Zenon DEF AllocateZero, history
<1>2. ASSUME NEW count \in Counts, NEW alignment \in Alignments,
             AllocateBegin(count, alignment)
      PROVE  TypeOK'
  <2>1. count \in Nat /\ Step(alignment) \in Nat \ {0}
    BY RequestAssumption, StepPositive, Zenon
  <2> QED
    BY <1>2, <2>1 DEF AllocateBegin, LowMemory, history
<1>3. CASE ScanSkipWord
  <2>1. base + WordFrames \in Nat
    BY WordAssumption
  <2>2. AlignUp(base + WordFrames, req.step) \in Nat
    BY <2>1, AlignUpMultiple, Zenon
  <2> QED
    BY <1>3, <2>2, Zenon DEF ScanSkipWord, history
<1>4. CASE ScanBusy
  BY <1>4 DEF ScanBusy, history
<1>5. CASE ScanFail
  BY <1>5, FramesInBits DEF ScanFail, Return, NoRequest, history
<1>6. CASE ScanTake
  <2>1. Run(base, req.count) \subseteq Frames
    BY <1>6 DEF ScanTake, FreeFor, Run, Frames
  <2>2. (used + req.count) % Wrap \in Nat /\ (used + req.count) % Wrap < Wrap
    BY CounterAssumption
  <2>3. base \in Frames
    BY <1>6 DEF ScanTake, Frames
  <2>4. (low \in BOOLEAN /\ stray \in BOOLEAN)'
    BY <1>6, Zenon DEF ScanTake
  <2>5. (req \in [count : Nat, step : Nat \ {0}])'
    BY <1>6 DEF ScanTake, Return, NoRequest
  <2> QED
    BY <1>6, <2>1, <2>2, <2>3, <2>4, <2>5, FramesInBits, Zenon DEF ScanTake, Return
<1>7. ASSUME NEW start \in 0 .. TotalFrames, NEW count \in Counts,
             Free(start, count) \/ FreeOutOfRange(start, count) \/ FreeDouble(start, count)
      PROVE  TypeOK'
  BY <1>7, Zenon DEF Free, FreeOutOfRange, FreeDouble, Released
<1>8. ASSUME NEW f \in held, Touch(f) PROVE TypeOK'
  BY <1>8, Zenon DEF Touch, history
<1>9. CASE UNCHANGED vars
  BY <1>9, Zenon DEF vars
<1> QED
  BY <1>1, <1>2, <1>3, <1>4, <1>5, <1>6, <1>7, <1>8, <1>9, Zenon DEF Next, Scan, Halted

(* The values pmm.c keeps stay in their types: in particular the step of a *)
(* running scan is never 0 and what is returned is a frame of the machine. *)
THEOREM TypeCorrect == Spec => []TypeOK
  BY InitType, NextType, PTL DEF Spec
-----------------------------------------------------------------------------
(* Accounting and PanicOnlyOnStray hold together: the panics are excluded  *)
(* because held frames are busy frames.                                    *)
LEMMA NextAccounting ==
  TypeOK /\ Accounting /\ PanicOnlyOnStray /\ [Next]_vars
    => Accounting' /\ PanicOnlyOnStray'
<1> SUFFICES ASSUME TypeOK, Accounting, PanicOnlyOnStray, [Next]_vars
             PROVE  Accounting' /\ PanicOnlyOnStray'
  BY Zenon
<1> USE DEF Accounting, PanicOnlyOnStray
<1>1. CASE AllocateZero
  BY <1>1, Zenon DEF AllocateZero, history
<1>2. ASSUME NEW count \in Counts, NEW alignment \in Alignments,
             AllocateBegin(count, alignment)
      PROVE  Accounting' /\ PanicOnlyOnStray'
  BY <1>2, Zenon DEF AllocateBegin, history
<1>3. CASE ScanSkipWord \/ ScanBusy
  BY <1>3, Zenon DEF ScanSkipWord, ScanBusy, history
<1>4. CASE ScanFail
  BY <1>4, Zenon DEF ScanFail, Return, history
<1>5. CASE ScanTake
  <2>1. Run(base, req.count) \cap busy = {}
    BY <1>5, Zenon DEF ScanTake, FreeFor
  <2> QED
    BY <1>5, <2>1, Zenon DEF ScanTake, Return
<1>6. ASSUME NEW start \in 0 .. TotalFrames, NEW count \in Counts,
             Free(start, count)
      PROVE  Accounting' /\ PanicOnlyOnStray'
  BY <1>6, Zenon DEF Free, Released
<1>7. ASSUME NEW start \in 0 .. TotalFrames, NEW count \in Counts,
             FreeOutOfRange(start, count)
      PROVE  Accounting' /\ PanicOnlyOnStray'
  <2>1. count \in Nat /\ count # 0 /\ start + count > TotalFrames
    BY <1>7, RequestAssumption, Zenon DEF FreeOutOfRange
  <2>2. start + count - 1 \in Run(start, count) /\ start + count - 1 \notin Frames
    BY <2>1, FramesAssumption DEF Run, Frames
  <2>3. stray'
    BY <1>7, <2>2, Zenon DEF FreeOutOfRange, Released, TypeOK
  <2> QED
    BY <2>3, Zenon
<1>8. ASSUME NEW start \in 0 .. TotalFrames, NEW count \in Counts,
             FreeDouble(start, count)
      PROVE  Accounting' /\ PanicOnlyOnStray'
  <2>1. PICK k \in Run(start, count) \ busy : Released(start, k - start, count)
    BY <1>8, Zenon DEF FreeDouble
  <2>2. stray'
    BY <2>1, Zenon DEF Released
  <2> QED
    BY <2>2, Zenon
<1>9. ASSUME NEW f \in held, Touch(f) PROVE Accounting' /\ PanicOnlyOnStray'
  BY <1>9, Zenon DEF Touch, history
<1>10. CASE UNCHANGED vars
  BY <1>10, Zenon DEF vars
<1> QED
  BY <1>1, <1>2, <1>3, <1>4, <1>5, <1>6, <1>7, <1>8, <1>9, <1>10, Zenon DEF Next, Scan, Halted

(* For every machine and every request: while callers free only what they  *)
(* hold, the bitmap is exactly the boot reservations plus what they hold.  *)
THEOREM AccountingCorrect == Spec => []Accounting
<1>1. Init => Accounting /\ PanicOnlyOnStray
  BY Zenon DEF Init, Accounting, PanicOnlyOnStray
<1> QED
  BY <1>1, TypeCorrect, NextAccounting, PTL DEF Spec

(* For every machine and every request: a panic of pmm_free_frames is      *)
(* always the fault of a caller that freed what it did not hold.           *)
THEOREM PanicCorrect == Spec => []PanicOnlyOnStray
<1>1. Init => Accounting /\ PanicOnlyOnStray
  BY Zenon DEF Init, Accounting, PanicOnlyOnStray
<1> QED
  BY <1>1, TypeCorrect, NextAccounting, PTL DEF Spec

-----------------------------------------------------------------------------
(* THE SCAN                                                                *)

(* No aligned free run of the requested length starts at d.                *)
NoRunAt(d, count, step) ==
  d % step = 0 => ~(d + count <= TotalFrames /\ Run(d, count) \cap busy = {})

(* The word skip loses nothing: the frames of a full word start no free    *)
(* run, and between the end of the word and AlignUp nothing is aligned.    *)
LEMMA SkipCovers ==
  ASSUME TypeOK, ScanCovers, ScanSkipWord
  PROVE  ScanCovers'
<1> DEFINE up == AlignUp(base + WordFrames, req.step)
<1>1. base \in Nat /\ req.step \in Nat \ {0} /\ req.count \in Nat \ {0} /\ pc = "scan"
  BY RequestAssumption, Zenon DEF TypeOK, ScanCovers, ScanSkipWord
<1>2. base + WordFrames \in Nat
  BY <1>1, WordAssumption
<1>3. /\ up \in Nat /\ up >= base + WordFrames /\ up % req.step = 0
      /\ \A d \in (base + WordFrames) .. (up - 1) : d % req.step # 0
  BY <1>1, <1>2, AlignUpMultiple, Zenon
<1>4. /\ base' = up /\ req' = req /\ busy' = busy /\ pc' = pc
      /\ Run(base, WordFrames) \subseteq busy
  BY Zenon DEF ScanSkipWord, WordFull
<1>5. ASSUME NEW d \in 0 .. (up - 1) PROVE NoRunAt(d, req.count, req.step)
  <2> HIDE DEF up
  <2>1. CASE d < base
    BY <2>1, <1>1 DEF ScanCovers, NoRunAt
  <2>2. CASE d >= base /\ d < base + WordFrames
    <3>1. d \in Run(base, WordFrames) /\ d \in Run(d, req.count)
      BY <2>2, <1>1, WordAssumption DEF Run
    <3> QED
      BY <3>1, <1>4, Zenon DEF NoRunAt
  <2>3. CASE d >= base + WordFrames
    BY <2>3, <1>1, <1>2, <1>3 DEF NoRunAt
  <2> QED
    BY <2>1, <2>2, <2>3, <1>1, WordAssumption
<1> QED
  BY <1>1, <1>3, <1>4, <1>5, Zenon DEF ScanCovers, NoRunAt, Run

LEMMA BusyCovers ==
  ASSUME TypeOK, ScanCovers, ScanBusy
  PROVE  ScanCovers'
<1>1. base \in Nat /\ req.step \in Nat \ {0} /\ req.count \in Nat \ {0} /\ pc = "scan"
  BY RequestAssumption, Zenon DEF TypeOK, ScanCovers, ScanBusy
<1>2. base' = base + req.step /\ req' = req /\ busy' = busy /\ pc' = pc
  BY Zenon DEF ScanBusy, history
<1>3. /\ (base + req.step) % req.step = 0
      /\ \A d \in (base + 1) .. (base + req.step - 1) : d % req.step # 0
  BY <1>1, NextMultiple, Zenon DEF ScanCovers
<1>4. PICK i \in 0 .. (req.count - 1) : base + i \in busy
  BY Zenon DEF ScanBusy
<1>5. ASSUME NEW d \in 0 .. (base + req.step - 1) PROVE NoRunAt(d, req.count, req.step)
  <2>1. CASE d < base
    BY <2>1, <1>1 DEF ScanCovers, NoRunAt
  <2>2. CASE d = base
    BY <2>2, <1>1, <1>4 DEF NoRunAt, Run
  <2>3. CASE d > base
    BY <2>3, <1>1, <1>3 DEF NoRunAt
  <2> QED
    BY <2>1, <2>2, <2>3, <1>1
<1> QED
  BY <1>1, <1>2, <1>3, <1>5 DEF ScanCovers, NoRunAt, Run

LEMMA NextCovers == TypeOK /\ ScanCovers /\ [Next]_vars => ScanCovers'
<1> SUFFICES ASSUME TypeOK, ScanCovers, [Next]_vars PROVE ScanCovers'
  BY Zenon
<1>1. CASE ScanSkipWord
  BY <1>1, SkipCovers, Zenon
<1>2. CASE ScanBusy
  BY <1>2, BusyCovers, Zenon
<1>3. ASSUME NEW count \in Counts, NEW alignment \in Alignments,
             AllocateBegin(count, alignment)
      PROVE  ScanCovers'
  <2>1. Step(alignment) \in Nat \ {0} /\ Step(alignment) \in Steps
    BY StepPositive, RequestAssumption, Zenon DEF Steps
  <2>2. 0 % Step(alignment) = 0
    BY <2>1
  <2> QED
    BY <1>3, <2>1, <2>2 DEF AllocateBegin, ScanCovers
<1>4. CASE UNCHANGED vars
  BY <1>4, Zenon DEF vars, ScanCovers, Run
<1>5. CASE pc' # "scan"
  BY <1>5, Zenon DEF ScanCovers
<1>6. pc' # "scan" \/ ScanSkipWord \/ ScanBusy \/ UNCHANGED vars
      \/ \E count \in Counts, alignment \in Alignments : AllocateBegin(count, alignment)
  BY Zenon DEF Next, Scan, ScanFail, ScanTake, Return, AllocateZero, Free, FreeOutOfRange,
         FreeDouble, Touch, Halted
<1> QED
  BY <1>1, <1>2, <1>3, <1>4, <1>5, <1>6, Zenon

(* For every bitmap, alignment and count the scan passes over no aligned   *)
(* free run, word skips included.                                          *)
THEOREM ScanCorrect == Spec => []ScanCovers
<1>1. Init => ScanCovers
  BY Zenon DEF Init, ScanCovers
<1> QED
  BY <1>1, TypeCorrect, NextCovers, PTL DEF Spec
-----------------------------------------------------------------------------
(* REFINEMENT                                                              *)

(* Between calls there is no request.                                      *)
IdleRequest == pc # "scan" => req = NoRequest

LEMMA NextIdle == IdleRequest /\ [Next]_vars => IdleRequest'
  BY Zenon DEF IdleRequest, Next, Scan, ScanSkipWord, ScanBusy, ScanFail, ScanTake, Return,
         AllocateZero, AllocateBegin, Free, FreeOutOfRange, FreeDouble, Released, Touch,
         Halted, vars

LEMMA AlwaysIdleRequest == Spec => []IdleRequest
<1>1. Init => IdleRequest
  BY Zenon DEF Init, IdleRequest
<1> QED
  BY <1>1, NextIdle, PTL DEF Spec

(* A request that is being served is not the absence of one.               *)
LEMMA ScanHasRequest ==
  ASSUME ScanCovers, pc = "scan"
  PROVE  req # NoRequest
  BY DEF ScanCovers, NoRequest

(* A successful scan takes the first fit.                                  *)
LEMMA TakeIsAlloc ==
  ASSUME TypeOK, ScanCovers, ScanTake
  PROVE  FA!Next
<1>1. /\ pc = "scan" /\ req.count \in Counts \ {0} /\ req.step \in Steps
      /\ base % req.step = 0 /\ base \in 0 .. (TotalFrames - 1)
  BY FramesAssumption DEF TypeOK, ScanCovers, ScanTake
<1>2. FA!FreeRun(base, req.count)
  BY <1>1, Zenon DEF ScanTake, FreeFor, Run, FA!FreeRun, FA!Run
<1>3. \A d \in 0 .. (base - 1) : FA!Aligned(d, req.step) => ~FA!FreeRun(d, req.count)
  BY <1>1, Zenon DEF ScanCovers, FA!Aligned, FA!FreeRun, FA!Run, Run
<1>4. FA!Alloc(base)
  BY <1>1, <1>2, <1>3, ScanHasRequest, Zenon
  DEF FA!Alloc, FA!FirstFit, FA!Aligned, FA!Run, FA!NoRequest, NoRequest, ScanTake, Run, Return
<1> QED
  BY <1>1, <1>4, Zenon DEF FA!Next

(* A scan that gives up leaves no aligned free run anywhere.               *)
LEMMA FailIsAllocFail ==
  ASSUME TypeOK, ScanCovers, ScanFail
  PROVE  FA!Next
<1>1. /\ pc = "scan" /\ req.count \in Counts \ {0} /\ req.step \in Steps
      /\ base \in Nat /\ req.count \in Nat \ {0}
  BY RequestAssumption, Zenon DEF TypeOK, ScanCovers, ScanFail
<1>2. base + req.count > TotalFrames
  <2>1. CASE base >= TotalFrames
    BY <2>1, <1>1, FramesAssumption
  <2>2. ASSUME NEW i \in 0 .. (req.count - 1), base + i >= TotalFrames
        PROVE  base + req.count > TotalFrames
    BY <2>2, <1>1, FramesAssumption
  <2> QED
    BY <2>1, <2>2, Zenon DEF ScanFail
<1>3. ASSUME NEW d \in 0 .. TotalFrames, FA!Aligned(d, req.step)
      PROVE  ~FA!FreeRun(d, req.count)
  <2>1. CASE d < base
    BY <2>1, <1>1, <1>3 DEF ScanCovers, FA!Aligned, FA!FreeRun, FA!Run, Run
  <2>2. CASE d >= base
    BY <2>2, <1>1, <1>2, FramesAssumption DEF FA!FreeRun
  <2> QED
    BY <2>1, <2>2, <1>1, FramesAssumption
<1>4. FA!AllocFail
  BY <1>1, <1>3, ScanHasRequest, Zenon DEF FA!AllocFail, FA!NoRequest, NoRequest, ScanFail, Return
<1> QED
  BY <1>1, <1>4, Zenon DEF FA!Next

LEMMA StepRefines ==
  TypeOK /\ ScanCovers /\ IdleRequest /\ [Next]_vars => [FA!Next]_(FA!vars)
<1> SUFFICES ASSUME TypeOK, ScanCovers, IdleRequest, [Next]_vars PROVE [FA!Next]_(FA!vars)
  BY Zenon
<1> USE DEF IdleRequest, NoRequest, FA!NoRequest
<1>1. CASE AllocateZero
  BY <1>1, Zenon DEF AllocateZero, FA!Next, FA!AllocZero
<1>2. ASSUME NEW count \in Counts, NEW alignment \in Alignments,
             AllocateBegin(count, alignment)
      PROVE  FA!Next
  <2>1. count \in Counts \ {0} /\ Step(alignment) \in Steps
    BY <1>2, Zenon DEF AllocateBegin, Steps
  <2>2. FA!Call(count, Step(alignment))
    BY <1>2, Zenon DEF AllocateBegin, FA!Call
  <2> QED
    BY <1>2, <2>1, <2>2, Zenon DEF AllocateBegin, FA!Next
<1>3. CASE ScanSkipWord \/ ScanBusy
  BY <1>3, Zenon DEF ScanSkipWord, ScanBusy, FA!vars
<1>4. CASE ScanFail
  BY <1>4, FailIsAllocFail, Zenon
<1>5. CASE ScanTake
  BY <1>5, TakeIsAlloc, Zenon
<1>6. ASSUME NEW start \in 0 .. TotalFrames, NEW count \in Counts,
             Free(start, count)
      PROVE  FA!Next
  <2>1. FA!Free(start, count)
    BY <1>6, Zenon DEF Free, Released, FA!Free, FA!Run, Run
  <2> QED
    BY <1>6, <2>1, Zenon DEF Free, FA!Next
<1>7. ASSUME NEW start \in 0 .. TotalFrames, NEW count \in Counts,
             FreeOutOfRange(start, count)
      PROVE  FA!Next
  <2>1. Run(start, 0) = {}
    BY DEF Run
  <2>2. FA!BadFree(start, count)
    BY <1>7, <2>1, Zenon DEF FreeOutOfRange, Released, FA!BadFree
  <2> QED
    BY <1>7, <2>2, Zenon DEF FreeOutOfRange, FA!Next
<1>8. ASSUME NEW start \in 0 .. TotalFrames, NEW count \in Counts,
             FreeDouble(start, count)
      PROVE  FA!Next
  <2>1. FA!BadFree(start, count)
    BY <1>8, Zenon DEF FreeDouble, Released, FA!BadFree, FA!Run, Run
  <2> QED
    BY <1>8, <2>1, Zenon DEF FreeDouble, FA!Next
<1>9. ASSUME NEW f \in held, Touch(f) PROVE UNCHANGED FA!vars
  BY <1>9, Zenon DEF Touch, FA!vars
<1>10. CASE UNCHANGED vars
  BY <1>10, Zenon DEF vars, FA!vars
<1> QED
  BY <1>1, <1>2, <1>3, <1>4, <1>5, <1>6, <1>7, <1>8, <1>9, <1>10, Zenon DEF Next, Scan, Halted

(* The bitmap scan of pmm.c implements the atomic first-fit allocator, for *)
(* every number of frames, word size, alignment and count.                 *)
THEOREM Refinement == Spec => ImplementsFirstFit
<1>1. Init => FA!Init
  BY Zenon DEF Init, FA!Init, NoRequest, FA!NoRequest
<1> QED
  BY <1>1, StepRefines, TypeCorrect, ScanCorrect, AlwaysIdleRequest, PTL DEF Spec, FA!Spec, ImplementsFirstFit
-----------------------------------------------------------------------------
(* Whatever callers wrote before, a frame is zero when it changes hands.   *)
THEOREM ContentCorrect == Spec => NoStaleContent
<1>1. [Next]_vars => [(held' \ held) \cap dirty' = {}]_vars
  <2> SUFFICES ASSUME Next PROVE (held' \ held) \cap dirty' = {}
    BY Zenon
  <2>1. CASE ScanTake
    BY <2>1, Zenon DEF ScanTake
  <2>2. held' \subseteq held \/ ScanTake
    BY Zenon DEF Next, Scan, ScanSkipWord, ScanBusy, ScanFail, AllocateZero, AllocateBegin,
           Free, FreeOutOfRange, FreeDouble, Released, Touch, Halted, vars, history
  <2> QED
    BY <2>1, <2>2, Zenon
<1> QED
  BY <1>1, PTL DEF Spec, NoStaleContent
=============================================================================
