-------------------------------- MODULE Pmm --------------------------------
(***************************************************************************)
(* The physical memory manager (memory/pmm.c): a bitmap of frames, one bit *)
(* per frame, scanned from frame 0 in steps of the alignment, with a fast  *)
(* path that skips a whole bitmap word when all its bits are set.          *)
(*                                                                         *)
(* The scan of pmm_allocate_frames is one action per iteration of its main *)
(* loop, so that what the loop has established so far is an invariant.     *)
(* Addresses are frame numbers; frame 0 is the NULL the code returns.      *)
(***************************************************************************)
EXTENDS Integers, FiniteSets

CONSTANTS
  TotalFrames,  (* bitmap_size_frames and memory_total_frame_count.        *)
  WordFrames,   (* Frames per bitmap word: 64 in the code.                 *)
  PageSize,     (* 4096 in the code.                                       *)
  Counts,       (* The counts callers pass.                                *)
  Alignments,   (* The alignments callers pass, in bytes.                  *)
  Wrap,         (* Counters are modulo this: 2^64 in the code.             *)
  UsedBound     (* Bounds the model: no allocation once the counter, which *)
                (* only grows, is past it.                                 *)

ASSUME FramesAssumption == TotalFrames \in Nat \ {0}
ASSUME WordAssumption == WordFrames \in Nat \ {0}
ASSUME PageAssumption == PageSize \in Nat \ {0}
ASSUME RequestAssumption == Counts \subseteq Nat /\ Alignments \subseteq Nat
ASSUME CounterAssumption == Wrap \in Nat /\ TotalFrames < Wrap /\ UsedBound \in Nat

VARIABLES
  busy,         (* Set bits of the bitmap.                                 *)
  used,         (* memory_used_frame_count.                                *)
  low,          (* The last allocation logged "Low physical memory".       *)
  pc,           (* "idle", "scan" in the main loop, "panic" after PANIC.   *)
  req,          (* Arguments of the running allocation: count and step.    *)
  base,         (* Loop variable of the scan.                              *)
  ret,          (* Frame number of the last value returned, 0 for NULL.    *)
  dirty,        (* Frames whose content is not all zero.                   *)
  reserved,     (* History: frames in use when the kernel started.         *)
  held,         (* History: frames callers were given and did not free.    *)
  stray         (* History: some caller freed a frame it did not hold.     *)

vars == <<busy, used, low, pc, req, base, ret, dirty, reserved, held, stray>>
history == <<reserved, held, stray>>

Frames == 0 .. (TotalFrames - 1)

(* The bitmap is read in whole words, so it has bits past the last frame.  *)
Bits == 0 .. (((TotalFrames + WordFrames - 1) \div WordFrames) * WordFrames - 1)

Run(b, c) == b .. (b + c - 1)

(* Mutant: the minimum alignment is not enforced.                          *)
StepUnclamped(alignment) == alignment \div PageSize

Step(alignment) ==
  (IF alignment < PageSize THEN PageSize ELSE alignment) \div PageSize

Steps == {Step(a) : a \in Alignments}

-----------------------------------------------------------------------------
(* Value of req outside a call.                                            *)
NoRequest == [count |-> 0, step |-> 1]

(* The bootloader hands over a bitmap in which frame 0, the sentinel, is   *)
(* always marked; the other bits depend on the machine's memory map.       *)
Init ==
  /\ busy \in {B \in SUBSET Bits : 0 \in B}
  /\ used = Cardinality(busy \cap Frames)
  /\ low = FALSE
  /\ pc = "idle"
  /\ req = NoRequest
  /\ base = 0
  /\ ret = 0
  /\ dirty = Frames
  /\ reserved = busy
  /\ held = {}
  /\ stray = FALSE

LowMemory == LET remaining == (TotalFrames - used) % Wrap
             IN  ((remaining * 100) % Wrap) \div TotalFrames < 6

AllocateZero ==
  /\ pc = "idle" /\ 0 \in Counts
  /\ ret' = 0
  /\ UNCHANGED <<busy, used, low, pc, req, base, dirty, history>>

AllocateBegin(count, alignment) ==
  /\ pc = "idle" /\ count # 0 /\ used <= UsedBound
  /\ req' = [count |-> count, step |-> Step(alignment)]
  /\ low' = LowMemory
  /\ base' = 0
  /\ pc' = "scan"
  /\ UNCHANGED <<busy, used, ret, dirty, history>>

WordFull(b) == b % WordFrames = 0 /\ Run(b, WordFrames) \subseteq busy

(* Mutant: a frame number that is already aligned is moved as well.        *)
AlignPast(b, step) == b + (step - (b % step))

(* Smallest multiple of step that is not below b.                          *)
AlignUp(b, step) ==
  IF b % step = 0 THEN b ELSE b + (step - (b % step))

(* The frames before base + i were found free: i iterations of the inner   *)
(* loop passed both of its tests.                                          *)
FreeFor(i) == Run(base, i) \cap busy = {} /\ base + i <= TotalFrames

(* The call returns: its arguments and loop variable are gone.             *)
Return == pc' = "idle" /\ req' = NoRequest /\ base' = 0

ScanSkipWord ==
  /\ pc = "scan" /\ base < TotalFrames
  /\ WordFull(base)
  /\ base' = AlignUp(base + WordFrames, req.step)
  /\ UNCHANGED <<busy, used, low, pc, req, ret, dirty, history>>

(* Mutant: the iteration ends without the loop's increment.                *)
ScanBusyStuck ==
  /\ pc = "scan" /\ base < TotalFrames /\ ~WordFull(base)
  /\ \E i \in 0 .. (req.count - 1) :
       FreeFor(i) /\ base + i < TotalFrames /\ base + i \in busy
  /\ UNCHANGED vars

ScanBusy ==
  /\ pc = "scan" /\ base < TotalFrames /\ ~WordFull(base)
  /\ \E i \in 0 .. (req.count - 1) :
       FreeFor(i) /\ base + i < TotalFrames /\ base + i \in busy
  /\ base' = base + req.step
  /\ UNCHANGED <<busy, used, low, pc, req, ret, dirty, history>>

(* Mutant: the bounds guard gives up one frame early.                      *)
ScanFailEarly ==
  /\ pc = "scan"
  /\ \/ base >= TotalFrames
     \/ /\ ~WordFull(base)
        /\ \E i \in 0 .. (req.count - 1) :
             FreeFor(i) /\ base + i >= TotalFrames - 1
  /\ ret' = 0
  /\ Return
  /\ UNCHANGED <<busy, used, low, dirty, history>>

ScanFail ==
  /\ pc = "scan"
  /\ \/ base >= TotalFrames
     \/ /\ ~WordFull(base)
        /\ \E i \in 0 .. (req.count - 1) :
             FreeFor(i) /\ base + i >= TotalFrames
  /\ ret' = 0
  /\ Return
  /\ UNCHANGED <<busy, used, low, dirty, history>>

(* Mutant: the frames are handed over as the last owner left them.         *)
ScanTakeUncleared ==
  /\ pc = "scan" /\ base < TotalFrames /\ ~WordFull(base)
  /\ FreeFor(req.count)
  /\ busy' = busy \cup Run(base, req.count)
  /\ used' = (used + req.count) % Wrap
  /\ ret' = base
  /\ held' = held \cup Run(base, req.count)
  /\ Return
  /\ UNCHANGED <<low, dirty, reserved, stray>>

(* Mutant: the last frame of the run is not marked.                        *)
ScanTakeShort ==
  /\ pc = "scan" /\ base < TotalFrames /\ ~WordFull(base)
  /\ FreeFor(req.count)
  /\ busy' = busy \cup Run(base, req.count - 1)
  /\ dirty' = dirty \ Run(base, req.count)
  /\ used' = (used + req.count) % Wrap
  /\ ret' = base
  /\ held' = held \cup Run(base, req.count)
  /\ Return
  /\ UNCHANGED <<low, reserved, stray>>

ScanTake ==
  /\ pc = "scan" /\ base < TotalFrames /\ ~WordFull(base)
  /\ FreeFor(req.count)
  /\ busy' = busy \cup Run(base, req.count)
  /\ dirty' = dirty \ Run(base, req.count)
  /\ used' = (used + req.count) % Wrap
  /\ ret' = base
  /\ held' = held \cup Run(base, req.count)
  /\ Return
  /\ UNCHANGED <<low, reserved, stray>>

Scan == ScanSkipWord \/ ScanBusy \/ ScanFail \/ ScanTake

-----------------------------------------------------------------------------
(* pmm_free_frames. A caller may pass any range; the history variables     *)
(* record whether it was one it held.                                      *)
Released(start, freed, count) ==
  /\ busy' = busy \ Run(start, freed)
  /\ held' = held \ Run(start, freed)
  /\ stray' = (stray \/ ~(Run(start, count) \subseteq held))
  /\ UNCHANGED <<used, low, req, base, ret, dirty, reserved>>

Free(start, count) ==
  /\ pc = "idle" /\ count # 0
  /\ start + count <= TotalFrames
  /\ Run(start, count) \subseteq busy
  /\ Released(start, count, count)
  /\ UNCHANGED pc

(* Mutant: the range test also refuses a run that ends at the last frame.  *)
FreeOutOfRangeStrict(start, count) ==
  /\ pc = "idle" /\ count # 0
  /\ start + count >= TotalFrames
  /\ Released(start, 0, count)
  /\ pc' = "panic"

FreeOutOfRange(start, count) ==
  /\ pc = "idle" /\ count # 0
  /\ start + count > TotalFrames
  /\ Released(start, 0, count)
  /\ pc' = "panic"

(* The bits before the first clear one are already cleared when the loop   *)
(* panics.                                                                 *)
FreeDouble(start, count) ==
  /\ pc = "idle" /\ count # 0
  /\ start + count <= TotalFrames
  /\ \E k \in Run(start, count) \ busy :
       /\ Run(start, k - start) \subseteq busy
       /\ Released(start, k - start, count)
  /\ pc' = "panic"

(* A caller writes to a frame it holds.                                    *)
Touch(f) ==
  /\ pc = "idle" /\ f \in held
  /\ dirty' = dirty \cup {f}
  /\ UNCHANGED <<busy, used, low, pc, req, base, ret, history>>

(* The panic handler halts the processor in a loop.                        *)
Halted == pc = "panic" /\ UNCHANGED vars

Next ==
  \/ AllocateZero
  \/ \E count \in Counts, alignment \in Alignments : AllocateBegin(count, alignment)
  \/ Scan
  \/ \E start \in 0 .. TotalFrames, count \in Counts :
       \/ Free(start, count)
       \/ FreeOutOfRange(start, count)
       \/ FreeDouble(start, count)
  \/ \E f \in held : Touch(f)
  \/ Halted

Spec == Init /\ [][Next]_vars

(* A call of the allocator runs to its end: nothing else runs meanwhile.   *)
FairSpec == Spec /\ WF_vars(Scan)
-----------------------------------------------------------------------------
(* PROPERTIES                                                              *)

TypeOK ==
  /\ busy \in SUBSET Bits /\ reserved \in SUBSET Bits
  /\ held \in SUBSET Frames /\ dirty \in SUBSET Frames
  /\ used \in Nat /\ used < Wrap
  /\ low \in BOOLEAN /\ stray \in BOOLEAN
  /\ pc \in {"idle", "scan", "panic"}
  /\ req \in [count : Nat, step : Nat \ {0}]
  /\ base \in Nat
  /\ ret \in Frames

(* As long as callers free only what they hold, the bitmap is exactly the  *)
(* boot-time reservations plus what callers hold: pmm_allocate_frames and  *)
(* pmm_free_frames lose no frame, hand out none twice, and never give away *)
(* frame 0, the address that means failure.                                *)
Accounting ==
  ~stray => /\ busy = reserved \cup held
            /\ reserved \cap held = {}
            /\ 0 \in reserved

(* pmm_free_frames panics (lines 113-122) only because of a caller that    *)
(* freed frames it did not hold, never on a correct sequence of calls.     *)
PanicOnlyOnStray == pc = "panic" => stray

(* What the main loop of pmm_allocate_frames has established when it looks *)
(* at base: base is aligned, and no aligned run of req.count free frames   *)
(* starts below it, although whole words were skipped unread.              *)
ScanCovers ==
  pc = "scan" =>
    /\ req.count \in Counts \ {0} /\ req.step \in Steps
    /\ base % req.step = 0
    /\ \A d \in 0 .. (base - 1) :
         d % req.step = 0 =>
           ~(d + req.count <= TotalFrames /\ Run(d, req.count) \cap busy = {})

(* No content crosses owners: whatever a previous owner wrote, a frame is  *)
(* all zero when pmm_allocate_frames returns it to the next one.           *)
NoStaleContent == [][(held' \ held) \cap dirty' = {}]_vars

(* The detailed scan implements the atomic first-fit allocator: it returns *)
(* the lowest aligned free run, and NULL exactly when there is none.       *)
FA == INSTANCE FrameAllocator WITH halted <- (pc = "panic")
ImplementsFirstFit == FA!Spec

(* Every call of pmm_allocate_frames returns.                              *)
AllocateReturns == (pc = "scan") ~> (pc = "idle")

(* The warning of lines 49-52 is about free memory: when it is logged,     *)
(* fewer than 6 percent of the frames are free.                            *)
WarningIsTrue ==
  [][(pc = "idle" /\ pc' = "scan" /\ low' /\ ~stray) =>
       (Cardinality(Frames \ busy) * 100) \div TotalFrames < 6]_vars
=============================================================================
