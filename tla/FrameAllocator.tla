--------------------------- MODULE FrameAllocator ---------------------------
(***************************************************************************)
(* What the physical memory manager promises to its callers, without the   *)
(* bitmap scan: an allocation atomically takes the LOWEST aligned run of   *)
(* free frames and fails only when there is none; a free returns a range;  *)
(* a free of something that is not in use stops the kernel.                *)
(* Module Pmm, the translation of pmm.c, is shown to implement it.         *)
(***************************************************************************)
EXTENDS Integers

CONSTANTS
  TotalFrames,  (* Number of frames the allocator manages.                 *)
  Counts,       (* Frame counts callers ask for.                           *)
  Steps         (* Alignments callers ask for, in frames.                  *)

VARIABLES
  busy,         (* Frames in use.                                          *)
  req,          (* The allocation that is asked for, NoRequest if none is. *)
  ret,          (* Frame returned by the last allocation, 0 is NULL.       *)
  halted        (* The kernel has stopped in PANIC.                        *)

vars == <<busy, req, ret, halted>>

NoRequest == [count |-> 0, step |-> 1]

Run(b, c) == b .. (b + c - 1)

FreeRun(b, c) ==
  /\ b + c <= TotalFrames
  /\ Run(b, c) \cap busy = {}

Aligned(b, s) == b % s = 0

(* b is the lowest aligned start of c free frames.                         *)
FirstFit(b, c, s) ==
  /\ Aligned(b, s) /\ FreeRun(b, c)
  /\ \A d \in 0 .. (b - 1) : Aligned(d, s) => ~FreeRun(d, c)

Init ==
  /\ 0 \in busy
  /\ req = NoRequest
  /\ ret = 0
  /\ halted = FALSE

AllocZero ==
  /\ req = NoRequest
  /\ ret' = 0
  /\ UNCHANGED <<busy, req, halted>>

Call(c, s) ==
  /\ req = NoRequest
  /\ req' = [count |-> c, step |-> s]
  /\ UNCHANGED <<busy, ret, halted>>

Alloc(b) ==
  /\ req # NoRequest
  /\ FirstFit(b, req.count, req.step)
  /\ busy' = busy \cup Run(b, req.count)
  /\ ret' = b
  /\ req' = NoRequest
  /\ UNCHANGED halted

AllocFail ==
  /\ req # NoRequest
  /\ \A d \in 0 .. TotalFrames : Aligned(d, req.step) => ~FreeRun(d, req.count)
  /\ ret' = 0
  /\ req' = NoRequest
  /\ UNCHANGED <<busy, halted>>

Free(b, c) ==
  /\ req = NoRequest
  /\ Run(b, c) \subseteq busy
  /\ b + c <= TotalFrames
  /\ busy' = busy \ Run(b, c)
  /\ UNCHANGED <<req, ret, halted>>

(* A bad free: out of range, or frame k is the first one not in use.       *)
BadFree(b, c) ==
  /\ req = NoRequest
  /\ \/ /\ b + c > TotalFrames
        /\ busy' = busy
     \/ \E k \in Run(b, c) \ busy :
          /\ Run(b, k - b) \subseteq busy
          /\ busy' = busy \ Run(b, k - b)
  /\ halted' = TRUE
  /\ UNCHANGED <<req, ret>>

Next ==
  /\ ~halted
  /\ \/ AllocZero
     \/ \E c \in Counts \ {0}, s \in Steps : Call(c, s)
     \/ AllocFail
     \/ \E b \in 0 .. (TotalFrames - 1) : Alloc(b)
     \/ \E c \in Counts \ {0}, b \in 0 .. TotalFrames : Free(b, c) \/ BadFree(b, c)

Spec == Init /\ [][Next]_vars
=============================================================================
