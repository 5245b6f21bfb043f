---------------------------- MODULE KmallocSizes ----------------------------
(***************************************************************************)
(* The arithmetic of the kernel heap (memory/kmalloc.c): the bucket that   *)
(* serves a request, the layout of a bucket's pages, and the rounding of   *)
(* requests that are too large for a bucket.                               *)
(***************************************************************************)
EXTENDS Integers

CONSTANTS
  MinShift,     (* SMALL_BUCKET_AGGREGATES: the first bucket is 2^4 bytes. *)
  BucketCount,  (* 7                                                       *)
  PageBytes,    (* 4096                                                    *)
  HeaderBytes,  (* sizeof(kmalloc_page_descriptor_t): 32                   *)
  WordRange     (* Values of a size_t: 2^64 in the code.                   *)

ASSUME SizesAssumption ==
  /\ {MinShift, BucketCount, PageBytes, HeaderBytes, WordRange} \subseteq Nat \ {0}
  /\ 2^(MinShift + BucketCount) <= PageBytes
  /\ 2 * HeaderBytes <= PageBytes /\ PageBytes <= WordRange

Buckets == 0 .. (BucketCount - 1)
bucket_size(b) == 2^(MinShift + b)
Largest == bucket_size(BucketCount - 1)

(* The flag 255: the request is for whole pages.                           *)
Whole == 255

(* 64 - clz(size) and ctz(size), for a size of a bucket.                   *)
Exponents == 0 .. (MinShift + BucketCount)
BitLength(size) == CHOOSE e \in Exponents : 2^e > size /\ \A d \in Exponents : 2^d > size => e <= d
TrailingZeros(size) ==
  CHOOSE e \in Exponents : size % 2^e = 0 /\ \A d \in Exponents : size % 2^d = 0 => d <= e

(* Mutant: a power of two goes to the bucket above its own.                *)
get_bucket_rounding_up(size) ==
  IF size > Largest THEN Whole
  ELSE IF size < 2^MinShift THEN 0
  ELSE BitLength(size) - MinShift

get_bucket_from_size(size) ==
  IF size > Largest THEN Whole
  ELSE IF size < 2^MinShift THEN 0
  ELSE IF TrailingZeros(size) + 1 = BitLength(size) THEN TrailingZeros(size) - MinShift
  ELSE BitLength(size) - MinShift

(* Mutant: the first block starts where the descriptor may still be.       *)
FirstBlockBare(b) == bucket_size(b)

(* Offset of a page's first block, and the number of its blocks.           *)
FirstBlock(b) == IF bucket_size(b) > HeaderBytes THEN bucket_size(b) ELSE HeaderBytes

(* Mutant: the descriptor is not accounted for.                            *)
total_blocks_headless(b) == PageBytes \div bucket_size(b)

total_blocks(b) == (PageBytes - FirstBlock(b)) \div bucket_size(b)
Blocks(b) == {FirstBlock(b) + i * bucket_size(b) : i \in 0 .. (total_blocks(b) - 1)}

(* The size that kmalloc asks the VMA for.                                 *)
rounded_size(size) ==
  IF size % PageBytes = 0 THEN size
  ELSE (size + (PageBytes - (size % PageBytes))) % WordRange
=============================================================================
