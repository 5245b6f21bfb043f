-------------------------------- MODULE Prdt --------------------------------
(***************************************************************************)
(* The region table of a disk command: how ahci_read and ahci_write        *)
(* (drivers/storage/ahci.c) cut a buffer, contiguous only in virtual       *)
(* memory, into physically contiguous chunks. The pages are small ones;    *)
(* the translation of huge ones is a matter of Vmm.                        *)
(***************************************************************************)
EXTENDS Integers, Sequences, SequencesExt

CONSTANTS
  PageSize,     (* Bytes of a page, 0x1000.                                *)
  DbcRange      (* Values of the byte count field, which has 22 bits.      *)

ASSUME PrdtAssumption == {PageSize, DbcRange} \subseteq Nat \ {0}

(* A buffer is the frames of its pages and its offset in the first one.    *)
Physical(frames, vaddr) == frames[(vaddr \div PageSize) + 1] * PageSize + (vaddr % PageSize)

LeastOf(a, b) == IF a < b THEN a ELSE b

(* An entry as the device reads it: the count is stored minus one.         *)
Entry(start, bytes) == [dba |-> start, dbc |-> (bytes - 1) % DbcRange]

NoChunk == [start |-> 0, bytes |-> 0, end |-> 0]

(* Mutant: a chunk goes on at any later address.                           *)
MustFlushBackwards(chunk, paddr) == chunk.bytes = 0 \/ paddr < chunk.end

(* Mutant: every page starts a chunk.                                      *)
MustFlushAlways(chunk, paddr) == TRUE

MustFlush(chunk, paddr) == chunk.bytes = 0 \/ paddr # chunk.end

Flushed(table, chunk) ==
  IF chunk.bytes > 0 THEN Append(table, Entry(chunk.start, chunk.bytes)) ELSE table

(* The loop over the buffer, and the entry of the trailing chunk.          *)
RECURSIVE Build(_, _, _, _, _)
Build(frames, vaddr, remaining, chunk, table) ==
  IF remaining = 0 THEN Flushed(table, chunk)
  ELSE
    LET step  == LeastOf(PageSize - (vaddr % PageSize), remaining)
        paddr == Physical(frames, vaddr)
        flush == MustFlush(chunk, paddr)
        next  == [start |-> IF flush THEN paddr ELSE chunk.start,
                  bytes |-> (IF flush THEN 0 ELSE chunk.bytes) + step,
                  end   |-> paddr + step]
    IN  Build(frames, vaddr + step, remaining - step, next,
              IF flush THEN Flushed(table, chunk) ELSE table)

Table(frames, offset, bytes) == Build(frames, offset, bytes, NoChunk, <<>>)

(* What the device makes of a table: the addresses that it transfers.      *)
Transferred(table) ==
  FlattenSeq([i \in 1 .. Len(table) |-> [b \in 1 .. (table[i].dbc + 1) |-> table[i].dba + b - 1]])
=============================================================================
