--------------------------------- MODULE Lbd ---------------------------------
(***************************************************************************)
(* The logical block device layer (drivers/block/lbd.c) over the AHCI      *)
(* driver: checks a request, pins the caller's buffer, and hands it to the *)
(* driver, through a bounce buffer if its address is odd.                  *)
(***************************************************************************)
EXTENDS Ahci

CONSTANTS
  Lbas, Counts,   (* What callers ask for.                                 *)
  MaxTransfer,    (* max_sectors_per_transfer: 128.                        *)
  Wrap            (* 2^64: lba + count is computed modulo it.              *)

(* Callers ask for no more sectors than their buffer has room for.         *)
ASSUME RequestAssumption ==
  /\ Lbas \subseteq Nat /\ Counts \subseteq 0 .. Len(UserFrames)
  /\ Wrap \in Nat \ {0}

-----------------------------------------------------------------------------
(* Requests.                                                               *)

Resting == <<elapsed, port, blind, slot, drive, orphan, device>>

(* Mutant: a request may end one sector past the last.                     *)
WithinDrivePast(lba, count) == (lba + count) % Wrap <= drive.total + 1

(* The last sector is never within the drive.                              *)
WithinDrive(lba, count) == (lba + count) % Wrap < drive.total

Valid(lba, count) == Registered /\ count <= MaxTransfer /\ WithinDrive(lba, count)

(* The sum of a request does not exceed the width of its type.             *)
Fits(lba, count) == lba + count < Wrap

(* -EINVAL for an invalid request or a buffer that cannot be pinned, which *)
(* an empty one never can; -EPERM if there is no cache to flush.           *)
Refuse ==
  /\ pc = "idle" /\ ret' \in {-22, -1}
  /\ ret' = -1 => Registered /\ ~drive.flush
  /\ pc' = "return"
  /\ UNCHANGED <<own, ram, call, Resting>>

FramesIn(s) == {s[i] : i \in DOMAIN s}

(* Any data in the frames of a set.                                        *)
AnyData(to) == {[f \in Frames |-> IF f \in to THEN data[f] ELSE ram[f]] : data \in [to -> Values]}

(* The caller fills the buffer it asks to have written.                    *)
Filled(op) == IF op = "write" THEN AnyData(FramesIn(UserFrames)) ELSE {ram}

(* memcpy reads from an address that was never assigned.                   *)
Copied(to) == AnyData(to)

Request(op, lba, count, frames, odd) ==
  call' = [op |-> op, lba |-> lba, count |-> count, frames |-> frames, odd |-> odd, tainted |-> FALSE]

Direct(op, lba, count) ==
  /\ pc = "idle" /\ Valid(lba, count) /\ count > 0
  /\ Request(op, lba, count, SubSeq(UserFrames, 1, count), FALSE)
  /\ ram' \in Filled(op)
  /\ pc' = "clear"
  /\ UNCHANGED <<own, ret, Resting>>

(* The frames of a scattered buffer, each the first that is free.          *)
Scattered(count) == {frames \in [1 .. count -> Free] :
  \A i \in 1 .. count : \A f \in Free : f < frames[i] <=> \E j \in 1 .. (i - 1) : frames[j] = f}

(* Mutant: the scattered pages are given to the driver and freed at once.  *)
BounceEarly(op, lba, count) ==
  /\ pc = "idle" /\ Valid(lba, count) /\ count > 0
  /\ \E frames \in Scattered(count) :
       /\ Request(op, lba, count, frames, TRUE)
  /\ pc' = "clear"
  /\ UNCHANGED <<own, ram, ret, Resting>>

(* The contents of the caller's buffer do not matter: memcpy does not read *)
(* them.                                                                   *)
Bounce(op, lba, count) ==
  /\ pc = "idle" /\ Valid(lba, count) /\ count > 0
  /\ \E frames \in Scattered(count) :
       /\ Request(op, lba, count, frames, TRUE)
       /\ own' = [f \in Frames |-> IF f \in FramesIn(frames) THEN "bounce" ELSE own[f]]
       /\ ram' \in IF op = "write" THEN Copied(FramesIn(frames)) ELSE {ram}
  /\ pc' = "clear"
  /\ UNCHANGED <<ret, Resting>>

(* -ENOMEM: kallocate_scatter_dma loses the frames it got before it failed.*)
BounceFails(lba, count) ==
  /\ pc = "idle" /\ Valid(lba, count) /\ count > 0
  /\ own' \in {own} \cup
       IF Cardinality(Free) < count
         THEN {[f \in Frames |-> IF own[f] = "free" THEN "lost" ELSE own[f]]} ELSE {}
  /\ ret' = -12 /\ pc' = "return"
  /\ UNCHANGED <<ram, call, Resting>>

Flush ==
  /\ pc = "idle" /\ Registered /\ drive.flush
  /\ Request("flush", 0, 0, <<>>, FALSE)
  /\ pc' = "clear"
  /\ UNCHANGED <<own, ram, ret, Resting>>

lbd_read(lba, count) == Direct("read", lba, count) \/ Bounce("read", lba, count) \/ BounceFails(lba, count)
lbd_write(lba, count) == Direct("write", lba, count) \/ Bounce("write", lba, count) \/ BounceFails(lba, count)
lbd_flush == Flush

(* Mutant: the bounce buffer is freed only after a success.                *)
LbdReturnKeep ==
  /\ pc = "return" /\ pc' = "idle"
  /\ call' = NoCall /\ ret' = 0
  /\ own' = [f \in Frames |-> IF own[f] = "bounce" /\ ret = 0 THEN "free" ELSE own[f]]
  /\ ram' \in IF call.odd /\ call.op = "read" /\ ret = 0
                THEN Copied(FramesIn(SubSeq(UserFrames, 1, call.count))) ELSE {ram}
  /\ UNCHANGED Resting

(* The driver has returned: a bounce buffer is copied after a successful   *)
(* read and freed in any case.                                             *)
LbdReturn ==
  /\ pc = "return" /\ pc' = "idle"
  /\ call' = NoCall /\ ret' = 0
  /\ own' = [f \in Frames |-> IF own[f] = "bounce" THEN "free" ELSE own[f]]
  /\ ram' \in IF call.odd /\ call.op = "read" /\ ret = 0
                THEN Copied(FramesIn(SubSeq(UserFrames, 1, call.count))) ELSE {ram}
  /\ UNCHANGED Resting

Caller == Refuse \/ lbd_flush \/ \E lba \in Lbas, count \in Counts : lbd_read(lba, count) \/ lbd_write(lba, count)

Next == DriverStep \/ DeviceStep \/ Caller \/ LbdReturn

(* The driver and the layer above it run until they return. Nothing is     *)
(* assumed of the controller or of the caller.                             *)
Spec == Init /\ [][Next]_vars /\ WF_vars(DriverStep \/ LbdReturn)

-----------------------------------------------------------------------------
(* Properties.                                                             *)

Owners == {"boot", "user", "free", "control", "table", "bounce", "lost"}
Ops == {"none", "identify", "read", "write", "flush"}

(* The registers, the command and the owners of frames have their types.   *)
TypeOK ==
  /\ own \in [Frames -> Owners] /\ ram \in [Frames -> Values] /\ disk \in [0 .. (Sectors - 1) -> Values]
  /\ {slot.op, dev.op, call.op} \subseteq Ops /\ port.base \in Frames \cup {-1}
  /\ elapsed \in 0 .. Timeout /\ ret \in {0, -1, -5, -12, -22}

(* The memory of a command and the sectors it names hold the same data.    *)
Agree(m, d, frames, lba) == \A i \in DOMAIN frames : m[frames[i]] = d[lba + i - 1]

(* ahci_read and ahci_write return 0 only if the controller has moved all  *)
(* the sectors of this call between the disk and its buffer, unless the    *)
(* slot was still issued to a command given up before. An error that the   *)
(* controller reports is therefore never taken for a success, whenever it  *)
(* comes.                                                                  *)
SuccessIsExecuted ==
  pc = "return" /\ ret = 0 /\ ~call.tainted => Agree(ram, disk, call.frames, FisLba)

(* The controller executes a command only while its call is waiting for    *)
(* it, in memory that the call has from its caller or as a bounce buffer,  *)
(* unless the driver has given up a command that is not finished. It is    *)
(* asked for sectors the disk has only, if the sum of the request did not  *)
(* overflow.                                                               *)
DeviceWithinCall ==
  /\ dev # NoCommand /\ ~orphan =>
       /\ Polling /\ [dev EXCEPT !.done = 0] = slot
       /\ pc = "poll" => \A f \in FramesIn(dev.frames) : own[f] \in {"user", "bounce"}
       /\ pc = "identify" => \A f \in FramesIn(dev.frames) : own[f] = "control"
  /\ pc \in {"fire", "poll"} /\ slot.op # "flush" /\ Fits(call.lba, call.count) =>
       slot.lba + slot.count <= Sectors

(* A registered port has its control page, in the frame the controller     *)
(* uses, and all its command tables. A failed initialisation keeps no      *)
(* control page, and frame 0 is only given away by one. Between calls no   *)
(* bounce buffer is kept.                                                  *)
MemoryAccounted ==
  /\ TypeOK
  /\ Registered => own[port.base] = "control" /\ HasTables /\ own[0] = "boot"
  /\ pc = "idle" /\ ~Registered => \A f \in Frames : own[f] # "control"
  /\ pc = "idle" => \A f \in Frames : own[f] # "bounce"

(* Initialisation and every call return, or the machine has halted,        *)
(* whatever the controller does, except that the BIOS may keep the         *)
(* controller for ever: that wait alone has no limit.                      *)
EveryCallReturns == pc \notin {"idle", "halted"} ~> (pc \in {"idle", "halted"} \/ bios)

-----------------------------------------------------------------------------
(* What the comments of the code say and the code does not do.             *)

(* "Check if the lba + count goes past the sector count" (lbd.c:40): a     *)
(* request for sectors the disk has passes the check.                      *)
LastSectorAllowed ==
  Registered => \A lba \in Lbas, count \in Counts :
    lba + count <= drive.total /\ count > 0 => WithinDrive(lba, count)

(* The same comment: one that goes past the sector count does not.         *)
PastEndRefused == call.op \in {"read", "write"} => call.lba + call.count <= drive.total

(* "Copies memory from the source buffer to the destination bufer"         *)
(* (stdstr.c): a read that returns 0 delivers the sectors.                 *)
ReadDelivers ==
  [][pc = "return" /\ pc' = "idle" /\ call.op = "read" /\ ret = 0 /\ ~call.tainted =>
       Agree(ram', disk, SubSeq(UserFrames, 1, call.count), FisLba)]_vars

(* The driver returns 0 only for commands that were executed, after a      *)
(* timeout too.                                                            *)
AlwaysExecuted == pc = "return" /\ ret = 0 => Agree(ram, disk, call.frames, FisLba)

(* "Cleaning up and exiting" (ahci.c:449): a port that is given up no      *)
(* longer uses the memory that is given back.                              *)
StoppedBeforeFree == port.fr /\ port.base \in Frames => own[port.base] = "control"
=============================================================================
