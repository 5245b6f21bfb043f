-------------------------------- MODULE Ahci --------------------------------
(***************************************************************************)
(* The AHCI driver (drivers/storage/ahci.c) for one port, and the          *)
(* controller behind it: initialisation of the controller and the port,    *)
(* then commands in slot 0, which the driver fires and polls for until the *)
(* controller clears the issue bit, reports an error, or time is up. A     *)
(* command that is given up stays issued.                                  *)
(*                                                                         *)
(* A frame holds one sector. The slot is header 0 and command table 0. The *)
(* descriptor list of a command is the sequence of its frames; how it is   *)
(* built from a buffer is in Prdt. All waits have the same time limit.     *)
(***************************************************************************)
EXTENDS Integers, Sequences, FiniteSets

CONSTANTS
  Frames,       (* Frames of RAM; frame 0 is the one that stands for NULL. *)
  UserFrames,   (* Frames of the caller's buffer, a sequence.              *)
  Tables,       (* Command tables: 32 in the code.                         *)
  Values,       (* What a sector can contain.                              *)
  Sectors,      (* Sectors of the disk.                                    *)
  Identities,   (* What disks answer to IDENTIFY DEVICE.                   *)
  Lba28, Lba48, (* Addresses of a command: 2^28, 2^48.                     *)
  Timeout       (* Milliseconds until a wait is given up.                  *)

ASSUME AhciAssumption ==
  /\ Frames \subseteq Nat /\ 0 \in Frames
  /\ Values # {}
  /\ {Tables, Sectors, Lba28, Lba48, Timeout} \subseteq Nat \ {0}

(* The pages of a buffer are in different frames, none of them frame 0.    *)
ASSUME BufferAssumption ==
  /\ UserFrames \in Seq(Frames \ {0})
  /\ \A i, j \in DOMAIN UserFrames : UserFrames[i] = UserFrames[j] => i = j

VARIABLES
  pc,           (* Where the driver or its caller is.                      *)
  elapsed,      (* Milliseconds of the current wait.                       *)
  bios,         (* The BIOS owns the controller.                           *)
  port,         (* Registers.                                              *)
  blind,        (* The control page has no virtual address.                *)
  slot,         (* The command in slot 0.                                  *)
  dev,          (* The command the controller executes, or NoCommand.      *)
  own,          (* Frame -> who has it.                                    *)
  ram, disk,    (* Frame -> value, sector -> value.                        *)
  identity,     (* The disk's answer to IDENTIFY DEVICE.                   *)
  drive,        (* What is registered with the block layer, or NoDrive.    *)
  call,         (* The running call of the block layer.                    *)
  ret,          (* What it returns.                                        *)
  orphan        (* History: a command has been given up and is not         *)
                (* finished.                                               *)

device == <<bios, dev, disk, identity>>
vars == <<pc, elapsed, port, blind, slot, own, ram, drive, call, ret, orphan, device>>

Blank == CHOOSE v \in Values : TRUE
NoCommand == [op |-> "none", lba |-> 0, count |-> 0, frames |-> <<>>, done |-> 0]
NoDrive == [total |-> 0, lba48 |-> FALSE, flush |-> FALSE]
NoCall == [op |-> "none", lba |-> 0, count |-> 0, frames |-> <<>>, odd |-> FALSE, tainted |-> FALSE]

Init ==
  /\ pc = "probe" /\ elapsed = 0 /\ bios \in BOOLEAN /\ blind = FALSE
  /\ port = [reset |-> FALSE, st |-> FALSE, cr |-> FALSE, fre |-> FALSE, fr |-> FALSE,
             ci |-> FALSE, err |-> FALSE, base |-> -1]
  /\ slot = NoCommand /\ dev = NoCommand /\ drive = NoDrive /\ call = NoCall /\ ret = 0
  /\ \E used \in {0} \cup Frames :
       own = [f \in Frames |-> IF \E i \in DOMAIN UserFrames : UserFrames[i] = f THEN "user"
                               ELSE IF f <= used THEN "boot" ELSE "free"]
  /\ ram = [f \in Frames |-> Blank] /\ disk = [s \in 0 .. (Sectors - 1) |-> Blank]
  /\ identity \in Identities /\ orphan = FALSE

Free == {f \in Frames : own[f] = "free"}

(* The frames pmm_allocate_frames(1) can return: the first free one.       *)
FirstFree == {f \in Free : \A g \in Free : f <= g}

-----------------------------------------------------------------------------
(* Waiting.                                                                *)

(* What the driver waits for at pc.                                        *)
Met ==
  \/ pc = "reset" /\ ~port.reset
  \/ pc = "stop" /\ ~port.cr
  \/ pc = "fisoff" /\ ~port.fr
  \/ pc = "fison" /\ port.fr
  \/ pc = "start" /\ port.cr
  \/ pc \in {"identify", "poll"} /\ ~port.ci

Polling == pc \in {"identify", "poll"}
Waiting == pc \in {"reset", "stop", "fisoff", "fison", "start"} \/ Polling

WaitFor(p) == pc' = p /\ elapsed' = 0
Leave(p) == pc' = p /\ elapsed' = 0

(* Mutant: one sleep after the limit.                                      *)
SleepPast ==
  /\ Waiting /\ ~Met /\ elapsed <= Timeout
  /\ Polling => ~port.err
  /\ elapsed' = elapsed + 1
  /\ UNCHANGED <<pc, port, blind, slot, own, ram, drive, call, ret, orphan, device>>

Sleep ==
  /\ Waiting /\ ~Met /\ elapsed < Timeout
  /\ Polling => ~port.err
  /\ elapsed' = elapsed + 1
  /\ UNCHANGED <<pc, port, blind, slot, own, ram, drive, call, ret, orphan, device>>

(* Every failure of ahci_init_port: the control page is freed if there is  *)
(* one, the command tables are not, and the controller is left as it is.   *)
Abandoned == [f \in Frames |->
  IF f = port.base THEN "free" ELSE IF own[f] = "table" THEN "lost" ELSE own[f]]

(* Mutant: the error of a command is not reported.                         *)
FailsSilently ==
  /\ elapsed' = 0
  /\ IF pc = "poll"
       THEN pc' = "return" /\ ret' = 0 /\ UNCHANGED own
       ELSE pc' = "idle" /\ own' = Abandoned /\ UNCHANGED ret

Fails ==
  /\ elapsed' = 0
  /\ IF pc = "poll"
       THEN pc' = "return" /\ ret' = -5 /\ UNCHANGED own
       ELSE pc' = "idle" /\ own' = Abandoned /\ UNCHANGED ret

(* Mutant: commands are waited for without a limit.                        *)
TimedOutInit ==
  /\ Waiting /\ ~Met /\ elapsed >= Timeout /\ pc # "poll"
  /\ Fails
  /\ orphan' = (orphan \/ Polling)
  /\ UNCHANGED <<port, blind, slot, ram, drive, call, device>>

TimedOut ==
  /\ Waiting /\ ~Met /\ elapsed >= Timeout
  /\ Fails
  /\ orphan' = (orphan \/ Polling)
  /\ UNCHANGED <<port, blind, slot, ram, drive, call, device>>

Rejected ==
  /\ Polling /\ ~Met /\ elapsed < Timeout /\ port.err
  /\ Fails
  /\ UNCHANGED <<port, blind, slot, ram, drive, call, orphan, device>>

-----------------------------------------------------------------------------
(* ahci_init_device and ahci_init_port.                                    *)

Driver == <<ram, call, ret, orphan, device>>

(* The registers are mapped, unless the result NULL is used.               *)
Probe ==
  /\ pc = "probe"
  /\ pc' \in {"bios", "halted"}
  /\ UNCHANGED <<elapsed, port, blind, slot, own, drive, Driver>>

(* The wait for the BIOS has no limit.                                     *)
BiosDone ==
  /\ pc = "bios" /\ ~bios
  /\ port' = [port EXCEPT !.reset = TRUE]
  /\ WaitFor("reset")
  /\ UNCHANGED <<blind, slot, own, drive, Driver>>

(* The port is skipped if no device is connected.                          *)
ResetDone ==
  /\ pc = "reset" /\ Met
  /\ \/ WaitFor("stop") /\ port' = [port EXCEPT !.st = FALSE]
     \/ Leave("idle") /\ UNCHANGED port
  /\ UNCHANGED <<blind, slot, own, drive, Driver>>

StopDone ==
  /\ pc = "stop" /\ Met
  /\ port' = [port EXCEPT !.fre = FALSE]
  /\ WaitFor("fisoff")
  /\ UNCHANGED <<blind, slot, own, drive, Driver>>

(* kallocate_dma of the control page. Its failure is logged and the driver *)
(* goes on, without a frame or without a virtual address.                  *)
FisOffDone ==
  /\ pc = "fisoff" /\ Met
  /\ \/ /\ Free = {} /\ blind' = TRUE
        /\ port' = [port EXCEPT !.fre = TRUE, !.base = 0]
        /\ UNCHANGED own
     \/ \E f \in FirstFree :
          /\ blind' \in BOOLEAN
          /\ port' = [port EXCEPT !.fre = TRUE, !.base = f]
          /\ own' = [own EXCEPT ![f] = "control"]
  /\ WaitFor("fison")
  /\ UNCHANGED <<slot, drive, Driver>>

(* The signature is that of a disk, or not.                                *)
FisOnDone ==
  /\ pc = "fison" /\ Met
  /\ \/ /\ port' = [port EXCEPT !.st = TRUE]
        /\ WaitFor("start")
        /\ UNCHANGED own
     \/ Leave("idle") /\ own' = Abandoned /\ UNCHANGED port
  /\ UNCHANGED <<blind, slot, drive, Driver>>

(* kmalloc of the driver data. If it fails the control page is freed, and  *)
(* NULL is written to soon after.                                          *)
StartDone ==
  /\ pc = "start" /\ Met
  /\ \/ Leave("tables") /\ UNCHANGED own
     \/ Leave("halted") /\ own' = Abandoned
  /\ UNCHANGED <<port, blind, slot, drive, Driver>>

HasTables == Cardinality({f \in Frames : own[f] = "table"}) = Tables

AllocTable ==
  /\ pc = "tables" /\ ~HasTables
  /\ \/ \E f \in FirstFree : own' = [own EXCEPT ![f] = "table"] /\ UNCHANGED pc
     \/ /\ pc' = "idle"
        /\ \/ Free = {} /\ own' = Abandoned
           \/ \E f \in FirstFree : own' = [Abandoned EXCEPT ![f] = "lost"]
  /\ UNCHANGED <<elapsed, port, blind, slot, drive, Driver>>

(* The command headers are written, then IDENTIFY DEVICE is fired.         *)
Identify ==
  /\ pc = "tables" /\ HasTables
  /\ IF blind
       THEN pc' = "halted" /\ UNCHANGED <<elapsed, port, slot>>
       ELSE /\ slot' = [NoCommand EXCEPT !.op = "identify", !.count = 1, !.frames = <<port.base>>]
            /\ port' = [port EXCEPT !.ci = TRUE]
            /\ WaitFor("identify")
  /\ UNCHANGED <<blind, own, drive, Driver>>

(* The 48-bit sector count is used if the disk has it and it is not 0.     *)
TotalSectors(id) == IF id.lba48 /\ id.sectors48 > 0 THEN id.sectors48 ELSE id.sectors28

(* The disk reports at least one sector, and none that it does not have.   *)
ASSUME IdentityAssumption ==
  \A id \in Identities : {id.lba48, id.cache} \subseteq BOOLEAN /\ TotalSectors(id) \in 1 .. Sectors

ParseIdentity(id) == [total |-> TotalSectors(id), lba48 |-> id.lba48, flush |-> id.cache]

(* The drive is registered, unless kmalloc returned NULL.                  *)
IdentifyDone ==
  /\ pc = "identify" /\ Met
  /\ \/ Leave("idle") /\ drive' = ParseIdentity(identity)
     \/ Leave("halted") /\ UNCHANGED drive
  /\ UNCHANGED <<port, blind, slot, own, Driver>>

-----------------------------------------------------------------------------
(* ahci_read, ahci_write and ahci_flush.                                   *)

Registered == drive # NoDrive
Setup == <<blind, own, ram, drive, orphan, device>>

(* The command table is cleared, even if a command that was given up is    *)
(* still issued.                                                           *)
Clear ==
  /\ pc = "clear" /\ pc' = "fill"
  /\ slot' = NoCommand
  /\ call' = [call EXCEPT !.tainted = port.ci]
  /\ UNCHANGED <<elapsed, port, ret, Setup>>

FisLba == call.lba % (IF drive.lba48 THEN Lba48 ELSE Lba28)

(* Mutant: the last descriptor is not written.                             *)
TransferNoTail ==
  [op |-> call.op, lba |-> FisLba, count |-> call.count, done |-> 0,
   frames |-> IF call.count > 1 THEN SubSeq(call.frames, 1, call.count - 1) ELSE call.frames]

(* The header, the descriptors and the FIS of a read or a write.           *)
Transfer == [op |-> call.op, lba |-> FisLba, count |-> call.count, frames |-> call.frames, done |-> 0]

Prepare(command) ==
  /\ pc = "fill" /\ pc' = "fire"
  /\ slot' = command
  /\ UNCHANGED <<elapsed, port, call, ret, Setup>>

FillRead == call.op = "read" /\ Prepare(Transfer)
FillWrite == call.op = "write" /\ Prepare(Transfer)

(* A flush has neither descriptors nor an address.                         *)
FillFlush == call.op = "flush" /\ Prepare([NoCommand EXCEPT !.op = "flush"])

Fire ==
  /\ pc = "fire"
  /\ port' = [port EXCEPT !.ci = TRUE]
  /\ WaitFor("poll")
  /\ UNCHANGED <<slot, call, ret, Setup>>

PollDone ==
  /\ pc = "poll" /\ Met
  /\ Leave("return") /\ ret' = 0
  /\ UNCHANGED <<port, slot, call, Setup>>

DriverStep ==
  \/ Sleep \/ TimedOut \/ Rejected
  \/ Probe \/ BiosDone \/ ResetDone \/ StopDone \/ FisOffDone \/ FisOnDone \/ StartDone
  \/ AllocTable \/ Identify \/ IdentifyDone
  \/ Clear \/ FillRead \/ FillWrite \/ FillFlush \/ Fire \/ PollDone

-----------------------------------------------------------------------------
(* The controller and the firmware. Any of these steps may never happen.   *)

Kernel == <<pc, elapsed, blind, slot, own, drive, call, ret, identity>>

BiosRelease ==
  /\ bios /\ bios' = FALSE
  /\ UNCHANGED <<Kernel, port, dev, ram, disk, orphan>>

(* After a reset the engines may still be running down.                    *)
DevReset ==
  /\ port.reset
  /\ \E cr, fr \in BOOLEAN : port' = [port EXCEPT !.reset = FALSE, !.cr = cr, !.fr = fr]
  /\ UNCHANGED <<Kernel, bios, dev, ram, disk, orphan>>

DevEngine ==
  /\ ~port.reset
  /\ port' \in {[port EXCEPT !.cr = port.st], [port EXCEPT !.fr = port.fre]} \ {port}
  /\ UNCHANGED <<Kernel, bios, dev, ram, disk, orphan>>

DevFetch ==
  /\ port.cr /\ port.ci /\ ~port.err /\ dev = NoCommand
  /\ dev' = slot
  /\ UNCHANGED <<Kernel, bios, port, ram, disk, orphan>>

Executable == dev.op \in {"identify", "flush"} \/ (dev.op \in {"read", "write"} /\ dev.lba + dev.count <= Sectors)

DevTransfer ==
  /\ Executable /\ dev.done < Len(dev.frames)
  /\ dev' = [dev EXCEPT !.done = @ + 1]
  /\ LET f == dev.frames[dev.done + 1]
         s == dev.lba + dev.done
     IN  CASE dev.op = "read" -> ram' = [ram EXCEPT ![f] = disk[s]] /\ UNCHANGED disk
           [] dev.op = "write" -> disk' = [disk EXCEPT ![s] = ram[f]] /\ UNCHANGED ram
           [] OTHER -> UNCHANGED <<ram, disk>>
  /\ UNCHANGED <<Kernel, bios, port, orphan>>

DevFinish ==
  /\ Executable /\ dev.done = Len(dev.frames)
  /\ dev' = NoCommand /\ port' = [port EXCEPT !.ci = FALSE] /\ orphan' = FALSE
  /\ UNCHANGED <<Kernel, bios, ram, disk>>

(* An error leaves the command issued. Nothing clears it.                  *)
DevReject ==
  /\ port.cr /\ port.ci /\ ~port.err
  /\ dev' = NoCommand /\ port' = [port EXCEPT !.err = TRUE]
  /\ UNCHANGED <<Kernel, bios, ram, disk, orphan>>

DeviceStep == BiosRelease \/ DevReset \/ DevEngine \/ DevFetch \/ DevTransfer \/ DevFinish \/ DevReject
=============================================================================
