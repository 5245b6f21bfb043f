------------------------------ MODULE LbdProofs ------------------------------
(***************************************************************************)
(* Proofs about the block layer over the AHCI driver, for any memory, disk *)
(* and requests: the memory of the driver is accounted for, the controller *)
(* stays within the running call, and a call that returns 0 was executed.  *)
(***************************************************************************)
EXTENDS Lbd, SequenceTheorems, TLAPS

-----------------------------------------------------------------------------
(* The inductive invariant.                                                *)

(* The driver before it has a control page, while it has one and the drive *)
(* is not registered, and in a command.                                    *)
Starting == {"probe", "bios", "reset", "stop", "fisoff"}
Building == {"fison", "start", "tables", "identify"}
Calling == {"clear", "fill", "fire", "poll"}

Ports == [reset : BOOLEAN, st : BOOLEAN, cr : BOOLEAN, fre : BOOLEAN, fr : BOOLEAN,
          ci : BOOLEAN, err : BOOLEAN, base : Frames \cup {-1}]
Commands == [op : Ops, lba : Nat, count : Nat, frames : Seq(Frames), done : Nat]
Calls == [op : {"none", "read", "write", "flush"}, lba : Nat, count : Nat, frames : Seq(Frames),
          odd : BOOLEAN, tainted : BOOLEAN]
Drives == [total : 0 .. Sectors, lba48 : BOOLEAN, flush : BOOLEAN]

(* Every variable has its type.                                            *)
Shapes ==
  /\ pc \in Starting \cup Building \cup Calling \cup {"idle", "halted", "return"}
  /\ elapsed \in 0 .. Timeout /\ ret \in {0, -1, -5, -12, -22}
  /\ bios \in BOOLEAN /\ blind \in BOOLEAN /\ orphan \in BOOLEAN /\ identity \in Identities
  /\ port \in Ports /\ slot \in Commands /\ dev \in Commands /\ call \in Calls /\ drive \in Drives
  /\ own \in [Frames -> Owners] /\ ram \in [Frames -> Values] /\ disk \in [0 .. (Sectors - 1) -> Values]

(* The request of a running call passed the check, and its buffer is in    *)
(* frames of its own.                                                      *)
CallAccepted ==
  /\ pc \in Calling => call.op # "none"
  /\ pc \notin Calling \cup {"return"} => call = NoCall
  /\ call.op \in {"read", "write"} =>
       /\ call.count > 0 /\ Len(call.frames) = call.count
       /\ (call.lba + call.count) % Wrap < drive.total
  /\ call.op \in {"none", "flush"} => call.frames = <<>>
  /\ \A i \in DOMAIN call.frames : own[call.frames[i]] \in {"user", "bounce"}
  /\ \A i, j \in DOMAIN call.frames : call.frames[i] = call.frames[j] => i = j

(* The controller has a command only while slot 0 is issued and no error   *)
(* is reported, with a frame for every sector. Unless one was given up,    *)
(* the driver is then polling, and the command is the one in the slot.     *)
IssueTracked ==
  /\ slot.done = 0
  /\ slot.op \in {"read", "write"} => Len(slot.frames) = slot.count
  /\ dev.op \in {"read", "write"} => Len(dev.frames) = dev.count
  /\ dev # NoCommand => port.ci /\ ~port.err
  /\ orphan => port.ci
  /\ port.ci /\ ~port.err /\ ~orphan => Polling
  /\ dev # NoCommand /\ ~orphan => [dev EXCEPT !.done = 0] = slot
  /\ pc \in {"fire", "poll"} =>
       slot = IF call.op = "flush" THEN [NoCommand EXCEPT !.op = "flush"] ELSE Transfer
  /\ pc = "identify" => slot.frames = <<port.base>>

(* Who has the control page, the command tables, frame 0 and the bounce    *)
(* buffers, by the progress of the driver.                                 *)
FramesTracked ==
  /\ \A f \in Frames : own[f] = "control" => f = port.base
  /\ pc \in Starting => port.base = -1
  /\ pc \in Building => port.base \in Frames /\ (own[port.base] = "control" \/ (blind /\ port.base = 0))
  /\ pc = "identify" => ~blind /\ HasTables
  /\ Registered => port.base \in Frames /\ own[port.base] = "control" /\ HasTables /\ pc \in Calling \cup {"idle", "return"}
  /\ ~Registered =>
       /\ pc \notin Calling
       /\ pc \in {"idle", "return"} => \A f \in Frames : own[f] # "control"
  /\ own[0] = "boot" \/ (~Registered /\ pc \in {"idle", "return", "halted"})
  /\ (\E f \in Frames : own[f] = "bounce") => pc \in Calling \cup {"return"}
  /\ \A i \in DOMAIN UserFrames : own[UserFrames[i]] = "user"

(* The sectors the controller has moved for the running call, if the slot  *)
(* was not issued when the call began: none before the call is polled for, *)
(* those it counts while it executes, all when the slot is not issued.     *)
Moved(n) == \A i \in 1 .. n : ram[call.frames[i]] = disk[FisLba + i - 1]

ProgressTracked ==
  ~call.tainted =>
    /\ pc \in {"fill", "fire"} => ~port.ci
    /\ pc = "poll" =>
         /\ ~orphan
         /\ ~port.ci => Moved(Len(call.frames))
         /\ dev # NoCommand => Moved(dev.done)
    /\ pc = "return" /\ ret = 0 => ~port.ci /\ Moved(Len(call.frames))

LbdInv == Shapes /\ CallAccepted /\ IssueTracked /\ FramesTracked /\ ProgressTracked

-----------------------------------------------------------------------------
(* Lemmas about buffers.                                                   *)

(* The frames of a request, in the caller's buffer or allocated one by one *)
(* (kallocate_scatter_dma), are as many as its sectors and all different.  *)
LEMMA DirectFrames ==
  ASSUME NEW count \in Counts
  PROVE  /\ SubSeq(UserFrames, 1, count) \in Seq(Frames)
         /\ Len(SubSeq(UserFrames, 1, count)) = count
         /\ \A i \in 1 .. count : SubSeq(UserFrames, 1, count)[i] = UserFrames[i] /\ i \in DOMAIN UserFrames
<1>1. UserFrames \in Seq(Frames) /\ Len(UserFrames) \in Nat /\ DOMAIN UserFrames = 1 .. Len(UserFrames)
  BY BufferAssumption
<1>2. count \in Nat /\ count <= Len(UserFrames)
  BY <1>1, RequestAssumption
<1> QED
  BY <1>1, <1>2, SubSeqProperties

LEMMA ScatteredFrames ==
  ASSUME Shapes, NEW count \in Counts, NEW frames \in Scattered(count)
  PROVE  /\ frames \in Seq(Frames) /\ Len(frames) = count /\ DOMAIN frames = 1 .. count
         /\ \A i \in 1 .. count : own[frames[i]] = "free" /\ frames[i] \in Frames
         /\ \A i, j \in 1 .. count : frames[i] = frames[j] => i = j
<1>1. count \in Nat
  BY RequestAssumption, BufferAssumption
<1>2. frames \in [1 .. count -> Free] /\ Free \subseteq Frames
  BY Zenon DEF Scattered, Free
<1>3. frames \in Seq(Frames) /\ Len(frames) = count /\ DOMAIN frames = 1 .. count
  BY <1>1, <1>2, IsASeq
<1>4. \A i \in 1 .. count : own[frames[i]] = "free" /\ frames[i] \in Frames
  BY <1>2, Zenon DEF Free
<1>5. ASSUME NEW i \in 1 .. count, NEW j \in 1 .. count, j < i
      PROVE  frames[i] # frames[j]
  <2>1. frames[j] < frames[i]
    BY <1>1, <1>2, <1>5 DEF Scattered
  <2>2. frames[i] \in Nat /\ frames[j] \in Nat
    BY <1>4, AhciAssumption, Zenon
  <2> QED
    BY <2>1, <2>2
<1> QED
  BY <1>1, <1>3, <1>4, <1>5

-----------------------------------------------------------------------------
(* Every step preserves the types.                                         *)

LEMMA Constants ==
  /\ Timeout \in Nat /\ Sectors \in Nat /\ Lba28 \in Nat \ {0} /\ Lba48 \in Nat \ {0}
  /\ 0 \in Frames /\ Frames \subseteq Nat
  BY AhciAssumption, Zenon

LEMMA SmallMod ==
  ASSUME NEW a \in Nat, NEW m \in Nat \ {0}
  PROVE  a % m \in Nat /\ a % m <= a /\ (a < m => a % m = a)
  OBVIOUS

LEMMA BlankType == Blank \in Values
  BY AhciAssumption, Zenon DEF Blank

LEMMA ConstantShapes ==
  /\ NoCommand \in Commands /\ NoCall \in Calls /\ NoDrive \in Drives
  /\ \A id \in Identities : ParseIdentity(id) \in Drives /\ ParseIdentity(id) # NoDrive
<1>1. NoCommand \in Commands /\ NoCall \in Calls
  BY DEF NoCommand, Commands, NoCall, Calls, Ops
<1>2. NoDrive \in Drives
  BY AhciAssumption DEF NoDrive, Drives
<1>3. ASSUME NEW id \in Identities
      PROVE  ParseIdentity(id) \in Drives /\ ParseIdentity(id) # NoDrive
  BY <1>3, AhciAssumption, IdentityAssumption DEF ParseIdentity, Drives, NoDrive
<1> QED
  BY <1>1, <1>2, <1>3, Zenon

(* Writing a register leaves all of them typed.                            *)
LEMMA PortWrites ==
  ASSUME NEW p \in Ports
  PROVE  /\ [p EXCEPT !.reset = TRUE] \in Ports
         /\ [p EXCEPT !.st = FALSE] \in Ports /\ [p EXCEPT !.st = TRUE] \in Ports
         /\ [p EXCEPT !.fre = FALSE] \in Ports
         /\ \A f \in Frames : [p EXCEPT !.fre = TRUE, !.base = f] \in Ports
         /\ [p EXCEPT !.ci = FALSE] \in Ports /\ [p EXCEPT !.ci = TRUE] \in Ports
         /\ [p EXCEPT !.err = TRUE] \in Ports
         /\ [p EXCEPT !.cr = p.st] \in Ports /\ [p EXCEPT !.fr = p.fre] \in Ports
         /\ \A cr, fr \in BOOLEAN : [p EXCEPT !.reset = FALSE, !.cr = cr, !.fr = fr] \in Ports
  BY ZenonT(30) DEF Ports

(* Giving up a port makes no owner that is not one.                        *)
LEMMA AbandonedType ==
  ASSUME own \in [Frames -> Owners]
  PROVE  Abandoned \in [Frames -> Owners]
  BY Zenon DEF Abandoned, Owners

(* Every variable keeps its type in every step of the driver.              *)
LEMMA ShapesDriver ==
  ASSUME Shapes, FramesTracked, DriverStep
  PROVE  Shapes'
<1> USE DEF Shapes, Starting, Building, Calling
<1>1. CASE Sleep
  BY <1>1, Constants DEF Sleep, device
<1>2. CASE TimedOut
  BY <1>2, Constants, AbandonedType DEF TimedOut, Fails, device
<1>3. CASE Rejected
  BY <1>3, Constants, AbandonedType DEF Rejected, Fails, device
<1>4. CASE Probe
  BY <1>4, Zenon DEF Probe, Driver, device
<1>5. CASE BiosDone
  <2>1. port' \in Ports
    BY <1>5, PortWrites, Zenon DEF BiosDone
  <2> QED
    BY <1>5, <2>1, Constants DEF BiosDone, WaitFor, Driver, device
<1>6. CASE ResetDone
  <2>1. port' \in Ports
    BY <1>6, PortWrites, Zenon DEF ResetDone
  <2> QED
    BY <1>6, <2>1, Constants DEF ResetDone, WaitFor, Leave, Driver, device
<1>7. CASE StopDone
  <2>1. port' \in Ports
    BY <1>7, PortWrites, Zenon DEF StopDone
  <2> QED
    BY <1>7, <2>1, Constants DEF StopDone, WaitFor, Driver, device
<1>8. CASE FisOffDone
  <2>1. PICK f \in Frames : port' = [port EXCEPT !.fre = TRUE, !.base = f]
    BY <1>8, Constants, ZenonT(30) DEF FisOffDone, FirstFree, Free
  <2>2. port' \in Ports
    BY <2>1, PortWrites, ZenonT(30)
  <2>3. own' \in [Frames -> Owners]
    BY <1>8, ZenonT(30) DEF FisOffDone, FirstFree, Free, Owners
  <2>4. blind' \in BOOLEAN
    BY <1>8, ZenonT(30) DEF FisOffDone
  <2>5. pc' = "fison" /\ elapsed' = 0 /\ UNCHANGED <<slot, drive, Driver>>
    BY <1>8, Zenon DEF FisOffDone, WaitFor
  <2> QED
    BY <2>2, <2>3, <2>4, <2>5, Constants DEF Driver, device
<1>9. CASE FisOnDone
  <2>1. port' \in Ports
    BY <1>9, PortWrites, Zenon DEF FisOnDone
  <2> QED
    BY <1>9, <2>1, Constants, AbandonedType DEF FisOnDone, WaitFor, Leave, Driver, device
<1>10. CASE StartDone
  BY <1>10, Constants, AbandonedType DEF StartDone, Leave, Driver, device
<1>11. CASE AllocTable
  BY <1>11, AbandonedType, Zenon DEF AllocTable, FirstFree, Free, Owners, Driver, device
<1>12. CASE Identify
  <2>1. CASE blind
    BY <1>12, <2>1, Zenon DEF Identify, Driver, device
  <2>2. CASE ~blind
    <3>1. port.base \in Frames
      BY <1>12, Zenon DEF Identify, FramesTracked
    <3>2. slot' \in Commands
      <4>1. <<port.base>> \in Seq(Frames)
        BY <3>1
      <4>2. slot' = [NoCommand EXCEPT !.op = "identify", !.count = 1, !.frames = <<port.base>>]
        BY <1>12, <2>2, Zenon DEF Identify
      <4>3. ASSUME NEW frames \in Seq(Frames)
            PROVE  [NoCommand EXCEPT !.op = "identify", !.count = 1, !.frames = frames] \in Commands
        BY ConstantShapes, Zenon DEF Commands, Ops
      <4> QED
        BY <4>1, <4>2, <4>3, Zenon
    <3>3. port' \in Ports
      BY <1>12, <2>2, PortWrites, Zenon DEF Identify
    <3> QED
      BY <1>12, <2>2, <3>2, <3>3, Constants DEF Identify, WaitFor, Driver, device
  <2> QED
    BY <2>1, <2>2, Zenon
<1>13. CASE IdentifyDone
  BY <1>13, Constants, ConstantShapes DEF IdentifyDone, Leave, Driver, device
<1>14. CASE Clear
  <2>1. call' \in Calls
    BY <1>14, Zenon DEF Clear, Ports, Calls
  <2> QED
    BY <1>14, <2>1, ConstantShapes, Zenon DEF Clear, Setup, device
<1>15. CASE FillRead \/ FillWrite
  <2>1. FisLba \in Nat
    BY Constants DEF FisLba, Calls
  <2>2. Transfer \in Commands
    BY <2>1, Zenon DEF Transfer, Calls, Commands, Ops
  <2> QED
    BY <1>15, <2>2, Zenon DEF FillRead, FillWrite, Prepare, Setup, device
<1>16. CASE FillFlush
  <2>1. [NoCommand EXCEPT !.op = "flush"] \in Commands
    BY ConstantShapes, Zenon DEF Commands, Ops
  <2> QED
    BY <1>16, <2>1, Zenon DEF FillFlush, Prepare, Setup, device
<1>17. CASE Fire
  <2>1. port' \in Ports
    BY <1>17, PortWrites, Zenon DEF Fire
  <2> QED
    BY <1>17, <2>1, Constants DEF Fire, WaitFor, Setup, device
<1>18. CASE PollDone
  BY <1>18, Constants DEF PollDone, Leave, Setup, device
<1> QED
  BY Zenon, <1>1, <1>2, <1>3, <1>4, <1>5, <1>6, <1>7, <1>8, <1>9, <1>10, <1>11, <1>12, <1>13, <1>14, <1>15,
     <1>16, <1>17, <1>18 DEF DriverStep

LEMMA SuccNat ==
  ASSUME NEW n \in Nat
  PROVE  n + 1 \in Nat
  OBVIOUS

(* A command of which one more sector is moved is a command.               *)
LEMMA DoneCommand ==
  ASSUME NEW d \in Commands, NEW n \in Nat
  PROVE  [d EXCEPT !.done = n] \in Commands
  BY Zenon DEF Commands

(* Every variable keeps its type in every step of the controller.          *)
LEMMA ShapesDevice ==
  ASSUME Shapes, IssueTracked, DeviceStep
  PROVE  Shapes'
<1> USE DEF Shapes, Kernel
<1>1. CASE BiosRelease
  BY <1>1, Zenon DEF BiosRelease
<1>2. CASE DevReset
  <2>1. port' \in Ports
    BY <1>2, PortWrites, ZenonT(30) DEF DevReset
  <2> QED
    BY <1>2, <2>1, Zenon DEF DevReset
<1>3. CASE DevEngine
  <2>1. port' \in Ports
    BY <1>3, PortWrites, Zenon DEF DevEngine
  <2> QED
    BY <1>3, <2>1, Zenon DEF DevEngine
<1>4. CASE DevFetch
  BY <1>4, Zenon DEF DevFetch
<1>5. CASE DevTransfer
  <2>1. dev' \in Commands
    <3>1. dev' = [dev EXCEPT !.done = dev.done + 1] /\ dev \in Commands
      BY <1>5, Zenon DEF DevTransfer
    <3>2. PICK k \in Nat : k = dev.done
      BY <3>1, Zenon DEF Commands
    <3>3. k + 1 \in Nat
      BY Zenon, <3>2, SuccNat
    <3> QED
      BY <3>1, <3>2, <3>3, DoneCommand, Zenon
  <2>2. ram' \in [Frames -> Values] /\ disk' \in [0 .. (Sectors - 1) -> Values]
    <3> DEFINE f == dev.frames[dev.done + 1]
               s == dev.lba + dev.done
    <3>1. f \in Frames
      BY <1>5 DEF DevTransfer, Commands
    <3>2. CASE dev.op = "read"
      <4>1. s \in 0 .. (Sectors - 1)
        <5>1. dev.lba \in Nat /\ dev.done \in Nat /\ dev.count \in Nat
          BY Zenon DEF Commands
        <5>2. dev.lba + dev.count <= Sectors /\ dev.done < dev.count
          BY <1>5, <3>2, Zenon DEF DevTransfer, Executable, IssueTracked
        <5> QED
          BY <5>1, <5>2, Constants
      <4> QED
        BY <1>5, <3>1, <3>2, <4>1, Zenon DEF DevTransfer
    <3>3. CASE dev.op # "read"
      BY <1>5, <3>1, <3>3, Zenon DEF DevTransfer
    <3> QED
      BY <3>2, <3>3, Zenon
  <2> QED
    BY <1>5, <2>1, <2>2, Zenon DEF DevTransfer
<1>6. CASE DevFinish
  BY <1>6, PortWrites, ConstantShapes, ZenonT(30) DEF DevFinish
<1>7. CASE DevReject
  BY <1>7, PortWrites, ConstantShapes, Zenon DEF DevReject
<1> QED
  BY <1>1, <1>2, <1>3, <1>4, <1>5, <1>6, <1>7, Zenon DEF DeviceStep

(* Data put in some frames of RAM.                                         *)
LEMMA AnyDataType ==
  ASSUME ram \in [Frames -> Values], NEW to
  PROVE  AnyData(to) \subseteq [Frames -> Values]
  BY Zenon DEF AnyData

(* What the steps of the callers and the return of a call have in common.  *)
LEMMA CallerCases ==
  ASSUME Caller
  PROVE  \/ Refuse \/ Flush
         \/ \E op \in {"read", "write"}, lba \in Lbas, count \in Counts :
              Direct(op, lba, count) \/ Bounce(op, lba, count) \/ BounceFails(lba, count)
  BY Zenon DEF Caller, lbd_flush, lbd_read, lbd_write

(* Every variable keeps its type in every step of a caller.                *)
LEMMA ShapesCaller ==
  ASSUME Shapes, Caller \/ LbdReturn
  PROVE  Shapes'
<1> USE DEF Shapes, Calling, Resting, device
<1>1. CASE Refuse
  BY <1>1, Zenon DEF Refuse
<1>2. CASE Flush
  <2>1. call' \in Calls
    BY <1>2 DEF Flush, Request, Calls
  <2> QED
    BY <1>2, <2>1, Zenon DEF Flush
<1>3. ASSUME NEW op \in {"read", "write"}, NEW lba \in Lbas, NEW count \in Counts, Direct(op, lba, count)
      PROVE  Shapes'
  <2>1. call' \in Calls
    <3>1. lba \in Nat /\ count \in Nat
      BY RequestAssumption, BufferAssumption
    <3>2. ASSUME NEW frames \in Seq(Frames), Request(op, lba, count, frames, FALSE)
          PROVE  call' \in Calls
      BY <3>1, <3>2, Zenon DEF Request, Calls
    <3> QED
      BY <1>3, <3>2, DirectFrames, Zenon DEF Direct
  <2>2. ram' \in [Frames -> Values]
    BY <1>3, AnyDataType, Zenon DEF Direct, Filled
  <2> QED
    BY <1>3, <2>1, <2>2, Zenon DEF Direct
<1>4. ASSUME NEW op \in {"read", "write"}, NEW lba \in Lbas, NEW count \in Counts, Bounce(op, lba, count)
      PROVE  Shapes'
  <2>1. PICK frames \in Scattered(count) :
          /\ Request(op, lba, count, frames, TRUE)
          /\ own' = [f \in Frames |-> IF f \in FramesIn(frames) THEN "bounce" ELSE own[f]]
          /\ ram' \in IF op = "write" THEN Copied(FramesIn(frames)) ELSE {ram}
    BY <1>4, Zenon DEF Bounce
  <2>2. call' \in Calls
    <3>1. lba \in Nat /\ count \in Nat
      BY RequestAssumption, BufferAssumption
    <3> QED
      BY <2>1, <3>1, ScatteredFrames, Zenon DEF Request, Calls
  <2>3. own' \in [Frames -> Owners]
    BY <2>1, Zenon DEF Owners
  <2>4. ram' \in [Frames -> Values]
    BY <2>1, AnyDataType, Zenon DEF Copied
  <2> QED
    BY <1>4, <2>2, <2>3, <2>4, Zenon DEF Bounce
<1>5. ASSUME NEW lba \in Lbas, NEW count \in Counts, BounceFails(lba, count)
      PROVE  Shapes'
  <2>1. own' \in [Frames -> Owners]
    BY <1>5, Zenon DEF BounceFails, Owners
  <2> QED
    BY <1>5, <2>1, Zenon DEF BounceFails
<1>6. CASE LbdReturn
  <2>1. own' \in [Frames -> Owners]
    BY <1>6, Zenon DEF LbdReturn, Owners
  <2>2. ram' \in [Frames -> Values]
    BY <1>6, AnyDataType, Zenon DEF LbdReturn, Copied
  <2> QED
    BY <1>6, <2>1, <2>2, ConstantShapes, Zenon DEF LbdReturn
<1> QED
  BY <1>1, <1>2, <1>3, <1>4, <1>5, <1>6, CallerCases, Zenon

(* The types are an invariant of every step, given the rest.               *)
LEMMA ShapesStep ==
  ASSUME LbdInv, [Next]_vars
  PROVE  Shapes'
<1>1. CASE Next
  BY <1>1, ShapesDriver, ShapesDevice, ShapesCaller, Zenon DEF LbdInv, Next
<1>2. CASE UNCHANGED vars
  BY <1>2, Zenon DEF LbdInv, Shapes, vars, device
<1> QED
  BY <1>1, <1>2, Zenon

-----------------------------------------------------------------------------
(* The request of the running call.                                        *)

(* A step that keeps the request, the drive and the buffer of the call.    *)
LEMMA CallKept ==
  ASSUME LbdInv,
         UNCHANGED <<call.op, call.lba, call.count, call.frames, drive>>,
         \A i \in DOMAIN call.frames : own'[call.frames[i]] = own[call.frames[i]],
         pc' \in Calling => call.op # "none",
         pc' \notin Calling \cup {"return"} => call' = NoCall
  PROVE  CallAccepted'
  BY Zenon DEF LbdInv, CallAccepted

LEMMA CallDriver ==
  ASSUME LbdInv, DriverStep
  PROVE  CallAccepted'
<1> USE DEF LbdInv, Starting, Building, Calling
<1>1. CASE Sleep
  BY <1>1, CallKept, Zenon DEF Sleep, CallAccepted
<1>2. CASE TimedOut \/ Rejected
  <2>1. CASE pc = "poll"
    BY <1>2, <2>1, CallKept, Zenon DEF TimedOut, Rejected, Fails, CallAccepted
  <2>2. CASE pc # "poll"
    <3>1. call = NoCall /\ DOMAIN call.frames = {}
      BY <1>2, <2>2 DEF TimedOut, Rejected, Waiting, Polling, CallAccepted, NoCall
    <3> QED
      BY <1>2, <2>2, <3>1, CallKept, Zenon DEF TimedOut, Rejected, Fails
  <2> QED
    BY <2>1, <2>2, Zenon
<1>3. CASE Probe \/ BiosDone \/ ResetDone \/ StopDone \/ FisOffDone \/ FisOnDone \/ StartDone
           \/ AllocTable \/ Identify
  <2>1. call = NoCall /\ DOMAIN call.frames = {}
    <3>1. pc \in Starting \cup Building
      BY <1>3, ZenonT(30) DEF Probe, BiosDone, ResetDone, StopDone, FisOffDone, FisOnDone, StartDone, AllocTable,
                  Identify
    <3> QED
      BY <3>1 DEF CallAccepted, NoCall
  <2>2. UNCHANGED <<call, drive>> /\ pc' \notin Calling \cup {"return"}
    BY <1>3, Zenon DEF Probe, BiosDone, ResetDone, StopDone, FisOffDone, FisOnDone, StartDone, AllocTable,
                Identify, WaitFor, Leave, Driver
  <2> QED
    BY <2>1, <2>2, CallKept, Zenon
<1>4. CASE IdentifyDone
  BY <1>4 DEF IdentifyDone, Leave, Driver, CallAccepted, NoCall
<1>5. CASE Clear
  BY <1>5, CallKept, Zenon DEF Clear, CallAccepted, Setup, Shapes, Calls
<1>6. CASE FillRead \/ FillWrite \/ FillFlush
  BY <1>6, CallKept, Zenon DEF FillRead, FillWrite, FillFlush, Prepare, Setup
<1>7. CASE Fire
  BY <1>7, CallKept, Zenon DEF Fire, WaitFor, CallAccepted, Setup
<1>8. CASE PollDone
  BY <1>8, CallKept, Zenon DEF PollDone, Leave, Setup
<1> QED
  BY <1>1, <1>2, <1>3, <1>4, <1>5, <1>6, <1>7, <1>8, Zenon DEF DriverStep

LEMMA CallCaller ==
  ASSUME LbdInv, Caller \/ LbdReturn
  PROVE  CallAccepted'
<1> USE DEF LbdInv, Starting, Building, Calling, Resting
<1>1. CASE Refuse
  BY <1>1, CallKept, Zenon DEF Refuse
<1>2. CASE Flush
  BY <1>2 DEF Flush, Request, CallAccepted
<1>3. ASSUME NEW op \in {"read", "write"}, NEW lba \in Lbas, NEW count \in Counts, Direct(op, lba, count)
      PROVE  CallAccepted'
  <2>1. PICK frames : frames = SubSeq(UserFrames, 1, count)
    BY Zenon
  <2>2. /\ call' = [op |-> op, lba |-> lba, count |-> count, frames |-> frames, odd |-> FALSE, tainted |-> FALSE]
        /\ pc' = "clear" /\ UNCHANGED <<own, drive>> /\ count > 0 /\ (lba + count) % Wrap < drive.total
    BY <1>3, <2>1, Zenon DEF Direct, Request, Valid, WithinDrive
  <2>3. frames \in Seq(Frames) /\ Len(frames) = count
    BY <2>1, DirectFrames, Zenon
  <2>4. \A i, j \in DOMAIN frames : frames[i] = frames[j] => i = j
    BY <2>1, <2>3, DirectFrames, BufferAssumption
  <2>5. \A i \in DOMAIN frames : own[frames[i]] = "user"
    BY <2>1, <2>3, DirectFrames DEF FramesTracked
  <2> QED
    BY <2>2, <2>3, <2>4, <2>5, Zenon DEF CallAccepted
<1>4. ASSUME NEW op \in {"read", "write"}, NEW lba \in Lbas, NEW count \in Counts, Bounce(op, lba, count)
      PROVE  CallAccepted'
  <2>1. PICK frames \in Scattered(count) :
          /\ Request(op, lba, count, frames, TRUE)
          /\ own' = [f \in Frames |-> IF f \in FramesIn(frames) THEN "bounce" ELSE own[f]]
    BY <1>4, Zenon DEF Bounce
  <2>2. pc' = "clear" /\ UNCHANGED drive /\ count > 0 /\ (lba + count) % Wrap < drive.total
    BY <1>4, Zenon DEF Bounce, Valid, WithinDrive
  <2>3. /\ frames \in Seq(Frames) /\ Len(frames) = count
        /\ \A i, j \in DOMAIN frames : frames[i] = frames[j] => i = j
    BY ScatteredFrames
  <2>4. \A i \in DOMAIN frames : own'[frames[i]] = "bounce"
    BY <2>1, ScatteredFrames, Zenon DEF FramesIn
  <2> QED
    BY <2>1, <2>2, <2>3, <2>4, Zenon DEF CallAccepted, Request
<1>5. ASSUME NEW lba \in Lbas, NEW count \in Counts, BounceFails(lba, count)
      PROVE  CallAccepted'
  <2>1. call = NoCall /\ DOMAIN call.frames = {}
    BY <1>5 DEF BounceFails, CallAccepted, NoCall
  <2> QED
    BY <1>5, <2>1, CallKept, Zenon DEF BounceFails
<1>6. CASE LbdReturn
  BY <1>6 DEF LbdReturn, CallAccepted, NoCall
<1> QED
  BY <1>1, <1>2, <1>3, <1>4, <1>5, <1>6, CallerCases, Zenon

(* The request of the running call stays accepted.                         *)
LEMMA CallStep ==
  ASSUME LbdInv, [Next]_vars
  PROVE  CallAccepted'
<1>1. CASE DeviceStep \/ UNCHANGED vars
  <2>1. UNCHANGED <<pc, call, drive, own>>
    BY <1>1, ZenonT(30) DEF vars, DeviceStep, BiosRelease, DevReset, DevEngine, DevFetch, DevTransfer, DevFinish,
                DevReject, Kernel
  <2> QED
    BY <2>1, Zenon DEF LbdInv, CallAccepted
<1> QED
  BY <1>1, CallDriver, CallCaller, Zenon DEF Next

-----------------------------------------------------------------------------
(* The command in the slot and the one the controller executes.            *)

LEMMA IssueDriver ==
  ASSUME LbdInv, DriverStep
  PROVE  IssueTracked'
<1> USE DEF LbdInv, IssueTracked
<1>1. CASE Sleep
  BY <1>1, Zenon DEF Sleep, device, Polling, Transfer, FisLba
<1>2. CASE TimedOut
  BY <1>2, Zenon DEF TimedOut, Fails, device, Waiting, Polling, Met, Shapes, Starting, Building, Calling
<1>3. CASE Rejected
  BY <1>3, Zenon DEF Rejected, Fails, device, Polling, Met
<1>4. CASE Probe \/ ResetDone \/ StartDone \/ AllocTable
  BY <1>4 DEF Probe, ResetDone, StartDone, AllocTable, WaitFor, Leave, Polling, Driver, device, Shapes, Ports
<1>5. CASE BiosDone \/ StopDone \/ FisOffDone \/ FisOnDone
  <2>1. port'.ci = port.ci /\ port'.err = port.err
    BY <1>5, ZenonT(30) DEF BiosDone, StopDone, FisOffDone, FisOnDone, Shapes, Ports
  <2>2. /\ UNCHANGED <<slot, dev, orphan>>
        /\ ~Polling /\ ~Polling' /\ pc' \notin {"fire", "poll", "identify"}
    BY <1>5, Zenon DEF BiosDone, StopDone, FisOffDone, FisOnDone, WaitFor, Leave, Polling, Driver, device
  <2> QED
    BY <2>1, <2>2, Zenon
<1>6. CASE Identify
  <2>1. CASE blind
    BY <1>6, <2>1, Zenon DEF Identify, Polling, Driver, device
  <2>2. CASE ~blind
    <3>1. slot'.op = "identify" /\ slot'.frames = <<port.base>> /\ slot'.done = 0
      BY <1>6, <2>2, ZenonT(30) DEF Identify, NoCommand
    <3>2. port'.ci /\ port'.base = port.base /\ port'.err = port.err
      BY <1>6, <2>2, Zenon DEF Identify, Shapes, Ports
    <3>3. pc = "tables" /\ pc' = "identify" /\ UNCHANGED <<dev, orphan>>
      BY <1>6, <2>2, Zenon DEF Identify, WaitFor, Driver, device
    <3> QED
      BY <3>1, <3>2, <3>3, Zenon DEF Polling
  <2> QED
    BY <2>1, <2>2, Zenon
<1>7. CASE IdentifyDone
  BY <1>7, Zenon DEF IdentifyDone, Met, Leave, Polling, Driver, device
<1>8. CASE Clear
  BY <1>8, Zenon DEF Clear, Polling, Setup, device, NoCommand
<1>9. CASE FillRead \/ FillWrite
  BY <1>9 DEF FillRead, FillWrite, Prepare, Polling, Setup, device, Transfer, CallAccepted, FisLba
<1>10. CASE FillFlush
  BY <1>10, Zenon DEF FillFlush, Prepare, Polling, Setup, device, NoCommand
<1>11. CASE Fire
  BY <1>11, Zenon DEF Fire, WaitFor, Polling, Setup, device, Shapes, Ports, Transfer, FisLba
<1>12. CASE PollDone
  BY <1>12, Zenon DEF PollDone, Met, Leave, Polling, Setup, device
<1> QED
  BY <1>1, <1>2, <1>3, <1>4, <1>5, <1>6, <1>7, <1>8, <1>9, <1>10, <1>11, <1>12, Zenon DEF DriverStep

LEMMA IssueDevice ==
  ASSUME LbdInv, DeviceStep
  PROVE  IssueTracked'
<1> USE DEF LbdInv, IssueTracked, Kernel, Polling, Transfer, FisLba
<1>1. CASE BiosRelease
  BY <1>1, Zenon DEF BiosRelease
<1>2. CASE DevReset
  BY <1>2, Zenon DEF DevReset, Shapes, Ports
<1>3. CASE DevEngine
  BY <1>3, Zenon DEF DevEngine, Shapes, Ports
<1>4. CASE DevFetch
  BY <1>4, Zenon DEF DevFetch, Shapes, Commands
<1>5. CASE DevTransfer
  <2>1. dev \in Commands /\ dev' = [dev EXCEPT !.done = dev.done + 1] /\ dev # NoCommand
    BY <1>5 DEF DevTransfer, Executable, Shapes, NoCommand
  <2>2. [dev' EXCEPT !.done = 0] = [dev EXCEPT !.done = 0]
    BY <2>1, Zenon DEF Commands
  <2>3. dev'.op = dev.op /\ dev'.frames = dev.frames /\ dev'.count = dev.count
    BY <2>1, Zenon DEF Commands
  <2>4. UNCHANGED <<pc, slot, port, orphan, call, drive>>
    BY <1>5, Zenon DEF DevTransfer
  <2> QED
    BY <2>1, <2>2, <2>3, <2>4, Zenon
<1>6. CASE DevFinish
  BY <1>6, Zenon DEF DevFinish, Shapes, Ports, NoCommand
<1>7. CASE DevReject
  BY <1>7, Zenon DEF DevReject, Shapes, Ports, NoCommand
<1> QED
  BY <1>1, <1>2, <1>3, <1>4, <1>5, <1>6, <1>7, Zenon DEF DeviceStep

(* A caller leaves the slot and the controller alone.                      *)
LEMMA IssueCaller ==
  ASSUME LbdInv, Caller \/ LbdReturn
  PROVE  IssueTracked'
<1>1. UNCHANGED <<slot, dev, port, orphan>> /\ pc \in {"idle", "return"} /\ pc' \in {"idle", "return", "clear"}
  BY CallerCases, ZenonT(30) DEF Refuse, Flush, Direct, Bounce, BounceFails, LbdReturn, Resting, device
<1> QED
  BY <1>1, Zenon DEF LbdInv, IssueTracked, Polling

LEMMA IssueStep ==
  ASSUME LbdInv, [Next]_vars
  PROVE  IssueTracked'
<1>1. CASE UNCHANGED vars
  BY <1>1, Zenon DEF vars, device, LbdInv, IssueTracked, Polling, Transfer, FisLba
<1> QED
  BY <1>1, IssueDriver, IssueDevice, IssueCaller, Zenon DEF Next

-----------------------------------------------------------------------------
(* The owners of the frames.                                               *)

(* The command tables are all there as long as no frame becomes one or     *)
(* stops being one.                                                        *)
LEMMA TablesKept ==
  ASSUME \A f \in Frames : own'[f] = "table" <=> own[f] = "table"
  PROVE  HasTables' <=> HasTables
<1>1. {f \in Frames : own'[f] = "table"} = {f \in Frames : own[f] = "table"}
  BY Zenon
<1> QED
  BY <1>1, Zenon DEF HasTables

(* A port that is given up leaves no control page.                         *)
LEMMA GivenUp ==
  ASSUME LbdInv, ~Registered, UNCHANGED <<port, drive>>,
         pc \in Starting \cup Building, pc' \in {"idle", "halted"},
         \A f \in Frames : own'[f] = Abandoned[f] \/ (own[f] = "free" /\ own'[f] = "lost")
  PROVE  FramesTracked'
<1>1. \A f \in Frames : own'[f] # "control" /\ own'[f] # "bounce"
  BY Zenon DEF Abandoned, LbdInv, FramesTracked, Starting, Building, Calling
<1>2. ASSUME NEW i \in DOMAIN UserFrames
      PROVE  own'[UserFrames[i]] = "user"
  <2>1. UserFrames[i] \in Frames /\ UserFrames[i] # 0 /\ own[UserFrames[i]] = "user"
    BY BufferAssumption DEF LbdInv, FramesTracked
  <2>2. port.base # UserFrames[i]
    BY <2>1, Constants DEF LbdInv, FramesTracked
  <2> QED
    BY <2>1, <2>2, Zenon DEF Abandoned
<1> QED
  BY <1>1, <1>2, Constants, Zenon DEF FramesTracked, Registered, Starting, Building, Calling

LEMMA FramesDriver ==
  ASSUME LbdInv, DriverStep
  PROVE  FramesTracked'
<1> USE DEF LbdInv, FramesTracked, Registered
<1>1. CASE Sleep
  BY <1>1, Zenon DEF Sleep, HasTables
<1>2. CASE TimedOut \/ Rejected
  <2>1. CASE pc = "poll"
    BY <1>2, <2>1, Zenon DEF TimedOut, Rejected, Fails, HasTables, Starting, Building, Calling
  <2>2. CASE pc # "poll"
    <3>1. pc \in Starting \cup Building /\ ~Registered
      BY <1>2, <2>2, Zenon DEF TimedOut, Rejected, Waiting, Polling, Starting, Building, Calling
    <3> QED
      BY <1>2, <2>2, <3>1, GivenUp, Zenon DEF TimedOut, Rejected, Fails
  <2> QED
    BY <2>1, <2>2, Zenon
<1>3. CASE Probe \/ BiosDone \/ ResetDone \/ StopDone
  <2>1. /\ pc \in Starting /\ pc' \in Starting \cup {"idle", "halted"}
        /\ UNCHANGED <<own, drive, blind>>
    BY <1>3, Zenon DEF Probe, BiosDone, ResetDone, StopDone, WaitFor, Leave, Starting
  <2>2. port'.base = port.base
    BY <1>3, Zenon DEF Probe, BiosDone, ResetDone, StopDone, Shapes, Ports
  <2> QED
    BY <2>1, <2>2, Constants DEF HasTables, Starting, Building, Calling
<1>4. CASE FisOffDone
  <2>1. pc = "fisoff" /\ pc' = "fison" /\ UNCHANGED drive /\ ~Registered
    BY <1>4, Zenon DEF FisOffDone, WaitFor, Calling
  <2>2. \A f \in Frames : own[f] # "control"
    BY <2>1, Constants DEF Starting
  <2>3. CASE Free = {} /\ blind' = TRUE /\ port'.base = 0 /\ UNCHANGED own
    BY <2>1, <2>2, <2>3, Constants, Zenon DEF Starting, Building, Calling
  <2>4. ASSUME NEW f \in FirstFree, port'.base = f, own' = [own EXCEPT ![f] = "control"]
        PROVE  FramesTracked'
    <3>1. f \in Frames /\ own[f] = "free"
      BY Zenon DEF FirstFree, Free
    <3> QED
      BY <2>1, <2>2, <2>4, <3>1, BufferAssumption, Constants DEF Shapes, Starting, Building, Calling
  <2> QED
    BY <1>4, <2>3, <2>4, ZenonT(30) DEF FisOffDone, Shapes, Ports
<1>5. CASE FisOnDone
  <2>1. CASE own' = Abandoned /\ UNCHANGED port /\ pc' = "idle"
    BY <1>5, <2>1, GivenUp, Zenon DEF FisOnDone, Building, Calling
  <2>2. CASE UNCHANGED own /\ port'.base = port.base /\ pc' = "start"
    BY <1>5, <2>2, Zenon DEF FisOnDone, HasTables, Starting, Building, Calling
  <2> QED
    BY <1>5, <2>1, <2>2, Zenon DEF FisOnDone, WaitFor, Leave, Shapes, Ports
<1>6. CASE StartDone
  <2>1. CASE own' = Abandoned /\ pc' = "halted"
    BY <1>6, <2>1, GivenUp, Zenon DEF StartDone, Building, Calling
  <2>2. CASE UNCHANGED own /\ pc' = "tables"
    BY <1>6, <2>2, Zenon DEF StartDone, HasTables, Starting, Building, Calling
  <2> QED
    BY <1>6, <2>1, <2>2, Zenon DEF StartDone, Leave
<1>7. CASE AllocTable
  <2>1. pc = "tables" /\ ~Registered /\ UNCHANGED <<port, drive, blind>>
    BY <1>7, Zenon DEF AllocTable, Calling
  <2>2. ASSUME NEW f \in FirstFree, own' = [own EXCEPT ![f] = "table"], UNCHANGED pc
        PROVE  FramesTracked'
    <3>1. f \in Frames /\ own[f] = "free"
      BY Zenon DEF FirstFree, Free
    <3> QED
      BY <2>1, <2>2, <3>1, BufferAssumption, Constants DEF Shapes, Starting, Building, Calling
  <2>3. CASE pc' = "idle" /\ own' = Abandoned
    BY <2>1, <2>3, GivenUp, Zenon DEF Building
  <2>4. ASSUME NEW f \in FirstFree, own' = [Abandoned EXCEPT ![f] = "lost"], pc' = "idle"
        PROVE  FramesTracked'
    <3>1. f \in Frames /\ own[f] = "free"
      BY Zenon DEF FirstFree, Free
    <3>2. \A g \in Frames : own'[g] = Abandoned[g] \/ (own[g] = "free" /\ own'[g] = "lost")
      BY <2>4, <3>1, Zenon DEF Abandoned
    <3> QED
      BY <2>1, <2>4, <3>2, GivenUp, Zenon DEF Building
  <2> QED
    BY <1>7, <2>2, <2>3, <2>4, Zenon DEF AllocTable
<1>8. CASE Identify
  <2>1. CASE blind
    BY <1>8, <2>1, Zenon DEF Identify, HasTables, Starting, Building, Calling
  <2>2. CASE ~blind
    BY <1>8, <2>2 DEF Identify, WaitFor, HasTables, Shapes, Ports, Starting, Building, Calling
  <2> QED
    BY <2>1, <2>2, Zenon
<1>9. CASE IdentifyDone
  BY <1>9, ConstantShapes, Zenon DEF IdentifyDone, Leave, HasTables, Shapes, Starting, Building, Calling
<1>10. CASE Clear \/ FillRead \/ FillWrite \/ FillFlush \/ PollDone
  BY <1>10, Zenon DEF Clear, FillRead, FillWrite, FillFlush, PollDone, Prepare, Leave, Setup, HasTables,
               Starting, Building, Calling
<1>11. CASE Fire
  BY <1>11 DEF Fire, WaitFor, Setup, HasTables, Shapes, Ports, Starting, Building, Calling
<1> QED
  BY <1>1, <1>2, <1>3, <1>4, <1>5, <1>6, <1>7, <1>8, <1>9, <1>10, <1>11, ZenonT(30) DEF DriverStep

LEMMA FramesCaller ==
  ASSUME LbdInv, Caller \/ LbdReturn
  PROVE  FramesTracked'
<1> USE DEF LbdInv, FramesTracked, Registered
<1>0. UNCHANGED <<port, drive, blind>>
  BY CallerCases, Zenon DEF Refuse, Flush, Direct, Bounce, BounceFails, LbdReturn, Resting
<1>1. CASE Refuse
  BY <1>0, <1>1, Zenon DEF Refuse, HasTables, Starting, Building, Calling
<1>2. CASE Flush
  BY <1>0, <1>2, Zenon DEF Flush, HasTables, Starting, Building, Calling
<1>3. ASSUME NEW op \in {"read", "write"}, NEW lba \in Lbas, NEW count \in Counts, Direct(op, lba, count)
      PROVE  FramesTracked'
  BY <1>0, <1>3, Zenon DEF Direct, Valid, HasTables, Starting, Building, Calling
<1>4. ASSUME NEW op \in {"read", "write"}, NEW lba \in Lbas, NEW count \in Counts, Bounce(op, lba, count)
      PROVE  FramesTracked'
  <2>1. PICK frames \in Scattered(count) :
          own' = [f \in Frames |-> IF f \in FramesIn(frames) THEN "bounce" ELSE own[f]]
    BY <1>4, Zenon DEF Bounce
  <2>2. \A f \in Frames : own'[f] = own[f] \/ (own[f] = "free" /\ own'[f] = "bounce")
    BY <2>1, ScatteredFrames DEF FramesIn
  <2>3. HasTables' <=> HasTables
    BY <2>2, TablesKept, Zenon
  <2> QED
    BY <1>0, <1>4, <2>2, <2>3, Constants, BufferAssumption DEF Bounce, Valid, Starting, Building, Calling
<1>5. ASSUME NEW lba \in Lbas, NEW count \in Counts, BounceFails(lba, count)
      PROVE  FramesTracked'
  <2>1. \A f \in Frames : own'[f] = own[f] \/ (own[f] = "free" /\ own'[f] = "lost")
    BY <1>5, Zenon DEF BounceFails
  <2>2. HasTables' <=> HasTables
    BY <2>1, TablesKept, Zenon
  <2>3. pc = "idle" /\ pc' = "return" /\ Registered
    BY <1>5, Zenon DEF BounceFails, Valid
  <2>4. \A i \in DOMAIN UserFrames : own'[UserFrames[i]] = "user"
    BY <2>1, BufferAssumption
  <2> QED
    BY <1>0, <2>1, <2>2, <2>3, <2>4, Constants, Zenon DEF Starting, Building, Calling
<1>6. CASE LbdReturn
  <2>1. \A f \in Frames : own'[f] = IF own[f] = "bounce" THEN "free" ELSE own[f]
    BY <1>6, Zenon DEF LbdReturn
  <2>2. HasTables' <=> HasTables
    BY <2>1, TablesKept, Zenon
  <2> QED
    BY <1>0, <1>6, <2>1, <2>2, Constants, BufferAssumption DEF LbdReturn, Starting, Building, Calling
<1> QED
  BY <1>1, <1>2, <1>3, <1>4, <1>5, <1>6, CallerCases, ZenonT(30)

(* The owners of the frames stay as the progress of the driver says.       *)
LEMMA FramesStep ==
  ASSUME LbdInv, [Next]_vars
  PROVE  FramesTracked'
<1>1. CASE DeviceStep \/ UNCHANGED vars
  <2>1. UNCHANGED <<pc, drive, own, blind>>
    BY <1>1, ZenonT(30) DEF vars, DeviceStep, BiosRelease, DevReset, DevEngine, DevFetch, DevTransfer, DevFinish,
                DevReject, Kernel
  <2>2. port'.base = port.base
    BY <1>1, ZenonT(30) DEF vars, DeviceStep, BiosRelease, DevReset, DevEngine, DevFetch, DevTransfer, DevFinish,
                DevReject, LbdInv, Shapes, Ports
  <2> QED
    BY <2>1, <2>2, Zenon DEF LbdInv, FramesTracked, Registered, HasTables
<1> QED
  BY <1>1, FramesDriver, FramesCaller, Zenon DEF Next

-----------------------------------------------------------------------------
(* The sectors moved for the running call.                                 *)

LEMMA ProgressDriver ==
  ASSUME LbdInv, DriverStep
  PROVE  ProgressTracked'
<1> USE DEF LbdInv, ProgressTracked, Moved, FisLba
<1>1. CASE Sleep
  BY <1>1, Zenon DEF Sleep, device
<1>2. CASE TimedOut \/ Rejected
  <2>1. pc' = "idle" \/ (pc' = "return" /\ ret' = -5)
    BY <1>2, Zenon DEF TimedOut, Rejected, Fails
  <2>2. -5 # 0
    OBVIOUS
  <2>3. pc' \notin {"fill", "fire", "poll"} /\ ~(pc' = "return" /\ ret' = 0)
    BY <2>1, <2>2, Zenon
  <2> QED
    BY <2>3, Zenon
<1>3. CASE Probe \/ BiosDone \/ ResetDone \/ StopDone \/ FisOffDone \/ FisOnDone \/ StartDone
           \/ AllocTable \/ Identify \/ IdentifyDone
  <2>1. pc' \notin {"fill", "fire", "poll", "return"}
    BY <1>3, Zenon DEF Probe, BiosDone, ResetDone, StopDone, FisOffDone, FisOnDone, StartDone, AllocTable,
                Identify, IdentifyDone, WaitFor, Leave
  <2> QED
    BY <2>1, Zenon
<1>4. CASE Clear
  <2>1. call'.tainted = port.ci
    BY <1>4, Zenon DEF Clear, Shapes, Calls
  <2> QED
    BY <1>4, <2>1, Zenon DEF Clear
<1>5. CASE FillRead \/ FillWrite \/ FillFlush
  BY <1>5, Zenon DEF FillRead, FillWrite, FillFlush, Prepare
<1>6. CASE Fire
  <2>1. port'.ci = TRUE
    BY <1>6, Zenon DEF Fire, Shapes, Ports
  <2>2. ~call.tainted => ~orphan /\ dev = NoCommand
    BY <1>6, Zenon DEF Fire, IssueTracked
  <2>3. pc' = "poll" /\ UNCHANGED <<call, orphan, dev>>
    BY <1>6, Zenon DEF Fire, WaitFor, Setup, device
  <2> QED
    BY <2>1, <2>2, <2>3, Zenon
<1>7. CASE PollDone
  BY <1>7, Zenon DEF PollDone, Met, Leave, Setup, device
<1> QED
  BY <1>1, <1>2, <1>3, <1>4, <1>5, <1>6, <1>7, ZenonT(30) DEF DriverStep

(* The command the controller executes for a call that is polled for is    *)
(* that of the call.                                                       *)
LEMMA DevIsCall ==
  ASSUME LbdInv, pc = "poll", ~orphan, dev # NoCommand
  PROVE  /\ dev.frames = call.frames
         /\ call.op # "flush" => dev.op = call.op /\ dev.lba = FisLba
<1>1. dev.frames = slot.frames /\ dev.op = slot.op /\ dev.lba = slot.lba
  BY Zenon DEF LbdInv, IssueTracked, Shapes, Commands
<1>2. CASE call.op = "flush"
  BY <1>1, <1>2 DEF LbdInv, IssueTracked, CallAccepted, NoCommand
<1>3. CASE call.op # "flush"
  BY <1>1, <1>3 DEF LbdInv, IssueTracked, Transfer
<1> QED
  BY <1>2, <1>3, Zenon

LEMMA FramesOfOne ==
  ASSUME NEW f
  PROVE  FramesIn(<<f>>) = {f}
  BY DEF FramesIn

LEMMA ProgressDevice ==
  ASSUME LbdInv, DeviceStep
  PROVE  ProgressTracked'
<1> USE DEF LbdInv, ProgressTracked, Kernel
<1>1. CASE BiosRelease
  BY <1>1, ZenonT(30) DEF BiosRelease, Moved, FisLba
<1>2. CASE DevReset \/ DevEngine
  <2>1. port'.ci = port.ci
    BY <1>2, ZenonT(30) DEF DevReset, DevEngine, Shapes, Ports
  <2>2. UNCHANGED <<pc, call, ret, drive, ram, disk, dev, orphan>>
    BY <1>2, Zenon DEF DevReset, DevEngine
  <2>3. (\A n : Moved(n)' <=> Moved(n)) /\ Len(call.frames)' = Len(call.frames)
    BY <2>2, Zenon DEF Moved, FisLba
  <2> QED
    BY <2>1, <2>2, <2>3, Zenon
<1>3. CASE DevFetch
  BY <1>3 DEF DevFetch, Moved, FisLba, IssueTracked
<1>4. CASE DevTransfer
  <2>1. UNCHANGED <<pc, call, ret, drive, port, orphan>> /\ dev # NoCommand
    BY <1>4 DEF DevTransfer, Executable, NoCommand
  <2>2. port.ci
    BY <2>1, Zenon DEF IssueTracked
  <2>3. ASSUME pc = "poll", ~call.tainted
        PROVE  Moved(dev.done)'
    <3> DEFINE n == dev.done
    <3>1. /\ ~orphan /\ Moved(n) /\ dev.frames = call.frames
          /\ call.op # "flush" => dev.op = call.op /\ dev.lba = FisLba
      BY <2>1, <2>3, DevIsCall, Zenon
    <3>2. /\ n \in Nat /\ dev'.done = n + 1 /\ FisLba' = FisLba /\ FisLba \in Nat
          /\ call.frames \in Seq(Frames) /\ n < Len(call.frames)
      <4>1. dev \in Commands /\ call \in Calls /\ dev' = [dev EXCEPT !.done = n + 1] /\ n < Len(dev.frames)
        BY <1>4, Zenon DEF DevTransfer, Shapes
      <4>2. n \in Nat /\ dev'.done = n + 1 /\ call.frames \in Seq(Frames)
        BY <4>1, Zenon DEF Commands, Calls
      <4>3. FisLba' = FisLba /\ FisLba \in Nat
        BY <2>1, <4>1, Constants DEF FisLba, Calls
      <4> QED
        BY <3>1, <4>1, <4>2, <4>3, Zenon
    <3>3. call.op \in {"read", "write"}
      BY <3>2 DEF CallAccepted, Shapes, Calls
    <3>4. FisLba + n \in 0 .. (Sectors - 1)
      <4>1. dev.lba + dev.count <= Sectors /\ n < dev.count
        BY <1>4, <3>1, <3>3, Zenon DEF DevTransfer, Executable, IssueTracked
      <4>2. dev.count \in Nat /\ dev.lba = FisLba
        BY <3>1, <3>3, Zenon DEF Shapes, Commands
      <4> QED
        BY <3>2, <4>1, <4>2, Constants
    <3>5. \A i \in 1 .. n : call.frames[i] # call.frames[n + 1] /\ call.frames[i] \in Frames
      BY <3>2 DEF CallAccepted
    <3>6. /\ call.frames[n + 1] \in Frames
          /\ call.op = "read" => ram' = [ram EXCEPT ![call.frames[n + 1]] = disk[FisLba + n]] /\ disk' = disk
          /\ call.op = "write" => disk' = [disk EXCEPT ![FisLba + n] = ram[call.frames[n + 1]]] /\ ram' = ram
      BY <1>4, <3>1, <3>2, <3>3 DEF DevTransfer
    <3>7. ram \in [Frames -> Values] /\ disk \in [0 .. (Sectors - 1) -> Values]
      BY Zenon DEF Shapes
    <3>8. ram'[call.frames[n + 1]] = disk'[FisLba + n]
      BY <3>3, <3>4, <3>6, <3>7, Zenon
    <3>9. ASSUME NEW i \in 1 .. n
          PROVE  ram'[call.frames[i]] = disk'[FisLba + i - 1]
      <4>1. ram[call.frames[i]] = disk[FisLba + i - 1]
        BY <3>1, Zenon DEF Moved
      <4>2. FisLba + i - 1 # FisLba + n /\ FisLba + i - 1 \in 0 .. (Sectors - 1)
        BY <3>2, <3>4, Constants
      <4> QED
        BY <3>3, <3>5, <3>6, <3>7, <4>1, <4>2, Zenon
    <3>10. ASSUME NEW i \in 1 .. (n + 1)
           PROVE  ram'[call.frames[i]] = disk'[FisLba + i - 1]
      <4>1. CASE i = n + 1
        BY <3>2, <3>8, <4>1
      <4>2. CASE i \in 1 .. n
        BY <3>9, <4>2, Zenon
      <4> QED
        BY <3>2, <4>1, <4>2
    <3> QED
      BY <2>1, <3>2, <3>10, Zenon DEF Moved
  <2> QED
    BY <2>1, <2>2, <2>3, Zenon
<1>5. CASE DevFinish
  <2>1. UNCHANGED <<pc, call, ret, drive, ram, disk>> /\ dev # NoCommand /\ dev' = NoCommand /\ ~orphan'
    BY <1>5 DEF DevFinish, Executable, NoCommand
  <2>2. port.ci /\ port'.ci = FALSE
    BY <1>5, <2>1, Zenon DEF DevFinish, IssueTracked, Shapes, Ports
  <2>3. ASSUME pc = "poll", ~call.tainted
        PROVE  Moved(Len(call.frames))
    BY <1>5, <2>1, <2>3, DevIsCall, Zenon DEF DevFinish
  <2> QED
    BY <2>1, <2>2, <2>3, Zenon DEF Moved, FisLba
<1>6. CASE DevReject
  <2>1. port'.ci = port.ci
    BY <1>6, Zenon DEF DevReject, Shapes, Ports
  <2> QED
    BY <1>6, <2>1, Zenon DEF DevReject, Moved, FisLba
<1> QED
  BY <1>1, <1>2, <1>3, <1>4, <1>5, <1>6, Zenon DEF DeviceStep

(* The sectors that are moved are counted.                                 *)
LEMMA ProgressStep ==
  ASSUME LbdInv, [Next]_vars
  PROVE  ProgressTracked'
<1>1. CASE UNCHANGED vars
  BY <1>1, Zenon DEF vars, device, LbdInv, ProgressTracked, Moved, FisLba
<1>2. CASE Caller \/ LbdReturn
  <2>1. pc' \in {"clear", "idle"} \/ (pc' = "return" /\ ret' # 0)
    <3>1. CASE Refuse
      BY <3>1 DEF Refuse
    <3>2. CASE Flush \/ LbdReturn
      BY <3>2, Zenon DEF Flush, LbdReturn
    <3>3. ASSUME NEW op, NEW lba, NEW count, Direct(op, lba, count) \/ Bounce(op, lba, count)
          PROVE  pc' = "clear"
      BY <3>3, Zenon DEF Direct, Bounce
    <3>4. ASSUME NEW lba, NEW count, BounceFails(lba, count)
          PROVE  pc' = "return" /\ ret' = -12
      BY <3>4, Zenon DEF BounceFails
    <3> QED
      BY <1>2, <3>1, <3>2, <3>3, <3>4, CallerCases
  <2> QED
    BY <2>1, Zenon DEF ProgressTracked
<1> QED
  BY <1>1, <1>2, ProgressDriver, ProgressDevice, Zenon DEF Next

-----------------------------------------------------------------------------
(* The theorems.                                                           *)

LEMMA LbdInvInit ==
  ASSUME Init
  PROVE  LbdInv
<1> USE DEF Init
<1>1. PICK used \in Frames :
        own = [f \in Frames |-> IF \E i \in DOMAIN UserFrames : UserFrames[i] = f THEN "user"
                                ELSE IF f <= used THEN "boot" ELSE "free"]
  BY Constants
<1>2. Shapes
  <2>1. own \in [Frames -> Owners]
    BY <1>1, Zenon DEF Owners
  <2>2. ram \in [Frames -> Values] /\ disk \in [0 .. (Sectors - 1) -> Values]
    BY BlankType, Zenon
  <2>3. port \in Ports
    BY Zenon DEF Ports
  <2>4. slot \in Commands /\ dev \in Commands /\ call \in Calls /\ drive \in Drives
    BY ConstantShapes, Zenon
  <2>5. elapsed \in 0 .. Timeout /\ pc \in Starting /\ ret = 0
    BY Constants DEF Starting
  <2> QED
    BY <2>1, <2>2, <2>3, <2>4, <2>5, Zenon DEF Shapes
<1>3. CallAccepted
  BY DEF CallAccepted, NoCall, Calling
<1>4. IssueTracked
  BY Zenon DEF IssueTracked, NoCommand
<1>5. FramesTracked
  <2>1. own[0] = "boot"
    <3>1. \A i \in DOMAIN UserFrames : UserFrames[i] # 0
      BY BufferAssumption
    <3> QED
      BY <1>1, <3>1, Constants
  <2>2. \A f \in Frames : own[f] # "control" /\ own[f] # "bounce"
    BY <1>1, Zenon
  <2>3. \A i \in DOMAIN UserFrames : own[UserFrames[i]] = "user"
    BY <1>1, BufferAssumption
  <2> QED
    BY <2>1, <2>2, <2>3, Zenon DEF FramesTracked, Registered, Starting, Building, Calling
<1>6. ProgressTracked
  BY Zenon DEF ProgressTracked
<1> QED
  BY <1>2, <1>3, <1>4, <1>5, <1>6, Zenon DEF LbdInv

(* Types, requests, commands, owners and progress are tracked as the       *)
(* inductive invariant says, in every reachable state.                     *)
THEOREM LbdInvariant == Spec => []LbdInv
<1>1. LbdInv /\ [Next]_vars => LbdInv'
  BY ShapesStep, CallStep, IssueStep, FramesStep, ProgressStep, Zenon DEF LbdInv
<1> QED
  BY <1>1, LbdInvInit, PTL DEF Spec

(* A read or a write that returns 0 and found the slot free has moved all  *)
(* its sectors, whatever the controller did and whenever it failed.        *)
THEOREM SuccessIsExecutedAlways == Spec => []SuccessIsExecuted
<1>1. LbdInv => SuccessIsExecuted
  BY DEF LbdInv, SuccessIsExecuted, ProgressTracked, Moved, Agree, Shapes, Calls
<1> QED
  BY <1>1, LbdInvariant, PTL

(* The controller executes a command only for the call that polls for it,  *)
(* in that call's memory, and within the disk, as long as no command was   *)
(* given up and the request did not overflow.                              *)
THEOREM DeviceStaysWithinCall == Spec => []DeviceWithinCall
<1>1. ASSUME LbdInv, dev # NoCommand, ~orphan
      PROVE  /\ Polling /\ [dev EXCEPT !.done = 0] = slot
             /\ pc = "poll" => \A f \in FramesIn(dev.frames) : own[f] \in {"user", "bounce"}
             /\ pc = "identify" => \A f \in FramesIn(dev.frames) : own[f] = "control"
  <2>1. Polling /\ [dev EXCEPT !.done = 0] = slot
    BY <1>1, Zenon DEF LbdInv, IssueTracked
  <2>2. ASSUME pc = "poll" PROVE \A f \in FramesIn(dev.frames) : own[f] \in {"user", "bounce"}
    BY <1>1, <2>2, DevIsCall, Zenon DEF LbdInv, CallAccepted, FramesIn
  <2>3. ASSUME pc = "identify" PROVE \A f \in FramesIn(dev.frames) : own[f] = "control"
    <3>1. dev.frames = <<port.base>>
      BY <1>1, <2>1, <2>3, Zenon DEF LbdInv, IssueTracked, Shapes, Commands
    <3>2. own[port.base] = "control"
      BY <1>1, <2>3, Zenon DEF LbdInv, FramesTracked, Building
    <3>3. FramesIn(<<port.base>>) = {port.base}
      BY Zenon, FramesOfOne
    <3> QED
      BY <3>1, <3>2, <3>3, Zenon
  <2> QED
    BY <2>1, <2>2, <2>3, Zenon
<1>2. ASSUME LbdInv, pc \in {"fire", "poll"}, slot.op # "flush", Fits(call.lba, call.count)
      PROVE  slot.lba + slot.count <= Sectors
  <2>1. slot = Transfer /\ call.op \in {"read", "write"}
    BY <1>2, Zenon DEF LbdInv, IssueTracked, CallAccepted, NoCommand, Calling, Shapes, Calls
  <2>2. (call.lba + call.count) % Wrap = call.lba + call.count
    BY <1>2, SmallMod, RequestAssumption DEF Fits, LbdInv, Shapes, Calls
  <2>3. call.lba + call.count < drive.total /\ drive.total <= Sectors
    BY <1>2, <2>1, <2>2, Constants DEF LbdInv, CallAccepted, Shapes, Drives
  <2>4. FisLba <= call.lba /\ FisLba \in Nat
    BY <1>2, SmallMod, Constants, Zenon DEF FisLba, LbdInv, Shapes, Calls
  <2> QED
    BY <1>2, <2>1, <2>3, <2>4, Constants DEF Transfer, LbdInv, Shapes, Calls, Drives
<1>3. LbdInv => DeviceWithinCall
  BY <1>1, <1>2, Zenon DEF DeviceWithinCall
<1> QED
  BY <1>3, LbdInvariant, PTL

(* The control page, the command tables, frame 0 and the bounce buffers    *)
(* are where they belong, whichever step of a port's initialisation or of  *)
(* a call fails.                                                           *)
THEOREM MemoryStaysAccounted == Spec => []MemoryAccounted
<1>1. ASSUME LbdInv
      PROVE  TypeOK
  BY <1>1, Zenon DEF LbdInv, Shapes, TypeOK, Commands, Calls, Ports, Ops
<1>2. LbdInv => MemoryAccounted
  BY <1>1, Zenon DEF LbdInv, FramesTracked, MemoryAccounted, Calling
<1> QED
  BY <1>2, LbdInvariant, PTL
=============================================================================
