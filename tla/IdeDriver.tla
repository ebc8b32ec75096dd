------------------------------ MODULE IdeDriver ------------------------------
(***************************************************************************)
(* Reading and writing sectors: ide_read_sectors, ide_write_sectors,       *)
(* ide_ata_access, ide_polling and ide_print_error of ide.c, one action    *)
(* per access to the drive, beside the drives of IdeDevice.                *)
(*                                                                         *)
(* The kernel is one thread of control and nothing it does between two     *)
(* calls reaches the channels, so a call is a path through pc:             *)
(*                                                                         *)
(*   "idle" -> "wait" -> "issue" -> "poll" -> "receive" -> "poll" ...       *)
(*                                 "poll" -> "send" -> "poll" ... "flush"  *)
(*                                 "poll" -> "return" -> "idle"            *)
(*                                                                         *)
(* The drives move on their own between any two of these steps.            *)
(***************************************************************************)
EXTENDS IdeDevice, AtaAddress

CONSTANTS
  Table,       \* g_ide_devices[0..4], as ide_init left it
  Requests,    \* the calls made
  WORD         \* the modulus of a uint32: 2^32

ASSUME TableAssumption ==
  /\ DOMAIN Table = 0..4
  /\ \A d \in 0..4 : Table[d] \in [reserved: {0, 1}, type: {"ATA", "ATAPI"},
                                  dev: Channels \X {0, 1}, lba: BOOLEAN, size: Nat]
ASSUME RequestAssumption ==
  /\ WORD \in Nat \ {0}
  /\ \A r \in Requests :
       /\ r.dir \in {"read", "write"} /\ r.drive \in 0..255
       /\ r.lba \in 0..(WORD - 1) /\ r.n \in 0..255
       /\ r.data \in Seq(Data)
       /\ r.dir = "write" => Len(r.data) = r.n

VARIABLES
  pc,          \* where the driver is
  req,         \* the arguments of the call
  i,           \* the loop index of ide_ata_access
  err,         \* ide_ata_access's result; "unset" while the C variable is
  buffer,      \* what a read has put at buffer
  ret,         \* what the last call returned
  nien         \* [channel -> BOOLEAN]: the drive's nIEN bit, set to mask its interrupt

driverVars == <<pc, req, i, err, buffer, ret, nien>>
vars == <<deviceVars, driverVars>>

MAXIMUM_IDE_DEVICES == 5

\* g_ide_devices[drive].  One past the array lies g_ide_irq_invoked, a byte
\* that stays 0, where the entry's "reserved" is looked for.
Absent == [reserved |-> 0, type |-> "ATA", dev |-> <<0, 0>>, lba |-> TRUE, size |-> 0]
Entry(drive) == IF drive \in DOMAIN Table THEN Table[drive] ELSE Absent

Device  == Entry(req.drive).dev
Channel == Device[1]

Unset     == -1
NoRequest == [dir |-> "none", drive |-> 0, lba |-> 0, n |-> 0, data |-> << >>]
PCs       == {"idle", "wait", "issue", "poll", "receive", "send", "flush", "return"}

DriverInit ==
  /\ pc = "idle" /\ req = NoRequest
  /\ i = 0 /\ err = Unset /\ buffer = << >> /\ ret = 0
  /\ nien = [c \in Channels |-> FALSE]

----------------------------------------------------------------------------
(* ide_print_error: the ERROR bits are tested from the lowest to the       *)
(* highest and each one found overwrites err, so the highest names it.     *)

FromHighest == <<"BBK", "UNC", "MC", "IDNF", "MCR", "ABRT", "TK0NF", "AMNF">>
CodeOf == [BBK |-> 13, UNC |-> 22, MC |-> 3, IDNF |-> 21, MCR |-> 3, ABRT |-> 20,
           TK0NF |-> 3, AMNF |-> 7]

ErrorCode(bits) ==
  LET Found == {k \in DOMAIN FromHighest : FromHighest[k] \in bits}
  IN  IF Found = {} THEN 2
      ELSE CodeOf[FromHighest[CHOOSE k \in Found : \A m \in Found : k <= m]]

\* Mutant: the codes come back negated.
PrintErrorNegated(e, bits) == IF e = 2 THEN -ErrorCode(bits) ELSE -e
PrintError(e, bits) ==
  IF e = 1 THEN 19
  ELSE IF e = 2 THEN ErrorCode(bits)
  ELSE IF e = 3 THEN 23
  ELSE IF e = 4 THEN 8
  ELSE e

----------------------------------------------------------------------------
(* ide_polling(channel, 1)'s answer once BSY is clear. *)

\* Mutant: the error bits are not looked at.
PollResultBlind(c) == 0
PollResult(c) ==
  IF ERR(c) THEN 2 ELSE IF DF(c) THEN 1 ELSE IF ~DRQ(c) THEN 3 ELSE 0

\* (I) of ide_polling: four port reads, 400ns in all.  Mutants: no delay; a
\* wait for DRQ in it.
DelayDropped(c) == TRUE
DelayForDrq(c) == phase[c] = "data"
Delayed(c) == phase[c] \notin {"starting", "gap"}

\* The write to ATA_REG_CONTROL that is to set nIEN.
MaskInterrupts(c) ==
  nien' = IF PortOf(c, ATA_REG_CONTROL) = ControlBase(c)
          THEN [nien EXCEPT ![c] = TRUE] ELSE nien

----------------------------------------------------------------------------
(* ide_read_sectors and ide_write_sectors, up to ide_ata_access. *)

NotFound(r)   == r.drive > MAXIMUM_IDE_DEVICES \/ Entry(r.drive).reserved = 0
PastTheEndOfStart(r) ==       \* mutant: only the first sector is looked at
  r.lba > Entry(r.drive).size /\ Entry(r.drive).type = "ATA"
PastTheEnd(r) ==
  (r.lba + r.n) % WORD > Entry(r.drive).size /\ Entry(r.drive).type = "ATA"

\* A call whose arguments are refused.
Reject(r) ==
  /\ pc = "idle"
  /\ NotFound(r) \/ PastTheEnd(r)
  /\ ret' = IF NotFound(r) THEN -1 ELSE -2
  /\ req' = r /\ buffer' = << >> /\ i' = 0 /\ err' = Unset
  /\ UNCHANGED <<pc, nien, deviceVars>>

\* A call that goes on: to ide_ata_access, or for an ATAPI drive straight to
\* ide_print_error.
Call(r) ==
  /\ pc = "idle"
  /\ ~NotFound(r) /\ ~PastTheEnd(r)
  /\ req' = r /\ buffer' = << >> /\ i' = 0 /\ err' = Unset
  /\ IF Entry(r.drive).type = "ATA"
     THEN pc' = "wait" /\ MaskInterrupts(Entry(r.drive).dev[1])
     ELSE pc' = "return" /\ UNCHANGED nien
  /\ UNCHANGED <<ret, deviceVars>>

----------------------------------------------------------------------------
(* ide_ata_access. *)

\* (III) Wait if the drive is busy.
WaitNotBusy ==
  /\ pc = "wait"
  /\ ~BSY(Channel)
  /\ pc' = "issue"
  /\ UNCHANGED <<req, i, err, buffer, ret, nien, deviceVars>>

\* (I), (IV)-(VI): the command the drive takes from the task file.
CommandOf(r) ==
  LET mode == LbaMode(Entry(r.drive).lba, r.lba)
      file == WriteParameters(Entry(r.drive).dev[1], mode, r.lba, r.n)
  IN  [op |-> r.dir, dev |-> Entry(r.drive).dev,
       at |-> DecodeAddress(mode, HeadNumber(mode, r.lba), file), left |-> DecodeCount(mode, file)]

\* Mutant: the loop ends one sector early.
LoopHeadShort(k) ==
  IF k + 1 < req.n THEN "poll" ELSE IF req.dir = "read" THEN "return" ELSE "flush"
\* Where the loop over the sectors goes when k of them are done.
LoopHead(k) ==
  IF k < req.n THEN "poll" ELSE IF req.dir = "read" THEN "return" ELSE "flush"

\* A PIO read that has its last sector is over: err is what return 0 gives.
ErrAt(k) == IF LoopHead(k) = "return" THEN 0 ELSE err

Issue ==
  /\ pc = "issue"
  /\ Command(Channel, CommandOf(req))
  /\ pc' = LoopHead(0) /\ err' = ErrAt(0)
  /\ UNCHANGED <<req, i, buffer, ret, nien>>

\* ide_polling(channel, 1) before a sector is read.
PollRead ==
  /\ pc = "poll" /\ req.dir = "read"
  /\ Delayed(Channel) /\ ~BSY(Channel)
  /\ IF PollResult(Channel) = 0
     THEN pc' = "receive" /\ err' = err
     ELSE pc' = "return" /\ err' = PollResult(Channel)
  /\ UNCHANGED <<req, i, buffer, ret, nien, deviceVars>>

\* ide_polling(channel, 0) before a sector is written and after the flush.
PollWrite ==
  /\ pc = "poll" /\ req.dir = "write"
  /\ Delayed(Channel) /\ ~BSY(Channel)
  /\ IF i < req.n THEN pc' = "send" /\ err' = err ELSE pc' = "return" /\ err' = 0
  /\ UNCHANGED <<req, i, buffer, ret, nien, deviceVars>>

Receive ==
  /\ pc = "receive"
  /\ DataIn(Channel)
  /\ buffer' = Append(buffer, PortValue(Channel))
  /\ i' = i + 1 /\ pc' = LoopHead(i + 1) /\ err' = ErrAt(i + 1)
  /\ UNCHANGED <<req, ret, nien>>

Send ==
  /\ pc = "send"
  /\ DataOut(Channel, req.data[i + 1])
  /\ i' = i + 1 /\ pc' = LoopHead(i + 1)
  /\ UNCHANGED <<req, err, buffer, ret, nien>>

Flush ==
  /\ pc = "flush"
  /\ Command(Channel, [op |-> "flush", dev |-> Device, at |-> 0, left |-> 0])
  /\ pc' = "poll"
  /\ UNCHANGED <<req, i, err, buffer, ret, nien>>

\* ide_print_error turns err into what the caller gets; an err nobody set is
\* whatever byte the stack holds.
Return ==
  /\ pc = "return"
  /\ \E e \in IF err = Unset THEN 0..255 ELSE {err} : ret' = PrintError(e, fault[Channel])
  /\ pc' = "idle"
  /\ UNCHANGED <<req, i, err, buffer, nien, deviceVars>>

----------------------------------------------------------------------------
Driver ==
  \/ \E r \in Requests : Reject(r) \/ Call(r)
  \/ WaitNotBusy \/ Issue \/ PollRead \/ PollWrite
  \/ Receive \/ Send \/ Flush \/ Return

DriveMoves(c) == DeviceStep(c) /\ UNCHANGED driverVars

Init == DeviceInit /\ DriverInit
Next == Driver \/ \E c \in Channels : DriveMoves(c)
Spec == Init /\ [][Next]_vars

\* The kernel keeps running while a call is under way, and a drive ends what
\* it has begun: without the second no polling loop could be trusted.
Advance == WaitNotBusy \/ Issue \/ PollRead \/ PollWrite \/ Receive \/ Send \/ Flush \/ Return
Fairness ==
  /\ WF_vars(Advance)
  /\ \A c \in Channels : WF_vars(DriveMoves(c))
FairSpec == Spec /\ Fairness

----------------------------------------------------------------------------
(* Properties. *)

\* The place of the k-th sector of a call; a drive that is not there has none.
PlaceOf(r, k) ==
  <<IF Entry(r.drive).reserved = 0 THEN << >> ELSE Entry(r.drive).dev, r.lba + k - 1>>

\* Every variable holds what its C variable or register can.
TypeOK ==
  /\ DeviceTypeOK
  /\ pc \in PCs /\ req \in Requests \cup {NoRequest}
  /\ i \in 0..255 /\ err \in -1..255 /\ ret \in -2..255
  /\ buffer \in Seq(Data)
  /\ nien \in [Channels -> BOOLEAN]

\* Between two calls both channels are at rest: ide_ata_access never leaves a
\* drive with a command half done, whatever error it ran into on the way.
QuietOnReturn == pc = "idle" => \A c \in Channels : phase[c] = "idle"

\* When ide_ata_access writes a read or write command the drive takes it: the
\* wait of step (III), which looks at BSY alone, is enough.
CommandTaken == pc = "issue" => phase[Channel] = "idle"

\* rep insw runs only while the drive offers the very sectors this call asked
\* for: the answer of ide_polling is never stale.
ReadUnderDrq ==
  pc = "receive" =>
    /\ phase[Channel] = "data" /\ job[Channel].op = "read"
    /\ job[Channel].left = req.n - i

\* The drive has ended its command with a fault.
DriveFailed == phase[Channel] = "idle" /\ fault[Channel] # {}

\* rep outsw runs only while the drive wants the very sector it is given,
\* although ide_ata_access does not look at DRQ when it writes; or after the
\* drive gave up the command, and then nobody takes the words.
WriteUnderDrq ==
  pc = "send" =>
    \/ DriveFailed
    \/ /\ phase[Channel] = "data" /\ job[Channel].op = "write"
       /\ job[Channel].left = req.n - i

\* A read that returns 0 has put the sectors asked for, in order and nothing
\* else, at buffer.
ReadIsRight ==
  (pc = "idle" /\ req.dir = "read" /\ ret = 0) =>
    /\ Len(buffer) = req.n
    /\ \A k \in 1..req.n : buffer[k] = seen[PlaceOf(req, k)]

\* Every call returns: no polling loop is entered that the drive does not end.
Returns == pc # "idle" ~> pc = "idle"

\* The driver and the drives together are a block device, whatever fails.
MovedSoFar ==
  IF pc = "idle" THEN 0
  ELSE IF req.dir # "write" THEN Len(buffer)
  ELSE IF pc \in {"wait", "issue"} THEN 0
  ELSE IF job[Channel].op = "write" /\ ~DriveFailed THEN req.n - job[Channel].left
  ELSE req.n
Abstract == INSTANCE BlockDevice WITH
  Places <- Places, contents <- seen,
  call <- IF pc = "idle" THEN [none |-> TRUE] ELSE req,
  moved <- MovedSoFar, got <- buffer, result <- ret,
  broken <- DriveFailed
ImplementsBlockDevice == Abstract!Spec

\* Calls for at least one sector.  The driver takes one for none as well, and
\* writes a count of 0, which a drive reads as the largest: the loop makes no
\* turn and the drive stays in the middle of 256 sectors.
Counted(calls) == \A r \in calls : r.n # 0

\* Calls as users of a table that ide_init filled make them: for ATA drives,
\* whose size the table has, with an address that neither wraps nor exceeds
\* what its mode can express.  (A request is also not the sign for none.)
Honest(calls) ==
  /\ Counted(calls)
  /\ \A r \in calls :
       /\ r # [none |-> TRUE]
       /\ ~NotFound(r) =>
            /\ Entry(r.drive).type = "ATA"
            /\ Entry(r.drive).dev \in Drives
            /\ Entry(r.drive).size = Capacity[Entry(r.drive).dev]
            /\ r.lba + r.n < WORD
            /\ Fits(LbaMode(Entry(r.drive).lba, r.lba), r.lba)

\* What the comment "2- Disable IRQs" says: the drives' interrupts are masked
\* while the driver polls.
InterruptsMasked == pc \notin {"idle", "return"} => nien[Channel]

\* What the comment "print if any error in writing" says: a write that the
\* drive ended with an error does not return 0.
WriteErrorReported ==
  (pc = "idle" /\ req.dir = "write" /\ ret = 0) =>
    \A k \in 1..req.n : seen[PlaceOf(req, k)] = req.data[k]

\* What the comment "send the flush commands" says: a write that returns 0 is
\* on the media.
WriteIsDurable ==
  (pc = "idle" /\ req.dir = "write" /\ ret = 0) =>
    \A k \in 1..req.n : media[PlaceOf(req, k)] = req.data[k]

\* What the comment "Check if inputs are valid" says: only sectors that are
\* there are asked of an ATA drive.
InputsValid ==
  pc = "issue" => \A k \in 1..req.n : PlaceOf(req, k) \in Places

\* What the comment "print if any error in reading" says: a read that returns
\* 0 was done, so one that moved nothing does not return 0.
ReadOfAnything == (pc = "idle" /\ req.dir = "read" /\ ret = 0) => Len(buffer) = req.n
=============================================================================
