--------------------------- MODULE IdeDriverProofs ---------------------------
(***************************************************************************)
(* The task file ide_ata_access writes is read back by the drive as the    *)
(* address and the count it was written for, in each of the three modes and*)
(* for every address the mode can hold.                                    *)
(*                                                                         *)
(* For any drives, any table, any faults and any requests for at least one *)
(* sector: type correctness; both channels are at rest between calls; read *)
(* and write commands are taken; the loops move data only while the drive  *)
(* offers it or asks for it.                                               *)
(*                                                                         *)
(* For requests that are Honest: a read that returns 0 is right, and driver*)
(* and drives implement a block device.                                    *)
(***************************************************************************)
EXTENDS IdeDriver, TLAPS

----------------------------------------------------------------------------
(* The task file, register by register. *)

TaskFiles == [cur: [Slots -> Int], hob: [Slots -> Int]]

LEMMA SlotFact ==
  ASSUME NEW c \in {0, 1}
  PROVE  /\ SlotOf(c, ATA_REG_SECCOUNT0) = 2 /\ SlotOf(c, ATA_REG_SECCOUNT1) = 2
         /\ SlotOf(c, ATA_REG_LBA0) = 3 /\ SlotOf(c, ATA_REG_LBA3) = 3
         /\ SlotOf(c, ATA_REG_LBA1) = 4 /\ SlotOf(c, ATA_REG_LBA4) = 4
         /\ SlotOf(c, ATA_REG_LBA2) = 5 /\ SlotOf(c, ATA_REG_LBA5) = 5
BY DEF SlotOf, PortOf, BasePort, ControlBase, ATA_REG_SECCOUNT0, ATA_REG_SECCOUNT1, ATA_REG_LBA0,
       ATA_REG_LBA1, ATA_REG_LBA2, ATA_REG_LBA3, ATA_REG_LBA4, ATA_REG_LBA5

\* The low registers hold the low bytes, whatever was pushed before.
LEMMA LowFact ==
  ASSUME NEW c \in {0, 1}, NEW file \in TaskFiles, NEW n \in Int,
         NEW io \in [b0: Int, b1: Int, b2: Int, b3: Int]
  PROVE  LET f == LowBytes(file, c, io, n)
         IN  /\ f.cur[2] = n /\ f.cur[3] = io.b0 /\ f.cur[4] = io.b1 /\ f.cur[5] = io.b2
             /\ f.hob[2] = file.cur[2] /\ f.hob[3] = file.cur[3]
<1> DEFINE f1 == Push(file, c, ATA_REG_SECCOUNT0, n)
           f2 == Push(f1, c, ATA_REG_LBA0, io.b0)
           f3 == Push(f2, c, ATA_REG_LBA1, io.b1)
           f4 == Push(f3, c, ATA_REG_LBA2, io.b2)
<1>0. LowBytes(file, c, io, n) = f4  BY DEF LowBytes
<1> USE DEF Slots
<1>1. f1 \in TaskFiles /\ f1.cur[2] = n /\ f1.hob[2] = file.cur[2] /\ f1.cur[3] = file.cur[3]
  BY SlotFact DEF Push, TaskFiles
<1> HIDE DEF f1
<1>2. /\ f2 \in TaskFiles /\ f2.cur[2] = n /\ f2.hob[2] = file.cur[2]
      /\ f2.cur[3] = io.b0 /\ f2.hob[3] = file.cur[3]
  BY <1>1, SlotFact DEF Push, TaskFiles
<1> HIDE DEF f2
<1>3. /\ f3 \in TaskFiles /\ f3.cur[2] = n /\ f3.hob[2] = file.cur[2]
      /\ f3.cur[3] = io.b0 /\ f3.hob[3] = file.cur[3] /\ f3.cur[4] = io.b1
  BY <1>2, SlotFact DEF Push, TaskFiles
<1> HIDE DEF f3
<1>4. /\ f4.cur[2] = n /\ f4.hob[2] = file.cur[2] /\ f4.cur[3] = io.b0
      /\ f4.hob[3] = file.cur[3] /\ f4.cur[4] = io.b1 /\ f4.cur[5] = io.b2
  BY <1>3, SlotFact DEF Push, TaskFiles
<1> QED BY <1>0, <1>4

\* The 48-bit command's first four writes leave the high bytes in the slots.
LEMMA HighFact ==
  ASSUME NEW c \in {0, 1}, NEW io \in [b0: Int, b1: Int, b2: Int, b3: Int]
  PROVE  LET f == HighBytes(EmptyTaskFile, c, io)
         IN  f \in TaskFiles /\ f.cur[2] = 0 /\ f.cur[3] = io.b3
<1> DEFINE f1 == Push(EmptyTaskFile, c, ATA_REG_SECCOUNT1, 0)
           f2 == Push(f1, c, ATA_REG_LBA3, io.b3)
           f3 == Push(f2, c, ATA_REG_LBA4, 0)
           f4 == Push(f3, c, ATA_REG_LBA5, 0)
<1>0. HighBytes(EmptyTaskFile, c, io) = f4  BY DEF HighBytes
<1> USE DEF Slots
<1>1. f1 \in TaskFiles /\ f1.cur[2] = 0
  <2>1. EmptyTaskFile \in TaskFiles BY DEF EmptyTaskFile, TaskFiles
  <2> QED BY <2>1, SlotFact DEF Push, TaskFiles
<1> HIDE DEF f1
<1>2. f2 \in TaskFiles /\ f2.cur[2] = 0 /\ f2.cur[3] = io.b3
  BY <1>1, SlotFact DEF Push, TaskFiles
<1> HIDE DEF f2
<1>3. f3 \in TaskFiles /\ f3.cur[2] = 0 /\ f3.cur[3] = io.b3
  BY <1>2, SlotFact DEF Push, TaskFiles
<1> HIDE DEF f3
<1>4. f4 \in TaskFiles /\ f4.cur[2] = 0 /\ f4.cur[3] = io.b3
  BY <1>3, SlotFact DEF Push, TaskFiles
<1> QED BY <1>0, <1>4

\* What the drive finds in its registers.
Holds(file, mode, io, n) ==
  /\ file.cur[2] = n /\ file.cur[3] = io.b0 /\ file.cur[4] = io.b1 /\ file.cur[5] = io.b2
  /\ mode = "LBA48" => file.hob[2] = 0 /\ file.hob[3] = io.b3

LEMMA TaskFileFact ==
  ASSUME NEW c \in {0, 1}, NEW mode \in {"CHS", "LBA28", "LBA48"}, NEW lba \in Nat, NEW n \in Int
  PROVE  Holds(WriteParameters(c, mode, lba, n), mode, LbaIo(mode, lba), n)
<1> DEFINE io == LbaIo(mode, lba)
<1>1. EmptyTaskFile \in TaskFiles
  BY DEF EmptyTaskFile, TaskFiles
<1>2. io \in [b0: Int, b1: Int, b2: Int, b3: Int]
  BY DEF LbaIo, ChsSector, ChsCylinder
<1> HIDE DEF io
<1> DEFINE h == HighBytes(EmptyTaskFile, c, io)
<1>3. h \in TaskFiles /\ h.cur[2] = 0 /\ h.cur[3] = io.b3
  BY <1>2, HighFact
<1> HIDE DEF h
<1>4. WriteParameters(c, mode, lba, n)
        = LowBytes(IF mode = "LBA48" THEN h ELSE EmptyTaskFile, c, io, n)
  BY DEF WriteParameters, io, h
<1> QED BY <1>1, <1>2, <1>3, <1>4, LowFact DEF io, Holds

----------------------------------------------------------------------------
(* The task file is read back as the address and the count. *)

\* A number below 2^32 is the sum of its bytes.
LEMMA BytesFact ==
  ASSUME NEW x \in Nat
  PROVE  /\ x = (x % 256) + 256 * ((x \div 256) % 256) + 65536 * ((x \div 65536) % 256)
                 + 16777216 * (x \div 16777216)
         /\ x < 268435456 => (x \div 16777216) % 16 = x \div 16777216
         /\ x < 4294967296 => (x \div 16777216) % 256 = x \div 16777216
<1>1. x = 256 * (x \div 256) + (x % 256)  BY SMT
<1>2. x \div 256 = 256 * (x \div 65536) + ((x \div 256) % 256)  BY SMT
<1>3. x \div 65536 = 256 * (x \div 16777216) + ((x \div 65536) % 256)  BY SMT
<1>4. x < 268435456 => (x \div 16777216) % 16 = x \div 16777216  BY SMT
<1>5. x < 4294967296 => (x \div 16777216) % 256 = x \div 16777216  BY SMT
<1> QED BY <1>1, <1>2, <1>3, <1>4, <1>5, SMT

\* The address that reaches the drive is the one the caller gave.
THEOREM AddressRoundTrip ==
  ASSUME NEW c \in {0, 1}, NEW mode \in {"CHS", "LBA28", "LBA48"},
         NEW lba \in Nat, NEW n \in Int, Fits(mode, lba)
  PROVE  DecodeAddress(mode, HeadNumber(mode, lba), WriteParameters(c, mode, lba, n)) = lba
<1> DEFINE f == WriteParameters(c, mode, lba, n)
           io == LbaIo(mode, lba)
<1>1. Holds(f, mode, io, n)
  BY TaskFileFact
<1>2. CASE mode = "CHS"
  <2> DEFINE track == lba \div 63
             cyl == ChsCylinder(lba)
  <2>1. track \in Nat /\ lba = track * 63 + (lba % 63) /\ track < 1048576
    BY <1>2, SMT DEF Fits, CHS_LIMIT
  <2>2. lba + 1 - ChsSector(lba) = track * 63
    BY <2>1, SMT DEF ChsSector
  <2>3. cyl = track \div 16 /\ ChsHead(lba) = track % 16
    BY <2>1, <2>2, SMT DEF ChsCylinder, ChsHead
  <2>4. io.b0 = (lba % 63) + 1 /\ io.b1 + 256 * io.b2 = cyl
    BY <1>2, <2>1, <2>3, SMT DEF LbaIo, ChsSector
  <2>5. DecodeAddress(mode, HeadNumber(mode, lba), f)
          = ((io.b1 + 256 * io.b2) * 16 + ChsHead(lba)) * 63 + io.b0 - 1
    BY <1>1, <1>2, SMT DEF Holds, DecodeAddress, HeadNumber
  <2>6. (track \div 16) * 16 + (track % 16) = track
    BY <2>1, SMT
  <2> HIDE DEF track, cyl, io
  <2>7. ((io.b1 + 256 * io.b2) * 16 + ChsHead(lba)) * 63 + io.b0 - 1 = lba
    BY <2>1, <2>3, <2>4, <2>6, SMT
  <2> QED BY <2>5, <2>7
<1>3. CASE mode = "LBA28"
  <2>1. lba < 268435456 BY <1>3, SMT DEF Fits, LBA28_LIMIT
  <2>2. /\ io.b0 = lba % 256 /\ io.b1 = (lba \div 256) % 256
        /\ io.b2 = (lba \div 65536) % 256
    BY <1>3, SMT DEF LbaIo
  <2>3. DecodeAddress(mode, HeadNumber(mode, lba), f)
          = io.b0 + 256 * io.b1 + 65536 * io.b2 + 16777216 * ((lba \div 16777216) % 16)
    BY <1>1, <1>3, SMT DEF Holds, DecodeAddress, HeadNumber
  <2> QED BY <2>1, <2>2, <2>3, BytesFact, SMT
<1>4. CASE mode = "LBA48"
  <2>1. lba < 4294967296 BY <1>4, SMT DEF Fits, LBA28_LIMIT
  <2>2. /\ io.b0 = lba % 256 /\ io.b1 = (lba \div 256) % 256
        /\ io.b2 = (lba \div 65536) % 256 /\ io.b3 = (lba \div 16777216) % 256
    BY <1>4, SMT DEF LbaIo
  <2>3. DecodeAddress(mode, HeadNumber(mode, lba), f)
          = io.b0 + 256 * io.b1 + 65536 * io.b2 + 16777216 * io.b3
    BY <1>1, <1>4, SMT DEF Holds, DecodeAddress, HeadNumber
  <2> QED BY <2>1, <2>2, <2>3, BytesFact, SMT
<1> QED BY <1>2, <1>3, <1>4

\* So does the count; with the 48-bit command too, whose high byte is 0.
THEOREM CountRoundTrip ==
  ASSUME NEW c \in {0, 1}, NEW mode \in {"CHS", "LBA28", "LBA48"}, NEW lba \in Nat, NEW n \in Int,
         n # 0
  PROVE  DecodeCount(mode, WriteParameters(c, mode, lba, n)) = n
<1> DEFINE f == WriteParameters(c, mode, lba, n)
<1>1. Holds(f, mode, LbaIo(mode, lba), n)
  BY TaskFileFact
<1> QED BY <1>1, SMT DEF DecodeCount, Holds

\* Any address is read back as some sector number, right or wrong.
LEMMA AddressIsNat ==
  ASSUME NEW c \in {0, 1}, NEW mode \in {"CHS", "LBA28", "LBA48"}, NEW lba \in Nat, NEW n \in Int
  PROVE  DecodeAddress(mode, HeadNumber(mode, lba), WriteParameters(c, mode, lba, n)) \in Nat
<1> DEFINE f == WriteParameters(c, mode, lba, n)
           io == LbaIo(mode, lba)
<1>1. Holds(f, mode, io, n)
  BY TaskFileFact
<1>2. CASE mode = "CHS"
  <2>1. lba + 1 - ChsSector(lba) \in Nat /\ ChsSector(lba) \in Nat /\ ChsSector(lba) >= 1
    BY SMT DEF ChsSector
  <2>2. ChsCylinder(lba) \in Nat /\ ChsHead(lba) \in Nat
    BY <2>1, SMT DEF ChsCylinder, ChsHead
  <2>3. io.b0 \in Nat /\ io.b0 >= 1 /\ io.b1 \in Nat /\ io.b2 \in Nat
    BY <1>2, <2>1, <2>2, SMT DEF LbaIo
  <2>4. DecodeAddress(mode, HeadNumber(mode, lba), f)
          = ((io.b1 + 256 * io.b2) * 16 + ChsHead(lba)) * 63 + io.b0 - 1
    BY <1>1, <1>2, SMT DEF Holds, DecodeAddress, HeadNumber
  <2> HIDE DEF io
  <2>5. ((io.b1 + 256 * io.b2) * 16 + ChsHead(lba)) * 63 + io.b0 - 1 \in Nat
    BY <2>2, <2>3, SMT
  <2> QED BY <2>4, <2>5
<1>3. CASE mode = "LBA28"
  BY <1>1, <1>3, SMT DEF Holds, DecodeAddress, HeadNumber, LbaIo
<1>4. CASE mode = "LBA48"
  BY <1>1, <1>4, SMT DEF Holds, DecodeAddress, HeadNumber, LbaIo
<1> QED BY <1>2, <1>3, <1>4

----------------------------------------------------------------------------
(* The driver's table. *)

Entries == [reserved: {0, 1}, type: {"ATA", "ATAPI"}, dev: Channels \X {0, 1},
            lba: BOOLEAN, size: Nat]

----------------------------------------------------------------------------
(* The inductive invariant. *)

\* Only a write command holds a sector that was sent and not yet stored.
LatchInv == \A c \in Channels : job[c].op # "write" => latch[c] = << >>

\* Outside a call, and on the other channel at any time, nothing goes on.
RestInv == \A c \in Channels : (pc = "idle" \/ c # Channel) => phase[c] = "idle"

\* A read under way has as many sectors left as the loop has turns left; a
\* drive that is idle in the middle of one has failed.
ReadInv ==
  /\ pc \in {"poll", "receive"} /\ req.dir = "read" =>
       /\ i < req.n
       /\ phase[Channel] # "idle" =>
            job[Channel].op = "read" /\ job[Channel].left = req.n - i
  /\ pc = "receive" => req.dir = "read" /\ phase[Channel] = "data"

\* A write under way has one sector more left than the loop has turns while
\* a sector is in the latch; once the last is sent only it, or the flush, is
\* still being served.
WriteInv ==
  pc \in {"poll", "send", "flush"} /\ req.dir = "write" =>
    /\ i <= req.n
    /\ pc = "send" => i < req.n /\ phase[Channel] \in {"idle", "data"}
    /\ pc = "flush" => i = req.n
    /\ phase[Channel] # "idle" /\ job[Channel].op = "write" =>
         /\ job[Channel].left = req.n - i + Len(latch[Channel])
         /\ phase[Channel] \in {"starting", "data"} => latch[Channel] = << >>
         /\ phase[Channel] = "gap" => latch[Channel] # << >>
         /\ i = req.n => latch[Channel] # << >>
    /\ phase[Channel] # "idle" /\ job[Channel].op # "write" =>
         /\ job[Channel].op = "flush" /\ pc = "poll" /\ i = req.n
         /\ phase[Channel] \in {"starting", "busy"}

\* Where a call is.
PathInv ==
  /\ pc # "idle" => req \in Requests /\ req.n # 0
  /\ pc \in {"wait", "issue", "return"} => phase[Channel] = "idle"
  /\ pc \in {"wait", "issue"} => i = 0
  /\ pc = "send" => req.dir = "write"
  /\ pc = "flush" => req.dir = "write"

\* While a drive is serving, the ERROR register is clear.
FaultInv == \A c \in Channels : phase[c] \in {"busy", "data", "gap"} => fault[c] = {}

\* The sector a drive offers, or asks for, is one it has.
PlaceInv == \A c \in Channels : phase[c] = "data" => Target(c) \in Places

IInv == TypeOK /\ LatchInv /\ RestInv /\ ReadInv /\ WriteInv /\ PathInv /\ FaultInv /\ PlaceInv

----------------------------------------------------------------------------
(* Facts about the definitions. *)

LEMMA EntryFact ==
  ASSUME NEW r \in Requests \cup {NoRequest}
  PROVE  Entry(r.drive) \in Entries /\ Entry(r.drive).dev[1] \in Channels
BY TableAssumption, RequestAssumption DEF Entry, Entries, Absent, NoRequest, Channels

LEMMA CommandFact ==
  ASSUME NEW r \in Requests, r.n # 0
  PROVE  /\ CommandOf(r) \in Jobs
         /\ CommandOf(r).op = r.dir /\ CommandOf(r).left = r.n
         /\ CommandOf(r).dev = Entry(r.drive).dev
<1> DEFINE e == Entry(r.drive)
           c == e.dev[1]
           mode == LbaMode(e.lba, r.lba)
           file == WriteParameters(c, mode, r.lba, r.n)
           at == DecodeAddress(mode, HeadNumber(mode, r.lba), file)
           count == DecodeCount(mode, file)
<1>1. e \in Entries /\ c \in {0, 1}
  BY EntryFact DEF Channels
<1>2. r.lba \in Nat /\ r.n \in 1..255 /\ r.dir \in {"read", "write"}
  BY RequestAssumption
<1>3. mode \in {"CHS", "LBA28", "LBA48"}
  BY DEF LbaMode
<1>4. CommandOf(r) = [op |-> r.dir, dev |-> e.dev, at |-> at, left |-> count]
  BY DEF CommandOf
<1>5. at \in Nat /\ count = r.n
  <2> HIDE DEF c, mode
  <2>1. c \in {0, 1} /\ r.n \in Int /\ r.n # 0  BY <1>1, <1>2
  <2>2. at \in Nat  BY <1>2, <1>3, <2>1, AddressIsNat, Zenon
  <2>3. count = r.n  BY <1>2, <1>3, <2>1, CountRoundTrip, Zenon
  <2> QED BY <2>2, <2>3
<1> HIDE DEF at, count
<1> QED
  BY <1>1, <1>2, <1>4, <1>5 DEF Jobs, Entries

LEMMA AdvancedFact ==
  ASSUME NEW j \in Jobs, j.left >= 1
  PROVE  /\ Advanced(j) \in Jobs /\ Advanced(j).op = j.op /\ Advanced(j).dev = j.dev
         /\ Advanced(j).at = j.at + 1 /\ Advanced(j).left = j.left - 1
<1>1. /\ j.op \in {"none", "read", "write", "flush"} /\ j.dev \in Channels \X {0, 1}
      /\ j.at \in Nat /\ j.left \in Nat
  BY DEF Jobs
<1>2. j.at + 1 \in Nat /\ j.left - 1 \in Nat
  BY <1>1
<1> QED BY <1>1, <1>2 DEF Jobs, Advanced

LEMMA ErrorCodeFact ==
  ASSUME NEW bits
  PROVE  ErrorCode(bits) \in {2, 3, 7, 13, 20, 21, 22}
<1> DEFINE Found == {k \in DOMAIN FromHighest : FromHighest[k] \in bits}
           first == CHOOSE k \in Found : \A m \in Found : k <= m
<1>1. CASE Found = {}
  BY <1>1 DEF ErrorCode
<1>2. CASE Found # {}
  <2>1. DOMAIN FromHighest = 1..8
    BY DEF FromHighest
  <2>2. Found \subseteq 1..8
    BY <2>1
  <2>3. \E k \in Found : \A m \in Found : k <= m
    BY <1>2, <2>2
  <2>4. first \in 1..8
    BY <2>2, <2>3
  <2>5. ErrorCode(bits) = CodeOf[FromHighest[first]]
    BY <1>2 DEF ErrorCode
  <2> HIDE DEF first
  <2> QED
    BY <2>4, <2>5 DEF CodeOf, FromHighest
<1> QED BY <1>1, <1>2

LEMMA PrintErrorFact ==
  ASSUME NEW e \in 0..255, NEW bits
  PROVE  PrintError(e, bits) \in 0..255 /\ (PrintError(e, bits) = 0 <=> e = 0)
BY ErrorCodeFact DEF PrintError

\* The channel of the call is a channel.
LEMMA ChannelFact ==
  ASSUME TypeOK
  PROVE  Channel \in Channels /\ Device \in Channels \X {0, 1}
BY EntryFact DEF TypeOK, Channel, Device, Entries

----------------------------------------------------------------------------
(* The invariant holds at first and every step keeps it. *)

LEMMA InitFact == Init => IInv
<1> SUFFICES ASSUME Init PROVE IInv
  OBVIOUS
<1> USE DEF Init, DeviceInit, DriverInit
<1>1. TypeOK
  BY DataAssumption DEF TypeOK, DeviceTypeOK, Channels, Phases, Faults, Jobs, PCs, Unset
<1>2. LatchInv /\ RestInv /\ FaultInv /\ PlaceInv
  BY DEF LatchInv, RestInv, FaultInv, PlaceInv
<1>3. ReadInv /\ WriteInv /\ PathInv
  BY DEF ReadInv, WriteInv, PathInv
<1> QED BY <1>1, <1>2, <1>3 DEF IInv

LEMMA RejectFact ==
  ASSUME IInv, NEW r \in Requests, Reject(r)
  PROVE  IInv'
<1> USE DEF IInv
<1>0. Channel \in Channels  BY ChannelFact
<1> USE DEF Reject, deviceVars, Channel, Device, Unset
<1>1. TypeOK'
  BY <1>0, EntryFact, RequestAssumption DEF TypeOK, DeviceTypeOK
<1>2. LatchInv'
  BY <1>0, EntryFact, RequestAssumption DEF LatchInv
<1>3. RestInv'
  BY <1>0, EntryFact, RequestAssumption DEF RestInv
<1>4. ReadInv'
  BY <1>0, EntryFact, RequestAssumption DEF ReadInv
<1>5. WriteInv'
  BY <1>0, EntryFact, RequestAssumption DEF WriteInv
<1>6. PathInv'
  BY <1>0, EntryFact, RequestAssumption DEF PathInv
<1>7. FaultInv'
  BY <1>0, EntryFact, RequestAssumption DEF FaultInv
<1>8. PlaceInv'
  BY <1>0, EntryFact, RequestAssumption DEF PlaceInv, Target
<1> QED BY <1>1, <1>2, <1>3, <1>4, <1>5, <1>6, <1>7, <1>8

LEMMA CallFact ==
  ASSUME IInv, NEW r \in Requests, r.n # 0, Call(r)
  PROVE  IInv'
<1> USE DEF IInv
<1>0. Channel \in Channels  BY ChannelFact
<1> USE DEF Call, deviceVars, Channel, Device, MaskInterrupts, Unset, PCs, Entries
<1>1. TypeOK'
  <2>1. DeviceTypeOK'
    BY DEF TypeOK, DeviceTypeOK
  <2>2. nien' \in [Channels -> BOOLEAN]
    BY DEF TypeOK
  <2>3. buffer' \in Seq(Data) /\ pc' \in PCs /\ req' \in Requests /\ i' \in 0..255
    OBVIOUS
  <2>4. err' \in -1..255 /\ ret' \in -2..255
    BY DEF TypeOK
  <2> QED BY <2>1, <2>2, <2>3, <2>4 DEF TypeOK
<1>2. LatchInv'
  BY <1>0, EntryFact, RequestAssumption DEF LatchInv
<1>3. RestInv'
  BY <1>0, EntryFact, RequestAssumption DEF RestInv
<1>4. ReadInv'
  BY <1>0, EntryFact, RequestAssumption DEF ReadInv
<1>5. WriteInv'
  BY <1>0, EntryFact, RequestAssumption DEF WriteInv
<1>6. PathInv'
  <2>1. Channel' \in Channels
    BY EntryFact
  <2>2. pc' \in {"wait", "return"} /\ phase' = phase /\ phase[Channel'] = "idle"
    BY <2>1 DEF RestInv
  <2> QED BY <2>2 DEF PathInv
<1>7. FaultInv'
  BY <1>0, EntryFact, RequestAssumption DEF FaultInv
<1>8. PlaceInv'
  BY <1>0, EntryFact, RequestAssumption DEF PlaceInv, Target
<1> QED BY <1>1, <1>2, <1>3, <1>4, <1>5, <1>6, <1>7, <1>8

LEMMA WaitFact ==
  ASSUME IInv, WaitNotBusy
  PROVE  IInv'
<1> USE DEF IInv
<1>0. Channel \in Channels  BY ChannelFact
<1> USE DEF WaitNotBusy, deviceVars, Channel, Device, PCs
<1>1. TypeOK'
  BY <1>0 DEF TypeOK, DeviceTypeOK
<1>2. LatchInv'
  BY <1>0 DEF LatchInv
<1>3. RestInv'
  BY <1>0 DEF RestInv
<1>4. ReadInv'
  BY <1>0 DEF ReadInv
<1>5. WriteInv'
  BY <1>0 DEF WriteInv
<1>6. PathInv'
  BY <1>0 DEF PathInv
<1>7. FaultInv'
  BY <1>0 DEF FaultInv
<1>8. PlaceInv'
  BY <1>0 DEF PlaceInv, Target
<1> QED BY <1>1, <1>2, <1>3, <1>4, <1>5, <1>6, <1>7, <1>8

LEMMA ServingFact ==
  ASSUME IInv, pc # "idle"
  PROVE  /\ req \in Requests /\ req.dir \in {"read", "write"} /\ req.n \in 1..255
         /\ i \in 0..255 /\ Channel \in Channels
BY RequestAssumption, ChannelFact DEF IInv, PathInv, TypeOK

LEMMA IssueFact ==
  ASSUME IInv, Issue
  PROVE  IInv'
<1>1. /\ req \in Requests /\ req.dir \in {"read", "write"} /\ req.n \in 1..255
      /\ i \in 0..255 /\ Channel \in Channels
  BY ServingFact DEF Issue
<1>2. Channel' = Channel
  BY DEF Issue, Channel, Device
<1>3. /\ phase[Channel] = "idle" /\ i = 0 /\ pc = "issue"
      /\ CommandOf(req) \in Jobs /\ CommandOf(req).op = req.dir /\ CommandOf(req).left = req.n
  BY <1>1, CommandFact DEF Issue, IInv, PathInv
<1>4. /\ pc' = "poll" /\ err' = err
      /\ phase' = [phase EXCEPT ![Channel] = "starting"]
      /\ job' = [job EXCEPT ![Channel] = CommandOf(req)]
      /\ latch' = [latch EXCEPT ![Channel] = << >>]
      /\ UNCHANGED <<fault, seen, media, req, i, buffer, ret, nien>>
  <2>1. LoopHead(0) = "poll" /\ ErrAt(0) = err
    BY <1>1 DEF LoopHead, ErrAt
  <2> QED BY <1>3, <2>1 DEF Issue, Command
<1> USE DEF IInv
<1>5. TypeOK'
  BY <1>1, <1>2, <1>3, <1>4 DEF TypeOK, DeviceTypeOK, PCs, Phases
<1>6. LatchInv'
  BY <1>1, <1>2, <1>3, <1>4 DEF LatchInv, TypeOK, DeviceTypeOK
<1>7. RestInv'
  BY <1>1, <1>2, <1>3, <1>4 DEF RestInv, TypeOK, DeviceTypeOK
<1>8. ReadInv'
  <2>1. job'[Channel] = CommandOf(req) /\ req' = req /\ i' = 0 /\ pc' = "poll"
    BY <1>1, <1>3, <1>4 DEF TypeOK, DeviceTypeOK
  <2> QED BY <1>1, <1>2, <1>3, <2>1 DEF ReadInv
<1>9. WriteInv'
  <2>1. /\ job'[Channel] = CommandOf(req) /\ req' = req /\ i' = 0 /\ pc' = "poll"
        /\ phase'[Channel] = "starting" /\ latch'[Channel] = << >>
    BY <1>1, <1>3, <1>4 DEF TypeOK, DeviceTypeOK
  <2>2. /\ job'[Channel].left = req'.n - i' + Len(latch'[Channel]) /\ job'[Channel].op = req'.dir
        /\ i' <= req'.n /\ i' # req'.n
    <3>1. Len(latch'[Channel]) = 0
      BY <2>1
    <3>2. job'[Channel].left = req.n /\ job'[Channel].op = req.dir
      BY <1>3, <2>1
    <3>3. req.n = req.n - 0 + 0 /\ 0 <= req.n /\ 0 # req.n
      BY <1>1
    <3> QED BY <2>1, <3>1, <3>2, <3>3
  <2> QED BY <1>2, <2>1, <2>2 DEF WriteInv
<1>10. PathInv'
  BY <1>1, <1>2, <1>3, <1>4 DEF PathInv, TypeOK, DeviceTypeOK
<1>11. FaultInv'
  BY <1>1, <1>2, <1>3, <1>4 DEF FaultInv, TypeOK, DeviceTypeOK
<1>12. PlaceInv'
  BY <1>1, <1>2, <1>3, <1>4 DEF PlaceInv, TypeOK, DeviceTypeOK, Target
<1> QED BY <1>5, <1>6, <1>7, <1>8, <1>9, <1>10, <1>11, <1>12

LEMMA PollReadFact ==
  ASSUME IInv, PollRead
  PROVE  IInv'
<1>1. /\ req \in Requests /\ req.dir \in {"read", "write"} /\ req.n \in 1..255
      /\ i \in 0..255 /\ Channel \in Channels
  BY ServingFact DEF PollRead
<1>2. Channel' = Channel
  BY DEF PollRead, Channel, Device
<1>3. /\ pc = "poll" /\ req.dir = "read" /\ phase[Channel] \in {"idle", "data"}
      /\ i < req.n /\ fault[Channel] \in Faults
      /\ phase[Channel] = "data" => fault[Channel] = {}
      /\ PollResult(Channel) \in 0..3
      /\ PollResult(Channel) = 0 <=> phase[Channel] = "data"
  BY <1>1 DEF PollRead, IInv, TypeOK, DeviceTypeOK, Phases, ReadInv, FaultInv, Delayed, BSY, DRQ, ERR, DF, PollResult
<1>4. /\ pc' = IF phase[Channel] = "data" THEN "receive" ELSE "return"
      /\ err' \in -1..255
      /\ UNCHANGED <<deviceVars, req, i, buffer, ret, nien>>
  <2>1. err \in -1..255  BY DEF IInv, TypeOK
  <2>2. UNCHANGED <<deviceVars, req, i, buffer, ret, nien>>  BY DEF PollRead, deviceVars
  <2>3. pc' = IF phase[Channel] = "data" THEN "receive" ELSE "return"  BY <1>3 DEF PollRead
  <2>4. err' \in -1..255  BY <1>3, <2>1 DEF PollRead
  <2> QED BY <2>2, <2>3, <2>4
<1> USE DEF deviceVars
<1> USE DEF IInv
<1>5. TypeOK'
  BY <1>1, <1>2, <1>3, <1>4 DEF TypeOK, DeviceTypeOK, PCs, Phases
<1>6. LatchInv'
  BY <1>1, <1>2, <1>3, <1>4 DEF LatchInv, TypeOK, DeviceTypeOK
<1>7. RestInv'
  BY <1>1, <1>2, <1>3, <1>4 DEF RestInv, TypeOK, DeviceTypeOK
<1>8. ReadInv'
  BY <1>1, <1>2, <1>3, <1>4 DEF ReadInv, TypeOK, DeviceTypeOK
<1>9. WriteInv'
  BY <1>1, <1>2, <1>3, <1>4 DEF WriteInv, TypeOK, DeviceTypeOK
<1>10. PathInv'
  BY <1>1, <1>2, <1>3, <1>4 DEF PathInv, TypeOK, DeviceTypeOK
<1>11. FaultInv'
  BY <1>1, <1>2, <1>3, <1>4 DEF FaultInv, TypeOK, DeviceTypeOK
<1>12. PlaceInv'
  BY <1>1, <1>2, <1>3, <1>4 DEF PlaceInv, TypeOK, DeviceTypeOK, Target
<1> QED BY <1>5, <1>6, <1>7, <1>8, <1>9, <1>10, <1>11, <1>12

LEMMA PollWriteFact ==
  ASSUME IInv, PollWrite
  PROVE  IInv'
<1>1. /\ req \in Requests /\ req.dir \in {"read", "write"} /\ req.n \in 1..255
      /\ i \in 0..255 /\ Channel \in Channels
  BY ServingFact DEF PollWrite
<1>2. Channel' = Channel
  BY DEF PollWrite, Channel, Device
<1>3. /\ pc = "poll" /\ req.dir = "write" /\ phase[Channel] \in {"idle", "data"}
      /\ i <= req.n
      /\ i = req.n => phase[Channel] = "idle"
  BY <1>1 DEF PollWrite, IInv, TypeOK, DeviceTypeOK, Phases, WriteInv, Delayed, BSY
<1>4. /\ pc' = IF i < req.n THEN "send" ELSE "return"
      /\ err' \in -1..255
      /\ UNCHANGED <<deviceVars, req, i, buffer, ret, nien>>
  <2>1. err \in -1..255  BY DEF IInv, TypeOK
  <2>2. UNCHANGED <<deviceVars, req, i, buffer, ret, nien>>  BY DEF PollWrite, deviceVars
  <2>3. pc' = (IF i < req.n THEN "send" ELSE "return") /\ err' \in -1..255
    BY <1>3, <2>1 DEF PollWrite
  <2> QED BY <2>2, <2>3
<1> USE DEF deviceVars
<1> USE DEF IInv
<1>5. TypeOK'
  BY <1>1, <1>2, <1>3, <1>4 DEF TypeOK, DeviceTypeOK, PCs, Phases
<1>6. LatchInv'
  BY <1>1, <1>2, <1>3, <1>4 DEF LatchInv, TypeOK, DeviceTypeOK
<1>7. RestInv'
  BY <1>1, <1>2, <1>3, <1>4 DEF RestInv, TypeOK, DeviceTypeOK
<1>8. ReadInv'
  BY <1>1, <1>2, <1>3, <1>4 DEF ReadInv, TypeOK, DeviceTypeOK
<1>9. WriteInv'
  BY <1>1, <1>2, <1>3, <1>4 DEF WriteInv, TypeOK, DeviceTypeOK
<1>10. PathInv'
  <2>1. pc' = "return" => phase[Channel] = "idle"
    BY <1>1, <1>3, <1>4
  <2> QED BY <1>1, <1>2, <1>3, <1>4, <2>1 DEF PathInv
<1>11. FaultInv'
  BY <1>1, <1>2, <1>3, <1>4 DEF FaultInv, TypeOK, DeviceTypeOK
<1>12. PlaceInv'
  BY <1>1, <1>2, <1>3, <1>4 DEF PlaceInv, TypeOK, DeviceTypeOK, Target
<1> QED BY <1>5, <1>6, <1>7, <1>8, <1>9, <1>10, <1>11, <1>12

LEMMA ReturnFact ==
  ASSUME IInv, Return
  PROVE  IInv'
<1>1. /\ req \in Requests /\ req.dir \in {"read", "write"} /\ req.n \in 1..255
      /\ i \in 0..255 /\ Channel \in Channels
  BY ServingFact DEF Return
<1>2. Channel' = Channel
  BY DEF Return, Channel, Device
<1>3. pc = "return" /\ phase[Channel] = "idle"
  BY DEF Return, IInv, PathInv
<1>4. /\ pc' = "idle" /\ ret' \in 0..255
      /\ UNCHANGED <<deviceVars, req, i, err, buffer, nien>>
  <2>1. err \in -1..255  BY DEF IInv, TypeOK
  <2>2. pc' = "idle" /\ UNCHANGED <<deviceVars, req, i, err, buffer, nien>>  BY DEF Return, deviceVars
  <2>3. PICK e \in 0..255 : ret' = PrintError(e, fault[Channel])
    BY <2>1 DEF Return, Unset
  <2> QED BY <2>2, <2>3, PrintErrorFact
<1> USE DEF deviceVars
<1> USE DEF IInv
<1>5. TypeOK'
  BY <1>1, <1>2, <1>3, <1>4 DEF TypeOK, DeviceTypeOK, PCs, Phases
<1>6. LatchInv'
  BY <1>1, <1>2, <1>3, <1>4 DEF LatchInv, TypeOK, DeviceTypeOK
<1>7. RestInv'
  BY <1>1, <1>2, <1>3, <1>4 DEF RestInv, TypeOK, DeviceTypeOK
<1>8. ReadInv'
  BY <1>1, <1>2, <1>3, <1>4 DEF ReadInv, TypeOK, DeviceTypeOK
<1>9. WriteInv'
  BY <1>1, <1>2, <1>3, <1>4 DEF WriteInv, TypeOK, DeviceTypeOK
<1>10. PathInv'
  BY <1>1, <1>2, <1>3, <1>4 DEF PathInv, TypeOK, DeviceTypeOK
<1>11. FaultInv'
  BY <1>1, <1>2, <1>3, <1>4 DEF FaultInv, TypeOK, DeviceTypeOK
<1>12. PlaceInv'
  BY <1>1, <1>2, <1>3, <1>4 DEF PlaceInv, TypeOK, DeviceTypeOK, Target
<1> QED BY <1>5, <1>6, <1>7, <1>8, <1>9, <1>10, <1>11, <1>12

LEMMA ReceiveFact ==
  ASSUME IInv, Receive
  PROVE  IInv'
<1>1. /\ req \in Requests /\ req.dir \in {"read", "write"} /\ req.n \in 1..255
      /\ i \in 0..255 /\ Channel \in Channels
  BY ServingFact DEF Receive
<1>2. Channel' = Channel
  BY DEF Receive, Channel, Device
<1>3. /\ pc = "receive" /\ req.dir = "read" /\ phase[Channel] = "data" /\ i < req.n
      /\ job[Channel].op = "read" /\ job[Channel].left = req.n - i
      /\ job[Channel] \in Jobs /\ PortValue(Channel) \in Data
      /\ job[Channel].left >= 1 /\ job[Channel].left - 1 = req.n - (i + 1)
      /\ i + 1 < req.n \/ i + 1 = req.n
      /\ job[Channel].left = 1 <=> i + 1 = req.n
  <2>1. pc = "receive" /\ req.dir = "read" /\ phase[Channel] = "data" /\ i < req.n
    BY <1>1 DEF Receive, IInv, ReadInv
  <2>2. job[Channel].op = "read" /\ job[Channel].left = req.n - i
    BY <1>1, <2>1 DEF IInv, ReadInv
  <2>3. job[Channel] \in Jobs
    BY <1>1 DEF IInv, TypeOK, DeviceTypeOK
  <2>4. PortValue(Channel) \in Data
    BY <1>1, <2>1, <2>2 DEF IInv, TypeOK, DeviceTypeOK, PlaceInv, PortValue
  <2>5. /\ i + 1 < req.n \/ i + 1 = req.n
        /\ req.n - i = 1 <=> i + 1 = req.n
        /\ req.n - i >= 1 /\ req.n - i - 1 = req.n - (i + 1)
    BY <1>1, <2>1, SMTT(30)
  <2> QED BY <2>1, <2>2, <2>3, <2>4, <2>5
<1>4. /\ pc' = IF i + 1 < req.n THEN "poll" ELSE "return"
      /\ i' = i + 1 /\ i' \in 0..255 /\ err' \in -1..255 /\ buffer' \in Seq(Data)
      /\ phase' = [phase EXCEPT ![Channel] = IF i + 1 = req.n THEN "idle" ELSE "gap"]
      /\ job' = [job EXCEPT ![Channel] = Advanced(job[Channel])]
      /\ UNCHANGED <<fault, latch, seen, media, req, ret, nien>>
  <2>1. LoopHead(i + 1) = IF i + 1 < req.n THEN "poll" ELSE "return"
    BY <1>3 DEF LoopHead
  <2>2. err \in -1..255 /\ buffer \in Seq(Data)
    BY DEF IInv, TypeOK
  <2>3. pc' = LoopHead(i + 1) /\ i' = i + 1 /\ UNCHANGED <<req, ret, nien>>
    BY DEF Receive
  <2>4. err' \in -1..255 /\ buffer' \in Seq(Data)
    BY <1>3, <2>2 DEF Receive, ErrAt
  <2>6. /\ phase' = [phase EXCEPT ![Channel] = IF i + 1 = req.n THEN "idle" ELSE "gap"]
        /\ job' = [job EXCEPT ![Channel] = Advanced(job[Channel])]
        /\ UNCHANGED <<fault, latch, seen, media>>
    BY <1>3 DEF Receive, DataIn
  <2>7. i + 1 \in 0..255
    BY <1>1, <1>3
  <2> QED BY <2>1, <2>3, <2>4, <2>6, <2>7
<1> USE DEF IInv
<1>5. TypeOK'
  <2>1. job' \in [Channels -> Jobs]
    <3>1. Advanced(job[Channel]) \in Jobs
      BY <1>1, <1>3, AdvancedFact
    <3> QED BY <1>4, <3>1 DEF TypeOK, DeviceTypeOK
  <2>2. phase' \in [Channels -> Phases]
    BY <1>1, <1>4 DEF TypeOK, DeviceTypeOK, Phases
  <2>3. DeviceTypeOK'
    BY <1>4, <2>1, <2>2 DEF TypeOK, DeviceTypeOK
  <2> QED BY <1>4, <2>3 DEF TypeOK, PCs
<1>6. LatchInv'
  BY <1>1, <1>2, <1>3, <1>4 DEF LatchInv, TypeOK, DeviceTypeOK
<1>7. RestInv'
  BY <1>1, <1>2, <1>3, <1>4 DEF RestInv, TypeOK, DeviceTypeOK
<1>8. ReadInv'
  <2>1. job'[Channel].op = "read" /\ job'[Channel].left = req.n - (i + 1)
    <3>1. job'[Channel] = Advanced(job[Channel])
      BY <1>1, <1>4 DEF TypeOK, DeviceTypeOK
    <3> QED BY <1>3, <3>1, AdvancedFact
  <2> QED BY <1>1, <1>2, <1>3, <1>4, <2>1 DEF ReadInv
<1>9. WriteInv'
  BY <1>1, <1>2, <1>3, <1>4 DEF WriteInv, TypeOK, DeviceTypeOK
<1>10. PathInv'
  <2>1. pc' = "return" => phase'[Channel] = "idle"
    BY <1>1, <1>3, <1>4 DEF TypeOK, DeviceTypeOK
  <2> QED BY <1>1, <1>2, <1>3, <1>4, <2>1 DEF PathInv
<1>11. FaultInv'
  BY <1>1, <1>2, <1>3, <1>4 DEF FaultInv, TypeOK, DeviceTypeOK
<1>12. PlaceInv'
  BY <1>1, <1>2, <1>3, <1>4 DEF PlaceInv, TypeOK, DeviceTypeOK, Target
<1> QED BY <1>5, <1>6, <1>7, <1>8, <1>9, <1>10, <1>11, <1>12

LEMMA SendFact ==
  ASSUME IInv, Send
  PROVE  IInv'
<1>1. /\ req \in Requests /\ req.dir \in {"read", "write"} /\ req.n \in 1..255
      /\ i \in 0..255 /\ Channel \in Channels
  BY ServingFact DEF Send
<1>2. Channel' = Channel
  BY DEF Send, Channel, Device
<1>3. /\ pc = "send" /\ req.dir = "write" /\ i < req.n
      /\ phase[Channel] \in {"idle", "data"}
      /\ phase[Channel] = "data" =>
           /\ job[Channel].op = "write" /\ job[Channel].left = req.n - i
           /\ latch[Channel] = << >>
      /\ req.data[i + 1] \in Data
      /\ i + 1 < req.n \/ i + 1 = req.n
      /\ i + 1 <= req.n /\ i + 1 \in 0..255 /\ req.n - i = req.n - (i + 1) + 1
  <2>1. pc = "send" /\ req.dir = "write"
    BY DEF Send, IInv, PathInv
  <2>2. i < req.n /\ phase[Channel] \in {"idle", "data"}
    BY <2>1 DEF IInv, WriteInv
  <2>3. ASSUME phase[Channel] = "data"
        PROVE  /\ job[Channel].op = "write" /\ job[Channel].left = req.n - i
               /\ latch[Channel] = << >>
    <3>1. job[Channel].op = "write" /\ latch[Channel] = << >>
      BY <2>1, <2>3 DEF IInv, WriteInv
    <3>2. job[Channel].left = req.n - i + Len(latch[Channel]) /\ Len(latch[Channel]) = 0
      BY <2>1, <2>3, <3>1 DEF IInv, WriteInv
    <3>3. req.n - i + 0 = req.n - i
      BY <1>1
    <3> QED BY <3>1, <3>2, <3>3
  <2>4. req.data \in Seq(Data) /\ Len(req.data) = req.n
    BY <1>1, <2>1, RequestAssumption
  <2>5. req.data[i + 1] \in Data
    BY <1>1, <2>2, <2>4
  <2>6. /\ i + 1 < req.n \/ i + 1 = req.n
        /\ i + 1 <= req.n /\ i + 1 \in 0..255 /\ req.n - i = req.n - (i + 1) + 1
    BY <1>1, <2>2
  <2> QED BY <2>1, <2>2, <2>3, <2>5, <2>6
<1>4. /\ pc' = IF i + 1 < req.n THEN "poll" ELSE "flush"
      /\ i' = i + 1 /\ i' \in 0..255
      /\ IF phase[Channel] = "data"
         THEN /\ phase' = [phase EXCEPT ![Channel] = "gap"]
              /\ latch' = [latch EXCEPT ![Channel] = <<req.data[i + 1]>>]
         ELSE UNCHANGED <<phase, latch>>
      /\ UNCHANGED <<fault, job, seen, media, req, err, buffer, ret, nien>>
  <2>1. LoopHead(i + 1) = IF i + 1 < req.n THEN "poll" ELSE "flush"
    BY <1>3 DEF LoopHead
  <2>2. i + 1 \in 0..255
    BY <1>3
  <2>3. pc' = LoopHead(i + 1) /\ i' = i + 1 /\ UNCHANGED <<req, err, buffer, ret, nien>>
    BY DEF Send
  <2>4. CASE phase[Channel] = "data"
    BY <1>3, <2>1, <2>2, <2>3, <2>4 DEF Send, DataOut
  <2>5. CASE phase[Channel] # "data"
    BY <1>3, <2>1, <2>2, <2>3, <2>5 DEF Send, DataOut, deviceVars
  <2> QED BY <2>4, <2>5
<1> USE DEF IInv
<1>5. TypeOK'
  <2>1. DeviceTypeOK'
    BY <1>1, <1>3, <1>4 DEF TypeOK, DeviceTypeOK, Phases
  <2> QED BY <1>4, <2>1 DEF TypeOK, PCs
<1>6. LatchInv'
  BY <1>1, <1>2, <1>3, <1>4 DEF LatchInv, TypeOK, DeviceTypeOK
<1>7. RestInv'
  BY <1>1, <1>2, <1>3, <1>4 DEF RestInv, TypeOK, DeviceTypeOK
<1>8. ReadInv'
  BY <1>1, <1>2, <1>3, <1>4 DEF ReadInv, TypeOK, DeviceTypeOK
<1>9. WriteInv'
  <2>1. CASE phase[Channel] = "data"
    <3>1. /\ phase'[Channel] = "gap" /\ latch'[Channel] = <<req.data[i + 1]>>
          /\ job'[Channel].op = "write" /\ job'[Channel].left = req.n - i
      BY <1>1, <1>3, <1>4, <2>1 DEF TypeOK, DeviceTypeOK
    <3>2. Len(latch'[Channel]) = 1 /\ latch'[Channel] # << >>
      BY <3>1
    <3>3. job'[Channel].left = req'.n - i' + Len(latch'[Channel])
      BY <1>3, <1>4, <3>1, <3>2
    <3>4. /\ i' <= req'.n /\ pc' \in {"poll", "flush"} /\ Channel' = Channel
          /\ pc' = "flush" => i' = req'.n
      BY <1>2, <1>3, <1>4
    <3> QED BY <3>1, <3>2, <3>3, <3>4 DEF WriteInv
  <2>2. CASE phase[Channel] # "data"
    <3>1. phase'[Channel] = "idle"
      BY <1>3, <1>4, <2>2
    <3>2. /\ i' <= req'.n /\ pc' \in {"poll", "flush"} /\ Channel' = Channel
          /\ pc' = "flush" => i' = req'.n
      BY <1>2, <1>3, <1>4
    <3> QED BY <3>1, <3>2 DEF WriteInv
  <2> QED BY <2>1, <2>2
<1>10. PathInv'
  BY <1>1, <1>2, <1>3, <1>4 DEF PathInv, TypeOK, DeviceTypeOK
<1>11. FaultInv'
  BY <1>1, <1>2, <1>3, <1>4 DEF FaultInv, TypeOK, DeviceTypeOK
<1>12. PlaceInv'
  BY <1>1, <1>2, <1>3, <1>4 DEF PlaceInv, TypeOK, DeviceTypeOK, Target
<1> QED BY <1>5, <1>6, <1>7, <1>8, <1>9, <1>10, <1>11, <1>12

LEMMA FlushFact ==
  ASSUME IInv, Flush
  PROVE  IInv'
<1>1. /\ req \in Requests /\ req.dir \in {"read", "write"} /\ req.n \in 1..255
      /\ i \in 0..255 /\ Channel \in Channels
  BY ServingFact DEF Flush
<1>2. Channel' = Channel
  BY DEF Flush, Channel, Device
<1>3. /\ pc = "flush" /\ req.dir = "write" /\ i = req.n
      /\ phase[Channel] # "idle" => job[Channel].op = "write"
  BY DEF Flush, IInv, PathInv, WriteInv
<1>4. /\ pc' = "poll"
      /\ IF phase[Channel] = "idle"
         THEN /\ phase' = [phase EXCEPT ![Channel] = "starting"]
              /\ job' = [job EXCEPT ![Channel] = [op |-> "flush", dev |-> Device, at |-> 0, left |-> 0]]
              /\ latch' = [latch EXCEPT ![Channel] = << >>]
         ELSE UNCHANGED <<phase, job, latch>>
      /\ UNCHANGED <<fault, seen, media, req, i, err, buffer, ret, nien>>
  BY DEF Flush, Command, deviceVars
<1> USE DEF IInv
<1>5. TypeOK'
  <2>1. [op |-> "flush", dev |-> Device, at |-> 0, left |-> 0] \in Jobs
    BY ChannelFact DEF Jobs
  <2>2. DeviceTypeOK'
    BY <1>1, <1>3, <1>4, <2>1 DEF TypeOK, DeviceTypeOK, Phases
  <2> QED BY <1>4, <2>2 DEF TypeOK, PCs
<1>6. LatchInv'
  BY <1>1, <1>2, <1>3, <1>4 DEF LatchInv, TypeOK, DeviceTypeOK
<1>7. RestInv'
  BY <1>1, <1>2, <1>3, <1>4 DEF RestInv, TypeOK, DeviceTypeOK
<1>8. ReadInv'
  BY <1>1, <1>2, <1>3, <1>4 DEF ReadInv, TypeOK, DeviceTypeOK
<1>9. WriteInv'
  <2>1. CASE phase[Channel] = "idle"
    <3>1. phase'[Channel] = "starting" /\ job'[Channel].op = "flush"
      BY <1>1, <1>3, <1>4, <2>1 DEF TypeOK, DeviceTypeOK
    <3> QED BY <1>1, <1>2, <1>3, <1>4, <3>1 DEF WriteInv
  <2>2. CASE phase[Channel] # "idle"
    <3>1. phase' = phase /\ job' = job /\ latch' = latch
      BY <1>4, <2>2
    <3> QED BY <1>1, <1>2, <1>3, <1>4, <2>2, <3>1 DEF WriteInv
  <2> QED BY <2>1, <2>2
<1>10. PathInv'
  BY <1>1, <1>2, <1>3, <1>4 DEF PathInv, TypeOK, DeviceTypeOK
<1>11. FaultInv'
  BY <1>1, <1>2, <1>3, <1>4 DEF FaultInv, TypeOK, DeviceTypeOK
<1>12. PlaceInv'
  BY <1>1, <1>2, <1>3, <1>4 DEF PlaceInv, TypeOK, DeviceTypeOK, Target
<1> QED BY <1>5, <1>6, <1>7, <1>8, <1>9, <1>10, <1>11, <1>12

LEMMA RaiseBusyFact ==
  ASSUME IInv, NEW c \in Channels, RaiseBusy(c), UNCHANGED driverVars
  PROVE  IInv'
<1>1. /\ c = Channel /\ pc # "idle"
      /\ req \in Requests /\ req.dir \in {"read", "write"} /\ req.n \in 1..255
      /\ i \in 0..255 /\ Channel \in Channels
  <2>1. phase[c] # "idle"
    BY DEF RaiseBusy
  <2>2. c = Channel /\ pc # "idle"
    BY <2>1 DEF IInv, RestInv
  <2> QED BY <2>2, ServingFact
<1>2. /\ Channel' = Channel
      /\ UNCHANGED <<pc, req, i, err, buffer, ret, nien>>
  BY DEF driverVars, Channel, Device
<1>3. /\ phase[Channel] \in {"starting", "gap"}
  BY <1>1 DEF RaiseBusy
<1>4. /\ phase' = [phase EXCEPT ![Channel] = "busy"]
      /\ fault' = [fault EXCEPT ![Channel] = {}]
      /\ UNCHANGED <<job, latch, seen, media>>
  BY <1>1 DEF RaiseBusy
<1> USE DEF IInv
<1>5. TypeOK'
  <2>1. DeviceTypeOK'
    BY <1>1, <1>3, <1>4 DEF TypeOK, DeviceTypeOK, Phases, Faults
  <2> QED BY <1>2, <2>1 DEF TypeOK
<1>6. LatchInv'
  BY <1>1, <1>2, <1>3, <1>4 DEF LatchInv, TypeOK, DeviceTypeOK
<1>7. RestInv'
  BY <1>1, <1>2, <1>3, <1>4 DEF RestInv, TypeOK, DeviceTypeOK
<1>8. ReadInv'
  BY <1>1, <1>2, <1>3, <1>4 DEF ReadInv, TypeOK, DeviceTypeOK
<1>9. WriteInv'
  BY <1>1, <1>2, <1>3, <1>4 DEF WriteInv, TypeOK, DeviceTypeOK
<1>10. PathInv'
  BY <1>1, <1>2, <1>3, <1>4 DEF PathInv, TypeOK, DeviceTypeOK
<1>11. FaultInv'
  BY <1>1, <1>2, <1>3, <1>4 DEF FaultInv, TypeOK, DeviceTypeOK
<1>12. PlaceInv'
  BY <1>1, <1>2, <1>3, <1>4 DEF PlaceInv, TypeOK, DeviceTypeOK, Target
<1> QED BY <1>5, <1>6, <1>7, <1>8, <1>9, <1>10, <1>11, <1>12

LEMMA FailFact ==
  ASSUME IInv, NEW c \in Channels, Fail(c), UNCHANGED driverVars
  PROVE  IInv'
<1>1. /\ c = Channel /\ pc # "idle"
      /\ req \in Requests /\ req.dir \in {"read", "write"} /\ req.n \in 1..255
      /\ i \in 0..255 /\ Channel \in Channels
  <2>1. phase[c] # "idle"
    BY DEF Fail
  <2>2. c = Channel /\ pc # "idle"
    BY <2>1 DEF IInv, RestInv
  <2> QED BY <2>2, ServingFact
<1>2. /\ Channel' = Channel
      /\ UNCHANGED <<pc, req, i, err, buffer, ret, nien>>
  BY DEF driverVars, Channel, Device
<1>3. phase[Channel] = "busy"
  BY <1>1 DEF Fail
<1>4. /\ phase' = [phase EXCEPT ![Channel] = "idle"]
      /\ \E f \in Faults : fault' = [fault EXCEPT ![Channel] = f]
      /\ UNCHANGED <<job, latch, seen, media>>
  <2>1. PICK f \in Outcomes[job[c].op] \cup {{"IDNF"}} :
          /\ f # {} /\ fault' = [fault EXCEPT ![c] = f]
          /\ f = {"IDNF"} => \/ f \in Outcomes[job[c].op]
                             \/ job[c].op # "flush" /\ Target(c) \notin Places
    BY DEF Fail
  <2>2. {"IDNF"} \in Faults
    BY DEF Faults, ErrorBits
  <2>3. job[c].op # "none"
    BY <1>1, <1>3 DEF IInv, ReadInv, WriteInv, PathInv, TypeOK, PCs
  <2>4. job[c].op \in {"read", "write", "flush"}
    BY <1>1, <2>3 DEF IInv, TypeOK, DeviceTypeOK, Jobs
  <2>5. f \in Faults
    BY <2>1, <2>2, <2>4, OutcomesAssumption
  <2> QED BY <1>1, <2>1, <2>5 DEF Fail
<1> USE DEF IInv
<1>5. TypeOK'
  <2>1. DeviceTypeOK'
    BY <1>1, <1>3, <1>4 DEF TypeOK, DeviceTypeOK, Phases, Faults
  <2> QED BY <1>2, <2>1 DEF TypeOK
<1>6. LatchInv'
  BY <1>1, <1>2, <1>3, <1>4 DEF LatchInv, TypeOK, DeviceTypeOK
<1>7. RestInv'
  BY <1>1, <1>2, <1>3, <1>4 DEF RestInv, TypeOK, DeviceTypeOK
<1>8. ReadInv'
  BY <1>1, <1>2, <1>3, <1>4 DEF ReadInv, TypeOK, DeviceTypeOK
<1>9. WriteInv'
  BY <1>1, <1>2, <1>3, <1>4 DEF WriteInv, TypeOK, DeviceTypeOK
<1>10. PathInv'
  BY <1>1, <1>2, <1>3, <1>4 DEF PathInv, TypeOK, DeviceTypeOK
<1>11. FaultInv'
  BY <1>1, <1>2, <1>3, <1>4 DEF FaultInv, TypeOK, DeviceTypeOK
<1>12. PlaceInv'
  BY <1>1, <1>2, <1>3, <1>4 DEF PlaceInv, TypeOK, DeviceTypeOK, Target
<1> QED BY <1>5, <1>6, <1>7, <1>8, <1>9, <1>10, <1>11, <1>12

LEMMA OfferFact ==
  ASSUME IInv, NEW c \in Channels, Offer(c), UNCHANGED driverVars
  PROVE  IInv'
<1>1. /\ c = Channel /\ pc # "idle"
      /\ req \in Requests /\ req.dir \in {"read", "write"} /\ req.n \in 1..255
      /\ i \in 0..255 /\ Channel \in Channels
  <2>1. phase[c] # "idle"
    BY DEF Offer
  <2>2. c = Channel /\ pc # "idle"
    BY <2>1 DEF IInv, RestInv
  <2> QED BY <2>2, ServingFact
<1>2. /\ Channel' = Channel
      /\ UNCHANGED <<pc, req, i, err, buffer, ret, nien>>
  BY DEF driverVars, Channel, Device
<1>3. /\ phase[Channel] = "busy" /\ latch[Channel] = << >>
      /\ job[Channel].op \in {"read", "write"} /\ Target(Channel) \in Places
  BY <1>1 DEF Offer
<1>4. /\ phase' = [phase EXCEPT ![Channel] = "data"]
      /\ UNCHANGED <<fault, job, latch, seen, media>>
  BY <1>1 DEF Offer
<1> USE DEF IInv
<1>5. TypeOK'
  <2>1. DeviceTypeOK'
    BY <1>1, <1>3, <1>4 DEF TypeOK, DeviceTypeOK, Phases, Faults
  <2> QED BY <1>2, <2>1 DEF TypeOK
<1>6. LatchInv'
  BY <1>1, <1>2, <1>3, <1>4 DEF LatchInv, TypeOK, DeviceTypeOK
<1>7. RestInv'
  BY <1>1, <1>2, <1>3, <1>4 DEF RestInv, TypeOK, DeviceTypeOK
<1>8. ReadInv'
  BY <1>1, <1>2, <1>3, <1>4 DEF ReadInv, TypeOK, DeviceTypeOK
<1>9. WriteInv'
  BY <1>1, <1>2, <1>3, <1>4 DEF WriteInv, TypeOK, DeviceTypeOK
<1>10. PathInv'
  BY <1>1, <1>2, <1>3, <1>4 DEF PathInv, TypeOK, DeviceTypeOK
<1>11. FaultInv'
  BY <1>1, <1>2, <1>3, <1>4 DEF FaultInv, TypeOK, DeviceTypeOK
<1>12. PlaceInv'
  BY <1>1, <1>2, <1>3, <1>4 DEF PlaceInv, TypeOK, DeviceTypeOK, Target
<1> QED BY <1>5, <1>6, <1>7, <1>8, <1>9, <1>10, <1>11, <1>12

LEMMA StoreFact ==
  ASSUME IInv, NEW c \in Channels, Store(c), UNCHANGED driverVars
  PROVE  IInv'
<1>1. /\ c = Channel /\ pc # "idle"
      /\ req \in Requests /\ req.dir \in {"read", "write"} /\ req.n \in 1..255
      /\ i \in 0..255 /\ Channel \in Channels
  <2>1. phase[c] # "idle"
    BY DEF Store
  <2>2. c = Channel /\ pc # "idle"
    BY <2>1 DEF IInv, RestInv
  <2> QED BY <2>2, ServingFact
<1>2. /\ Channel' = Channel
      /\ UNCHANGED <<pc, req, i, err, buffer, ret, nien>>
  BY DEF driverVars, Channel, Device
<1>3. /\ phase[Channel] = "busy" /\ latch[Channel] # << >>
      /\ job[Channel].op = "write" /\ job[Channel].left >= 1
      /\ job[Channel] \in Jobs /\ Target(Channel) \in Places
      /\ latch[Channel][1] \in Data
      /\ req.dir = "write" /\ pc \in {"poll", "send", "flush"}
      /\ i <= req.n /\ Len(latch[Channel]) = 1
      /\ job[Channel].left = req.n - i + 1
      /\ job[Channel].left - 1 = req.n - i + 0
      /\ i = req.n => job[Channel].left = 1
  <2>1. phase[Channel] = "busy" /\ latch[Channel] # << >> /\ Target(Channel) \in Places
    BY <1>1 DEF Store
  <2>2. job[Channel].op = "write"
    BY <1>1, <2>1 DEF IInv, LatchInv
  <2>3. pc \in {"poll", "send", "flush"} /\ req.dir = "write"
    BY <1>1, <2>1, <2>2 DEF IInv, ReadInv, PathInv, TypeOK, PCs
  <2>4. job[Channel] \in Jobs /\ latch[Channel] \in {<<v>> : v \in Data}
    BY <1>1, <2>1 DEF IInv, TypeOK, DeviceTypeOK
  <2>5. latch[Channel][1] \in Data /\ Len(latch[Channel]) = 1
    BY <2>4
  <2>6. i <= req.n /\ job[Channel].left = req.n - i + 1
    BY <2>1, <2>2, <2>3, <2>5 DEF IInv, WriteInv
  <2>7. \A n \in 1..255, k \in 0..255 : k <= n =>
          n - k + 1 >= 1 /\ (n - k + 1) - 1 = n - k + 0 /\ (k = n => n - k + 1 = 1)
    BY SMT
  <2>8. /\ job[Channel].left >= 1 /\ job[Channel].left - 1 = req.n - i + 0
        /\ i = req.n => job[Channel].left = 1
    BY <1>1, <2>6, <2>7, Zenon
  <2> QED BY <2>1, <2>2, <2>3, <2>4, <2>5, <2>6, <2>8
<1>4. /\ seen' \in [Places -> Data]
      /\ latch' = [latch EXCEPT ![Channel] = << >>]
      /\ job' = [job EXCEPT ![Channel] = Advanced(job[Channel])]
      /\ phase' = [phase EXCEPT ![Channel] = IF job[Channel].left = 1 THEN "idle" ELSE "busy"]
      /\ UNCHANGED <<fault, media>>
  BY <1>1, <1>3 DEF Store, IInv, TypeOK, DeviceTypeOK
<1> USE DEF IInv
<1>5. TypeOK'
  <2>1. Advanced(job[Channel]) \in Jobs
    BY <1>3, AdvancedFact
  <2>2. DeviceTypeOK'
    BY <1>1, <1>3, <1>4, <2>1 DEF TypeOK, DeviceTypeOK, Phases
  <2> QED BY <1>2, <2>2 DEF TypeOK
<1>6. LatchInv'
  BY <1>1, <1>2, <1>3, <1>4 DEF LatchInv, TypeOK, DeviceTypeOK
<1>7. RestInv'
  BY <1>1, <1>2, <1>3, <1>4 DEF RestInv, TypeOK, DeviceTypeOK
<1>8. ReadInv'
  BY <1>1, <1>2, <1>3, <1>4 DEF ReadInv, TypeOK, DeviceTypeOK
<1>9. WriteInv'
  <2>1. CASE job[Channel].left = 1
    <3>1. phase'[Channel] = "idle"
      BY <1>1, <1>4, <2>1 DEF TypeOK, DeviceTypeOK
    <3>2. /\ pc = "send" => i < req.n
          /\ pc = "flush" => i = req.n
      BY <1>3 DEF WriteInv
    <3> QED BY <1>2, <1>3, <3>1, <3>2 DEF WriteInv
  <2>2. CASE job[Channel].left # 1
    <3>1. /\ phase'[Channel] = "busy" /\ latch'[Channel] = << >>
          /\ job'[Channel] = Advanced(job[Channel])
      BY <1>1, <1>4, <2>2 DEF TypeOK, DeviceTypeOK
    <3>2. Len(latch'[Channel]) = 0 /\ job'[Channel].op = "write"
      BY <1>3, <3>1, AdvancedFact
    <3>3. job'[Channel].left = req'.n - i' + Len(latch'[Channel])
      BY <1>2, <1>3, <3>1, <3>2, AdvancedFact
    <3>4. i # req.n /\ pc # "send" /\ pc # "flush"
      BY <1>1, <1>3, <2>2 DEF WriteInv
    <3> QED BY <1>2, <1>3, <3>1, <3>2, <3>3, <3>4 DEF WriteInv
  <2> QED BY <2>1, <2>2
<1>10. PathInv'
  BY <1>1, <1>2, <1>3, <1>4 DEF PathInv, TypeOK, DeviceTypeOK
<1>11. FaultInv'
  BY <1>1, <1>2, <1>3, <1>4 DEF FaultInv, TypeOK, DeviceTypeOK
<1>12. PlaceInv'
  BY <1>1, <1>2, <1>3, <1>4 DEF PlaceInv, TypeOK, DeviceTypeOK, Target
<1> QED BY <1>5, <1>6, <1>7, <1>8, <1>9, <1>10, <1>11, <1>12

LEMMA FlushedFact ==
  ASSUME IInv, NEW c \in Channels, Flushed(c), UNCHANGED driverVars
  PROVE  IInv'
<1>1. /\ c = Channel /\ pc # "idle"
      /\ req \in Requests /\ req.dir \in {"read", "write"} /\ req.n \in 1..255
      /\ i \in 0..255 /\ Channel \in Channels
  <2>1. phase[c] # "idle"
    BY DEF Flushed
  <2>2. c = Channel /\ pc # "idle"
    BY <2>1 DEF IInv, RestInv
  <2> QED BY <2>2, ServingFact
<1>2. /\ Channel' = Channel
      /\ UNCHANGED <<pc, req, i, err, buffer, ret, nien>>
  BY DEF driverVars, Channel, Device
<1>3. phase[Channel] = "busy" /\ job[Channel].op = "flush"
  BY <1>1 DEF Flushed
<1>4. /\ media' \in [Places -> Data]
      /\ phase' = [phase EXCEPT ![Channel] = "idle"]
      /\ UNCHANGED <<fault, job, latch, seen>>
  BY <1>1, <1>3 DEF Flushed, IInv, TypeOK, DeviceTypeOK
<1> USE DEF IInv
<1>5. TypeOK'
  <2>1. DeviceTypeOK'
    BY <1>1, <1>3, <1>4 DEF TypeOK, DeviceTypeOK, Phases, Faults
  <2> QED BY <1>2, <2>1 DEF TypeOK
<1>6. LatchInv'
  BY <1>1, <1>2, <1>3, <1>4 DEF LatchInv, TypeOK, DeviceTypeOK
<1>7. RestInv'
  BY <1>1, <1>2, <1>3, <1>4 DEF RestInv, TypeOK, DeviceTypeOK
<1>8. ReadInv'
  BY <1>1, <1>2, <1>3, <1>4 DEF ReadInv, TypeOK, DeviceTypeOK
<1>9. WriteInv'
  BY <1>1, <1>2, <1>3, <1>4 DEF WriteInv, TypeOK, DeviceTypeOK
<1>10. PathInv'
  BY <1>1, <1>2, <1>3, <1>4 DEF PathInv, TypeOK, DeviceTypeOK
<1>11. FaultInv'
  BY <1>1, <1>2, <1>3, <1>4 DEF FaultInv, TypeOK, DeviceTypeOK
<1>12. PlaceInv'
  BY <1>1, <1>2, <1>3, <1>4 DEF PlaceInv, TypeOK, DeviceTypeOK, Target
<1> QED BY <1>5, <1>6, <1>7, <1>8, <1>9, <1>10, <1>11, <1>12

\* Steps that leave every variable alone.
LEMMA StutterFact ==
  ASSUME IInv, UNCHANGED vars
  PROVE  IInv'
<1> USE DEF vars, deviceVars, driverVars
<1>1. TypeOK'
  BY DEF IInv, TypeOK, DeviceTypeOK
<1>2. LatchInv' /\ RestInv' /\ ReadInv' /\ WriteInv'
  BY DEF IInv, LatchInv, RestInv, ReadInv, WriteInv, Channel, Device
<1>3. PathInv' /\ FaultInv' /\ PlaceInv'
  BY DEF IInv, PathInv, FaultInv, PlaceInv, Channel, Device, Target
<1> QED BY <1>1, <1>2, <1>3 DEF IInv

THEOREM Inductive ==
  ASSUME Counted(Requests)
  PROVE  Spec => []IInv
<1>1. IInv /\ [Next]_vars => IInv'
  <2> SUFFICES ASSUME IInv, [Next]_vars PROVE IInv'
    OBVIOUS
  <2>1. ASSUME NEW r \in Requests, Reject(r) \/ Call(r) PROVE IInv'
    <3>1. r.n # 0
      BY DEF Counted
    <3> QED
      BY <2>1, <3>1, RejectFact, CallFact
  <2>2. CASE WaitNotBusy \/ Issue
    BY <2>2, WaitFact, IssueFact
  <2>3. CASE PollRead \/ PollWrite
    BY <2>3, PollReadFact, PollWriteFact
  <2>4. CASE Receive \/ Send
    BY <2>4, ReceiveFact, SendFact
  <2>5. CASE Flush \/ Return
    BY <2>5, FlushFact, ReturnFact
  <2>6. ASSUME NEW c \in Channels, DriveMoves(c) PROVE IInv'
    <3>1. DeviceStep(c) /\ UNCHANGED driverVars
      BY <2>6 DEF DriveMoves
    <3> QED BY <3>1, RaiseBusyFact, FailFact, OfferFact, StoreFact, FlushedFact DEF DeviceStep
  <2>7. CASE UNCHANGED vars
    BY <2>7, StutterFact
  <2> QED
    BY <2>1, <2>2, <2>3, <2>4, <2>5, <2>6, <2>7 DEF Next, Driver
<1> QED BY <1>1, InitFact, PTL DEF Spec

----------------------------------------------------------------------------
(* What follows. *)

\* Every variable of the driver and of the drives stays in its type, whatever
\* sectors are asked for and whatever faults the drives have.
THEOREM TypeCorrect ==
  ASSUME Counted(Requests)
  PROVE  Spec => []TypeOK
<1>1. IInv => TypeOK  BY DEF IInv
<1>2. Spec => []IInv
  BY Inductive
<1> QED BY <1>1, <1>2, PTL

\* No call for a sector or more leaves a drive with a command half done, of
\* whatever drive and whatever address: ide_ata_access may return
\* early with an error, and still the next call finds both channels at rest.
THEOREM AtRestBetweenCalls ==
  ASSUME Counted(Requests)
  PROVE  Spec => []QuietOnReturn
<1>1. IInv => QuietOnReturn  BY DEF IInv, RestInv, QuietOnReturn
<1>2. Spec => []IInv
  BY Inductive
<1> QED BY <1>1, <1>2, PTL

\* The read or write command of every call is taken by its drive.
THEOREM CommandsAreTaken ==
  ASSUME Counted(Requests)
  PROVE  Spec => []CommandTaken
<1>1. IInv => CommandTaken  BY DEF IInv, PathInv, CommandTaken
<1>2. Spec => []IInv
  BY Inductive
<1> QED BY <1>1, <1>2, PTL

\* rep insw is reached only while the drive offers a sector of this very call.
THEOREM ReadsUnderDrq ==
  ASSUME Counted(Requests)
  PROVE  Spec => []ReadUnderDrq
<1>1. IInv => ReadUnderDrq
  <2> SUFFICES ASSUME IInv, pc = "receive"
               PROVE  /\ phase[Channel] = "data" /\ job[Channel].op = "read"
                      /\ job[Channel].left = req.n - i
    BY DEF ReadUnderDrq
  <2>1. req.dir = "read" /\ phase[Channel] = "data"
    BY DEF IInv, ReadInv
  <2> QED BY <2>1 DEF IInv, ReadInv
<1>2. Spec => []IInv
  BY Inductive
<1> QED BY <1>1, <1>2, PTL

----------------------------------------------------------------------------
(* The write loop. *)

\* A drive that is idle while sectors are still to be sent has failed.
UnsentInv ==
  pc \in {"poll", "send"} /\ req.dir = "write" /\ i < req.n /\ phase[Channel] = "idle" =>
    fault[Channel] # {}

\* A drive that is given sectors turns idle before the last one only by failing.
LEMMA UnsentKept ==
  ASSUME IInv, UnsentInv, NEW c \in Channels, DeviceStep(c), UNCHANGED driverVars
  PROVE  UnsentInv'
<1> SUFFICES ASSUME pc \in {"poll", "send"}, req.dir = "write", i < req.n, phase'[Channel] = "idle"
             PROVE  fault'[Channel] # {}
  BY DEF UnsentInv, driverVars, Channel, Device
<1>1. phase[c] # "idle"
  BY DEF DeviceStep, RaiseBusy, Fail, Offer, Store, Flushed
<1>2. /\ c = Channel /\ Channel \in Channels
      /\ phase \in [Channels -> Phases] /\ fault \in [Channels -> Faults]
      /\ req.n \in 1..255 /\ i \in 0..255
  <2>1. c = Channel
    BY <1>1 DEF IInv, RestInv
  <2> QED
    BY <2>1, ServingFact DEF IInv, TypeOK, DeviceTypeOK
<1>3. job[Channel].op = "write"
  BY <1>1, <1>2 DEF IInv, WriteInv
<1>4. CASE RaiseBusy(c)
  BY <1>2, <1>4 DEF RaiseBusy
<1>5. CASE Fail(c)
  BY <1>2, <1>5 DEF Fail
<1>6. CASE Offer(c)
  BY <1>2, <1>6 DEF Offer
<1>7. CASE Store(c)
  <2>1. job[Channel].left = 1 /\ latch[Channel] # << >>
    BY <1>2, <1>7 DEF Store
  <2>2. Len(latch[Channel]) = 1
    BY <1>2, <2>1 DEF IInv, TypeOK, DeviceTypeOK
  <2>3. job[Channel].left = req.n - i + 1
    BY <1>1, <1>2, <1>3, <2>2 DEF IInv, WriteInv
  <2>4. \A n \in 1..255, k \in 0..255 : k < n => n - k + 1 # 1
    BY SMT
  <2> QED
    BY <1>2, <2>1, <2>3, <2>4, Zenon
<1>8. CASE Flushed(c)
  BY <1>2, <1>3, <1>8 DEF Flushed
<1> QED
  BY <1>4, <1>5, <1>6, <1>7, <1>8 DEF DeviceStep

LEMMA Unsent ==
  ASSUME Counted(Requests)
  PROVE  Spec => []UnsentInv
<1>1. Init => UnsentInv
  BY DEF Init, DriverInit, UnsentInv
<1>2. IInv /\ UnsentInv /\ [Next]_vars => UnsentInv'
  <2> SUFFICES ASSUME IInv, UnsentInv, [Next]_vars PROVE UnsentInv'
    OBVIOUS
  <2>1. ASSUME NEW r \in Requests, Reject(r) \/ Call(r) PROVE UnsentInv'
    <3>1. pc' \in {"idle", "wait", "return"}
      BY <2>1 DEF Reject, Call
    <3> QED
      BY <3>1 DEF UnsentInv
  <2>2. CASE WaitNotBusy \/ PollRead \/ Receive \/ Return
    <3>1. pc' \in {"issue", "idle"} \/ req'.dir # "write"
      BY <2>2 DEF WaitNotBusy, PollRead, Receive, Return, IInv, ReadInv
    <3> QED
      BY <3>1 DEF UnsentInv
  <2>3. CASE Issue
    <3>1. phase[Channel] = "idle" /\ Channel \in Channels /\ phase \in [Channels -> Phases]
      BY <2>3, ChannelFact DEF Issue, IInv, PathInv, TypeOK, DeviceTypeOK
    <3>2. phase'[Channel] = "starting" /\ req' = req
      BY <2>3, <3>1 DEF Issue, Command
    <3> QED
      BY <3>2 DEF UnsentInv, Channel, Device
  <2>4. CASE PollWrite
    BY <2>4 DEF PollWrite, UnsentInv, deviceVars, Channel, Device
  <2>5. CASE Send
    <3>1. pc = "send" /\ req' = req /\ DataOut(Channel, req.data[i + 1])
      BY <2>5 DEF Send
    <3>2. /\ Channel \in Channels /\ phase \in [Channels -> Phases]
          /\ req.dir = "write" /\ i < req.n /\ phase[Channel] \in {"idle", "data"}
          /\ phase[Channel] = "data" => job[Channel].op = "write"
      BY <3>1, ChannelFact DEF IInv, PathInv, WriteInv, TypeOK, DeviceTypeOK
    <3>3. CASE phase[Channel] = "data"
      <4>1. phase'[Channel] = "gap"
        BY <3>1, <3>2, <3>3 DEF DataOut
      <4> QED
        BY <3>1, <4>1 DEF UnsentInv, Channel, Device
    <3>4. CASE phase[Channel] = "idle"
      <4>1. fault[Channel] # {}
        BY <3>1, <3>2, <3>4 DEF UnsentInv
      <4>2. fault' = fault
        BY <3>1, <3>4 DEF DataOut, deviceVars
      <4> QED
        BY <3>1, <4>1, <4>2 DEF UnsentInv, Channel, Device
    <3> QED
      BY <3>2, <3>3, <3>4
  <2>6. CASE Flush
    <3>1. i' = req'.n /\ req' = req /\ req.n \in Int
      BY <2>6, RequestAssumption DEF Flush, IInv, PathInv, WriteInv
    <3> QED
      BY <3>1 DEF UnsentInv
  <2>7. ASSUME NEW c \in Channels, DriveMoves(c) PROVE UnsentInv'
    BY <2>7, UnsentKept DEF DriveMoves
  <2>8. CASE UNCHANGED vars
    BY <2>8 DEF UnsentInv, Channel, Device, vars, deviceVars, driverVars
  <2> QED
    BY <2>1, <2>2, <2>3, <2>4, <2>5, <2>6, <2>7, <2>8 DEF Next, Driver
<1>3. Spec => []IInv
  BY Inductive
<1> QED
  BY <1>1, <1>2, <1>3, PTL DEF Spec

\* rep outsw is reached only while the drive wants the next sector of this very
\* call, or after it gave the command up.
THEOREM WritesUnderDrq ==
  ASSUME Counted(Requests)
  PROVE  Spec => []WriteUnderDrq
<1>1. IInv /\ UnsentInv => WriteUnderDrq
  <2> SUFFICES ASSUME IInv, UnsentInv, pc = "send"
               PROVE  \/ DriveFailed
                      \/ /\ phase[Channel] = "data" /\ job[Channel].op = "write"
                         /\ job[Channel].left = req.n - i
    BY DEF WriteUnderDrq
  <2>1. /\ req.dir = "write" /\ i < req.n /\ phase[Channel] \in {"idle", "data"}
        /\ req \in Requests /\ i \in 0..255
    BY DEF IInv, PathInv, WriteInv, TypeOK
  <2>2. CASE phase[Channel] = "idle"
    BY <2>1, <2>2 DEF UnsentInv, DriveFailed
  <2>3. CASE phase[Channel] = "data"
    <3>1. job[Channel].op = "write" /\ latch[Channel] = << >>
      BY <2>1, <2>3 DEF IInv, WriteInv
    <3>2. job[Channel].left = req.n - i + Len(latch[Channel]) /\ Len(latch[Channel]) = 0
      BY <2>1, <2>3, <3>1 DEF IInv, WriteInv
    <3>3. req.n - i \in Int
      BY <2>1, RequestAssumption
    <3> QED
      BY <2>3, <3>1, <3>2, <3>3
  <2> QED
    BY <2>1, <2>2, <2>3
<1>2. (Spec => []IInv) /\ (Spec => []UnsentInv)
  BY Inductive, Unsent
<1> QED
  BY <1>1, <1>2, PTL

----------------------------------------------------------------------------
(* The driver and its drives are a block device.  CallInv adds to IInv     *)
(* what BlockDevice speaks of: where in its transfer the call is, what it  *)
(* has got, and what a write has stored.                                   *)

\* A call under way has passed the checks.
ServedInv == pc # "idle" => ~NotFound(req) /\ ~PastTheEnd(req)

\* What a read has got, and that ide_ata_access's result is set when it is looked at.
GotInv ==
  /\ pc \in {"wait", "issue"} => buffer = << >>
  /\ pc = "return" => err # Unset
  /\ req.dir = "read" =>
       /\ pc \in {"poll", "receive"} => Len(buffer) = i
       /\ pc = "return" /\ err = 0 => Len(buffer) = req.n

\* The command being served is this call's, at its next sector; what waits in
\* the latch is the sector sent last.
JobInv ==
  pc \in {"poll", "receive", "send", "flush"} /\ phase[Channel] # "idle" /\ job[Channel].op # "flush" =>
    /\ job[Channel].dev = Device
    /\ job[Channel].at + job[Channel].left = req.lba + req.n
    /\ latch[Channel] # << >> => i >= 1 /\ latch[Channel] = <<req.data[i]>>

\* A write command that ended without a fault has stored all of it.
DoneInv ==
  pc \in {"poll", "send", "flush", "return"} /\ req.dir = "write" =>
    /\ job[Channel].op \in {"write", "flush"}
    /\ phase[Channel] = "idle" /\ fault[Channel] = {} /\ job[Channel].op = "write" =>
         job[Channel].left = 0

CallInv == ServedInv /\ GotInv /\ JobInv /\ DoneInv

\* A sum below the modulus does not wrap.
LEMMA NoWrap ==
  ASSUME NEW a \in Nat, NEW w \in Nat, a < w
  PROVE  a % w = a
OBVIOUS

\* A call that passes the checks is for sectors that are there, and the drive
\* is told where they begin.
LEMMA Accepted ==
  ASSUME Honest(Requests), NEW r \in Requests, ~NotFound(r), ~PastTheEnd(r)
  PROVE  /\ Entry(r.drive).type = "ATA"
         /\ \A k \in 1..r.n : /\ PlaceOf(r, k) = <<Entry(r.drive).dev, r.lba + k - 1>>
                              /\ PlaceOf(r, k) \in Places
         /\ CommandOf(r).at = r.lba
<1> DEFINE e == Entry(r.drive)
           mode == LbaMode(e.lba, r.lba)
<1>1. /\ e \in Entries /\ e.dev[1] \in {0, 1}
      /\ r.lba \in Nat /\ r.n \in 1..255 /\ WORD \in Nat
  BY EntryFact, RequestAssumption DEF Channels, Honest, Counted
<1>2. /\ e.type = "ATA" /\ e.dev \in Drives /\ e.size = Capacity[e.dev]
      /\ r.lba + r.n < WORD /\ Fits(mode, r.lba) /\ e.reserved # 0
  BY DEF Honest, NotFound
<1>3. r.lba + r.n <= e.size /\ e.size \in Nat
  <2>1. r.lba + r.n \in Nat
    BY <1>1
  <2>2. (r.lba + r.n) % WORD = r.lba + r.n
    BY <1>1, <1>2, <2>1, NoWrap, Zenon
  <2> QED
    BY <1>1, <1>2, <2>2 DEF PastTheEnd, Entries
<1>4. ASSUME NEW k \in 1..r.n
      PROVE  PlaceOf(r, k) = <<e.dev, r.lba + k - 1>> /\ PlaceOf(r, k) \in Places
  <2>1. PlaceOf(r, k) = <<e.dev, r.lba + k - 1>>
    BY <1>2 DEF PlaceOf
  <2>2. r.lba + k - 1 \in 0..(Capacity[e.dev] - 1)
    BY <1>1, <1>2, <1>3
  <2> QED
    BY <1>2, <2>1, <2>2 DEF Places
<1>5. CommandOf(r).at = r.lba
  <2>1. mode \in {"CHS", "LBA28", "LBA48"} /\ r.n \in Int
    BY <1>1 DEF LbaMode
  <2>2. DecodeAddress(mode, HeadNumber(mode, r.lba), WriteParameters(e.dev[1], mode, r.lba, r.n)) = r.lba
    BY <1>1, <1>2, <2>1, AddressRoundTrip, Zenon
  <2> QED
    BY <2>2 DEF CommandOf
<1> QED
  BY <1>2, <1>4, <1>5

LEMMA PairNotEmpty ==
  ASSUME NEW S, NEW U, NEW x \in S \X U
  PROVE  x # << >>
<1>1. x = <<x[1], x[2]>>
  OBVIOUS
<1>2. Len(<<x[1], x[2]>>) = 2 /\ Len(<< >>) = 0
  OBVIOUS
<1> QED
  BY <1>1, <1>2

\* A call that does not is for a drive or a sector that is not there.
LEMMA Refused ==
  ASSUME Honest(Requests), NEW r \in Requests, NotFound(r) \/ PastTheEnd(r)
  PROVE  ~Abstract!Valid(r)
<1> DEFINE e == Entry(r.drive)
<1>1. e \in Entries /\ r.lba \in Nat /\ r.n \in 1..255 /\ WORD \in Nat /\ r.drive \in 0..255
  BY EntryFact, RequestAssumption DEF Honest, Counted
<1>2. CASE NotFound(r)
  <2>1. e.reserved = 0
    BY <1>1, <1>2, TableAssumption DEF NotFound, Entry, Absent, MAXIMUM_IDE_DEVICES
  <2>2. PlaceOf(r, 1) = << << >>, r.lba + 1 - 1>>
    BY <2>1 DEF PlaceOf
  <2>3. << >> \notin Drives
    BY CapacityAssumption, PairNotEmpty
  <2>4. PlaceOf(r, 1) \notin Places
    BY <2>2, <2>3 DEF Places
  <2> QED
    BY <1>1, <2>4 DEF Abstract!Valid
<1>3. CASE ~NotFound(r) /\ PastTheEnd(r)
  <2>1. e.reserved # 0 /\ e.size = Capacity[e.dev] /\ r.lba + r.n < WORD
    BY <1>3 DEF Honest, NotFound
  <2>2. r.lba + r.n > e.size /\ e.size \in Nat
    <3>1. r.lba + r.n \in Nat
      BY <1>1
    <3>2. (r.lba + r.n) % WORD = r.lba + r.n
      BY <1>1, <2>1, <3>1, NoWrap, Zenon
    <3> QED
      BY <1>1, <1>3, <3>2 DEF PastTheEnd, Entries
  <2>3. PlaceOf(r, r.n) = <<e.dev, r.lba + r.n - 1>>
    BY <2>1 DEF PlaceOf
  <2>4. r.lba + r.n - 1 \notin 0..(Capacity[e.dev] - 1)
    BY <1>1, <2>1, <2>2
  <2>5. PlaceOf(r, r.n) \notin Places
    BY <2>3, <2>4 DEF Places
  <2> QED
    BY <1>1, <2>5 DEF Abstract!Valid
<1> QED
  BY <1>2, <1>3

\* What holds inside a call.
LEMMA InCall ==
  ASSUME Honest(Requests), IInv, ServedInv, pc # "idle"
  PROVE  /\ req \in Requests /\ req # [none |-> TRUE]
         /\ req.dir \in {"read", "write"} /\ req.n \in 1..255 /\ req.lba \in Nat
         /\ i \in 0..255 /\ Channel \in Channels
         /\ Device = Entry(req.drive).dev
         /\ \A k \in 1..req.n : /\ PlaceOf(req, k) = <<Device, req.lba + k - 1>>
                                /\ PlaceOf(req, k) \in Places
         /\ CommandOf(req).at = req.lba
<1>1. req \in Requests /\ req.dir \in {"read", "write"} /\ req.n \in 1..255
      /\ i \in 0..255 /\ Channel \in Channels
  BY ServingFact
<1>2. ~NotFound(req) /\ ~PastTheEnd(req)
  BY DEF ServedInv
<1>3. req # [none |-> TRUE] /\ req.lba \in Nat
  BY <1>1, RequestAssumption DEF Honest
<1> QED
  BY <1>1, <1>2, <1>3, Accepted DEF Device

\* The abstract call, and how far it is, in each case of MovedSoFar.
LEMMA MovedFact ==
  /\ pc = "idle" => MovedSoFar = 0
  /\ pc # "idle" /\ req.dir # "write" => MovedSoFar = Len(buffer)
  /\ pc \in {"wait", "issue"} /\ req.dir = "write" => MovedSoFar = 0
  /\ pc \notin {"idle", "wait", "issue"} /\ req.dir = "write" =>
       MovedSoFar = IF job[Channel].op = "write" /\ ~DriveFailed THEN req.n - job[Channel].left
                    ELSE req.n
BY DEF MovedSoFar

\* The steps of the driver and of its drives, of which each keeps CallInv and is
\* a step of the block device or none.
Refines == CallInv' /\ [Abstract!Next]_(Abstract!absVars)

LEMMA RejectRefines ==
  ASSUME Honest(Requests), IInv, NEW r \in Requests, Reject(r)
  PROVE  Refines
<1>1. /\ pc = "idle" /\ pc' = "idle" /\ seen' = seen /\ buffer' = << >> /\ ret' # 0
      /\ NotFound(r) \/ PastTheEnd(r)
  BY DEF Reject, deviceVars
<1>2. CallInv'
  BY <1>1 DEF CallInv, ServedInv, GotInv, JobInv, DoneInv
<1>3. MovedSoFar' = 0
  BY <1>1 DEF MovedSoFar
<1>4. Abstract!Refuse(r)
  BY <1>1, <1>3, Refused DEF Abstract!Refuse, Abstract!NoCall
<1> QED
  BY <1>2, <1>4 DEF Refines, Abstract!Next

LEMMA CallRefines ==
  ASSUME Honest(Requests), IInv, NEW r \in Requests, Call(r)
  PROVE  Refines
<1>1. /\ pc = "idle" /\ ~NotFound(r) /\ ~PastTheEnd(r) /\ req' = r
      /\ buffer' = << >> /\ seen' = seen /\ ret' = ret
  BY DEF Call, deviceVars
<1>2. pc' = "wait"
  BY <1>1, Accepted DEF Call
<1>3. CallInv'
  BY <1>1, <1>2 DEF CallInv, ServedInv, GotInv, JobInv, DoneInv, NotFound, PastTheEnd
<1>4. MovedSoFar' = 0
  <2>1. Len(<< >>) = 0
    OBVIOUS
  <2> QED
    BY <1>1, <1>2, <2>1 DEF MovedSoFar
<1>5. Abstract!Valid(r)
  BY <1>1, Accepted DEF Abstract!Valid
<1>6. Abstract!Begin(r)
  BY <1>1, <1>2, <1>4, <1>5 DEF Abstract!Begin, Abstract!NoCall
<1> QED
  BY <1>3, <1>6 DEF Refines, Abstract!Next

\* A step that moves nothing is no step of the block device.
LEMMA NoStep ==
  ASSUME CallInv', MovedSoFar' = MovedSoFar, pc # "idle", pc' # "idle",
         UNCHANGED <<req, buffer, ret, seen>>
  PROVE  Refines
BY DEF Refines, Abstract!absVars

LEMMA WaitRefines ==
  ASSUME Honest(Requests), IInv, CallInv, WaitNotBusy
  PROVE  Refines
<1>1. /\ pc = "wait" /\ pc' = "issue"
      /\ UNCHANGED <<req, i, err, buffer, ret, phase, fault, job, latch, seen>>
  BY DEF WaitNotBusy, deviceVars
<1>2. CallInv'
  BY <1>1 DEF CallInv, ServedInv, GotInv, JobInv, DoneInv, NotFound, PastTheEnd
<1>3. MovedSoFar' = MovedSoFar
  BY <1>1 DEF MovedSoFar
<1> QED
  BY <1>1, <1>2, <1>3, NoStep

LEMMA PollRefines ==
  ASSUME Honest(Requests), IInv, UnsentInv, CallInv, PollRead \/ PollWrite
  PROVE  Refines
<1>1. /\ pc = "poll" /\ pc' \in {"receive", "send", "return"}
      /\ UNCHANGED <<req, i, buffer, ret, phase, fault, job, latch, seen>>
  BY DEF PollRead, PollWrite, deviceVars
<1>2. /\ pc' = "return" => err' # Unset
      /\ req.dir = "read" => pc' # "send" /\ (pc' = "return" => err' # 0)
      /\ req.dir = "write" => pc' # "receive"
  BY DEF PollRead, PollWrite, PollResult, Unset
<1>3. Channel' = Channel /\ Device' = Device
  BY <1>1 DEF Channel, Device
<1>4. CallInv'
  <2>1. ServedInv'
    BY <1>1 DEF CallInv, ServedInv, NotFound, PastTheEnd
  <2>2. GotInv'
    BY <1>1, <1>2 DEF CallInv, GotInv
  <2>3. JobInv'
    BY <1>1, <1>3 DEF CallInv, JobInv
  <2>4. DoneInv'
    BY <1>1, <1>3 DEF CallInv, DoneInv
  <2> QED
    BY <2>1, <2>2, <2>3, <2>4 DEF CallInv
<1>5. MovedSoFar' = MovedSoFar
  BY <1>1, <1>3 DEF MovedSoFar, DriveFailed
<1> QED
  BY <1>1, <1>4, <1>5, NoStep

\* Numbers of sectors.
LEMMA Counting ==
  ASSUME NEW lba \in Nat, NEW n \in Nat, NEW k \in Nat, k < n
  PROVE  /\ \A at \in Nat : at + (n - k) = lba + n => at = lba + k
         /\ n - k >= 1 /\ (lba + k + 1) + (n - k - 1) = lba + n
         /\ k + 1 \in 1..n /\ lba + (k + 1) - 1 = lba + k
         /\ ~(k + 1 < n) => k + 1 = n
OBVIOUS

LEMMA IssueRefines ==
  ASSUME Honest(Requests), IInv, CallInv, Issue
  PROVE  Refines
<1>1. /\ pc = "issue" /\ UNCHANGED <<req, i, buffer, ret>>
      /\ Command(Channel, CommandOf(req)) /\ pc' = LoopHead(0) /\ i = 0
      /\ phase[Channel] = "idle"
  BY DEF Issue, IInv, PathInv
<1>2. /\ req \in Requests /\ req.dir \in {"read", "write"} /\ req.n \in 1..255 /\ req.lba \in Nat
      /\ Channel \in Channels /\ Device = Entry(req.drive).dev /\ CommandOf(req).at = req.lba
  BY <1>1, InCall DEF CallInv
<1>3. Channel' = Channel /\ Device' = Device
  BY <1>1 DEF Channel, Device
<1>4. /\ phase'[Channel] = "starting" /\ job'[Channel] = CommandOf(req)
      /\ latch'[Channel] = << >> /\ seen' = seen
  BY <1>1, <1>2 DEF Command, IInv, TypeOK, DeviceTypeOK
<1>5. pc' = "poll"
  BY <1>1, <1>2 DEF LoopHead
<1>6. /\ job'[Channel].op = req.dir /\ job'[Channel].left = req.n
      /\ job'[Channel].dev = Device /\ job'[Channel].at = req.lba
  <2>1. req.n # 0
    BY <1>2
  <2> QED
    BY <1>2, <1>4, <2>1, CommandFact
<1>7. buffer = << >> /\ Len(buffer) = 0
  BY <1>1 DEF CallInv, GotInv
<1>8. CallInv'
  <2>1. ServedInv'
    BY <1>1 DEF CallInv, ServedInv, NotFound, PastTheEnd
  <2>2. GotInv'
    BY <1>1, <1>5, <1>7 DEF GotInv
  <2>3. JobInv'
    BY <1>1, <1>3, <1>4, <1>5, <1>6 DEF JobInv
  <2>4. DoneInv'
    BY <1>1, <1>3, <1>4, <1>5, <1>6 DEF DoneInv
  <2> QED
    BY <2>1, <2>2, <2>3, <2>4 DEF CallInv
<1>9. MovedSoFar' = MovedSoFar
  <2>1. MovedSoFar = 0
    BY <1>1, <1>2, <1>7, MovedFact
  <2>2. req.dir = "write" => MovedSoFar' = req.n - req.n
    BY <1>1, <1>3, <1>4, <1>5, <1>6 DEF MovedSoFar, DriveFailed
  <2>3. req.dir # "write" => MovedSoFar' = Len(buffer)
    BY <1>1, <1>5 DEF MovedSoFar
  <2>4. req.n - req.n = 0
    BY <1>2
  <2> QED
    BY <1>7, <2>1, <2>2, <2>3, <2>4, Zenon
<1> QED
  BY <1>1, <1>4, <1>5, <1>8, <1>9, NoStep

LEMMA ReceiveRefines ==
  ASSUME Honest(Requests), IInv, CallInv, Receive
  PROVE  CallInv' /\ Abstract!Fetch
<1>1. /\ pc = "receive" /\ DataIn(Channel) /\ buffer' = Append(buffer, PortValue(Channel))
      /\ i' = i + 1 /\ pc' = LoopHead(i + 1) /\ err' = ErrAt(i + 1)
      /\ req' = req /\ ret' = ret
  BY DEF Receive
<1>2. /\ req \in Requests /\ req # [none |-> TRUE] /\ req.n \in 1..255 /\ req.lba \in Nat
      /\ i \in 0..255 /\ Channel \in Channels
      /\ \A k \in 1..req.n : PlaceOf(req, k) = <<Device, req.lba + k - 1>>
  BY <1>1, InCall DEF CallInv
<1>3. /\ req.dir = "read" /\ phase[Channel] = "data" /\ i < req.n
      /\ job[Channel].op = "read" /\ job[Channel].left = req.n - i
      /\ latch[Channel] = << >>
  BY <1>1, <1>2 DEF IInv, ReadInv, LatchInv
<1>4. /\ \A at \in Nat : at + (req.n - i) = req.lba + req.n => at = req.lba + i
      /\ req.n - i >= 1 /\ (req.lba + i + 1) + (req.n - i - 1) = req.lba + req.n
      /\ i + 1 \in 1..req.n /\ req.lba + (i + 1) - 1 = req.lba + i
      /\ ~(i + 1 < req.n) => i + 1 = req.n
  <2>1. req.n \in 1..255 /\ i \in 0..255 /\ req.lba \in Nat /\ i < req.n
    BY <1>2, <1>3, Zenon
  <2>2. \A n \in 1..255, k \in 0..255 : n \in Nat /\ k \in Nat
    OBVIOUS
  <2>3. req.n \in Nat /\ i \in Nat
    BY <2>1, <2>2, Zenon
  <2> QED
    BY <2>1, <2>3, Counting
<1>5. /\ job[Channel].dev = Device /\ job[Channel].at = req.lba + i
      /\ Len(buffer) = i /\ buffer \in Seq(Data) /\ job[Channel] \in Jobs
  <2>1. job[Channel].dev = Device /\ job[Channel].at + job[Channel].left = req.lba + req.n
    BY <1>1, <1>3 DEF CallInv, JobInv
  <2>2. job[Channel] \in Jobs /\ job[Channel].at \in Nat
    BY <1>2 DEF IInv, TypeOK, DeviceTypeOK, Jobs
  <2>3. job[Channel].at = req.lba + i
    BY <1>3, <1>4, <2>1, <2>2, Zenon
  <2> QED
    BY <1>1, <1>3, <2>1, <2>2, <2>3 DEF CallInv, GotInv, IInv, TypeOK
<1>6. /\ job' = [job EXCEPT ![Channel] = Advanced(@)]
      /\ latch' = latch /\ seen' = seen
      /\ PortValue(Channel) = seen[<<Device, req.lba + i>>]
  BY <1>1, <1>3, <1>5 DEF DataIn, PortValue, Target
<1>7. /\ job'[Channel].dev = Device
      /\ job'[Channel].at + job'[Channel].left = req.lba + req.n
  <2>1. job[Channel].left >= 1 /\ (req.lba + i + 1) + (req.n - i - 1) = req.lba + req.n
    BY <1>3, <1>4, Zenon
  <2>2. job'[Channel] = Advanced(job[Channel])
    BY <1>2, <1>6 DEF IInv, TypeOK, DeviceTypeOK
  <2>3. /\ job'[Channel].dev = Device /\ job'[Channel].at = req.lba + i + 1
        /\ job'[Channel].left = req.n - i - 1
    BY <1>3, <1>5, <2>1, <2>2, AdvancedFact
  <2> QED
    BY <2>1, <2>3
<1>8. /\ pc' = (IF i + 1 < req.n THEN "poll" ELSE "return")
      /\ pc' = "return" => err' = 0 /\ i + 1 = req.n
  BY <1>1, <1>3, <1>4 DEF LoopHead, ErrAt
<1>9. Len(buffer') = i + 1
  BY <1>1, <1>5, <1>6
<1>10. Channel' = Channel /\ Device' = Device
  BY <1>1 DEF Channel, Device
<1>11. CallInv'
  <2>1. ServedInv'
    BY <1>1 DEF CallInv, ServedInv, NotFound, PastTheEnd
  <2>2. GotInv'
    BY <1>1, <1>8, <1>9 DEF GotInv, Unset
  <2>3. JobInv'
    BY <1>1, <1>3, <1>6, <1>7, <1>10 DEF JobInv
  <2>4. DoneInv'
    BY <1>1, <1>3 DEF DoneInv
  <2> QED
    BY <2>1, <2>2, <2>3, <2>4 DEF CallInv
<1>12. Abstract!Fetch
  <2>1. MovedSoFar = i
    BY <1>1, <1>3, <1>5, MovedFact
  <2>2. MovedSoFar' = i + 1
    BY <1>1, <1>3, <1>8, <1>9 DEF MovedSoFar
  <2>3. PlaceOf(req, i + 1) = <<Device, req.lba + i>>
    BY <1>2, <1>4, Zenon
  <2> QED
    BY <1>1, <1>2, <1>3, <1>6, <1>8, <2>1, <2>2, <2>3 DEF Abstract!Fetch, Abstract!NoCall
<1> QED
  BY <1>11, <1>12

LEMMA SendRefines ==
  ASSUME Honest(Requests), IInv, UnsentInv, CallInv, Send
  PROVE  Refines
<1>1. /\ pc = "send" /\ DataOut(Channel, req.data[i + 1]) /\ i' = i + 1 /\ pc' = LoopHead(i + 1)
      /\ UNCHANGED <<req, err, buffer, ret>>
  BY DEF Send
<1>2. req.n \in 1..255 /\ i \in 0..255 /\ Channel \in Channels
  BY <1>1, InCall DEF CallInv
<1>3. /\ req.dir = "write" /\ i < req.n
      /\ phase[Channel] \in {"idle", "data"}
      /\ phase[Channel] = "data" => job[Channel].op = "write"
  BY <1>1, <1>2 DEF IInv, PathInv, WriteInv
<1>4. pc' \in {"poll", "flush"}
  BY <1>1, <1>2, <1>3 DEF LoopHead
<1>5. Channel' = Channel /\ Device' = Device
  BY <1>1 DEF Channel, Device
<1>6. /\ UNCHANGED <<fault, job, seen>>
      /\ phase'[Channel] = (IF phase[Channel] = "data" THEN "gap" ELSE "idle")
      /\ latch'[Channel] = (IF phase[Channel] = "data" THEN <<req.data[i + 1]>> ELSE latch[Channel])
  BY <1>1, <1>2, <1>3 DEF DataOut, deviceVars, IInv, TypeOK, DeviceTypeOK
<1>7. CallInv'
  <2>1. ServedInv'
    BY <1>1 DEF CallInv, ServedInv, NotFound, PastTheEnd
  <2>2. GotInv'
    BY <1>1, <1>3, <1>4 DEF GotInv
  <2>3. JobInv'
    BY <1>1, <1>2, <1>3, <1>5, <1>6 DEF CallInv, JobInv
  <2>4. DoneInv'
    BY <1>1, <1>3, <1>4, <1>5, <1>6 DEF CallInv, DoneInv
  <2> QED
    BY <2>1, <2>2, <2>3, <2>4 DEF CallInv
<1>8. MovedSoFar' = MovedSoFar
  BY <1>1, <1>3, <1>4, <1>5, <1>6 DEF MovedSoFar, DriveFailed
<1> QED
  BY <1>1, <1>4, <1>6, <1>7, <1>8, NoStep

LEMMA FlushRefines ==
  ASSUME Honest(Requests), IInv, CallInv, Flush
  PROVE  Refines
<1> DEFINE j == [op |-> "flush", dev |-> Device, at |-> 0, left |-> 0]
<1>1. /\ pc = "flush" /\ pc' = "poll" /\ Command(Channel, j)
      /\ UNCHANGED <<req, i, err, buffer, ret>> /\ req.dir = "write"
  BY DEF Flush, IInv, PathInv
<1>2. req.n \in 1..255 /\ Channel \in Channels
  BY <1>1, InCall DEF CallInv
<1>3. Channel' = Channel /\ Device' = Device
  BY <1>1 DEF Channel, Device
<1>4. /\ phase[Channel] = "idle" => phase'[Channel] = "starting" /\ job'[Channel].op = "flush"
      /\ phase[Channel] # "idle" => UNCHANGED <<phase, fault, job, latch>>
      /\ seen' = seen
  BY <1>1, <1>2 DEF Command, deviceVars, IInv, TypeOK, DeviceTypeOK
<1>5. CallInv'
  <2>1. ServedInv'
    BY <1>1 DEF CallInv, ServedInv, NotFound, PastTheEnd
  <2>2. GotInv'
    BY <1>1 DEF GotInv
  <2>3. JobInv'
    BY <1>1, <1>3, <1>4 DEF CallInv, JobInv
  <2>4. DoneInv'
    BY <1>1, <1>3, <1>4 DEF CallInv, DoneInv
  <2> QED
    BY <2>1, <2>2, <2>3, <2>4 DEF CallInv
<1>6. MovedSoFar' = MovedSoFar
  <2>1. CASE phase[Channel] # "idle"
    BY <1>1, <1>3, <1>4, <2>1 DEF MovedSoFar, DriveFailed
  <2>2. CASE phase[Channel] = "idle"
    <3>1. MovedSoFar' = req.n
      BY <1>1, <1>3, <1>4, <2>2 DEF MovedSoFar
    <3>2. job[Channel].op = "write" /\ ~DriveFailed => job[Channel].left = 0
      BY <1>1, <2>2 DEF CallInv, DoneInv, DriveFailed
    <3>3. MovedSoFar = IF job[Channel].op = "write" /\ ~DriveFailed
                       THEN req.n - job[Channel].left ELSE req.n
      BY <1>1, MovedFact
    <3> QED
      BY <1>2, <3>1, <3>2, <3>3
  <2> QED
    BY <2>1, <2>2
<1> QED
  BY <1>1, <1>4, <1>5, <1>6, NoStep

\* A call that returns 0 had no error.
LEMMA ReturnedErr ==
  ASSUME IInv, CallInv, Return
  PROVE  ret' = 0 => err = 0
<1>1. err \in 0..255
  BY DEF Return, CallInv, GotInv, IInv, TypeOK, Unset
<1>2. ret' = PrintError(err, fault[Channel])
  BY <1>1 DEF Return, Unset
<1> QED
  BY <1>1, <1>2, PrintErrorFact

LEMMA ReturnRefines ==
  ASSUME Honest(Requests), IInv, CallInv, Return
  PROVE  Refines
<1>1. pc = "return" /\ pc' = "idle" /\ UNCHANGED <<buffer, seen>> /\ phase[Channel] = "idle"
  BY DEF Return, deviceVars, IInv, PathInv
<1>2. req # [none |-> TRUE] /\ req.n \in 1..255
  BY <1>1, InCall DEF CallInv
<1>3. ret' = 0 => err = 0
  BY ReturnedErr
<1>4. CallInv'
  BY <1>1 DEF CallInv, ServedInv, GotInv, JobInv, DoneInv
<1>5. err = 0 => MovedSoFar = req.n
  <2>1. CASE req.dir = "write"
    <3>1. job[Channel].op = "write" /\ ~DriveFailed => job[Channel].left = 0
      BY <1>1, <2>1 DEF CallInv, DoneInv, DriveFailed
    <3>2. MovedSoFar = IF job[Channel].op = "write" /\ ~DriveFailed
                       THEN req.n - job[Channel].left ELSE req.n
      BY <1>1, <2>1, MovedFact
    <3> QED
      BY <1>2, <3>1, <3>2
  <2>2. CASE req.dir # "write"
    <3>1. req.dir = "read"
      BY <1>1, <2>2, InCall DEF CallInv
    <3> QED
      BY <1>1, <2>2, <3>1, MovedFact DEF CallInv, GotInv
  <2> QED
    BY <2>1, <2>2
<1>6. MovedSoFar' = 0
  BY <1>1 DEF MovedSoFar
<1>7. Abstract!Return
  BY <1>1, <1>2, <1>3, <1>5, <1>6 DEF Abstract!Return, Abstract!NoCall
<1> QED
  BY <1>4, <1>7 DEF Refines, Abstract!Next

LEMMA CountingStored ==
  ASSUME NEW lba \in Nat, NEW n \in Nat, NEW k \in Nat, k >= 1, k <= n, NEW at \in Nat,
         NEW left, left = n - k + 1, at + left = lba + n
  PROVE  /\ n - left = k - 1 /\ (k - 1) + 1 = k /\ k - 1 < n /\ n - (left - 1) = k
         /\ at = lba + k - 1 /\ k \in 1..n /\ left >= 1
OBVIOUS

\* A sector of a write reaches the drive's cache: the next one of the call.
LEMMA StoreRefines ==
  ASSUME Honest(Requests), IInv, CallInv, NEW c \in Channels, Store(c), UNCHANGED driverVars,
         c = Channel, pc \in {"poll", "receive", "send", "flush"}
  PROVE  Refines
<1>1. /\ UNCHANGED <<pc, req, i, err, buffer, ret>>
      /\ phase[Channel] = "busy" /\ latch[Channel] # << >> /\ fault' = fault
      /\ seen' = [seen EXCEPT ![Target(Channel)] = latch[Channel][1]]
      /\ latch' = [latch EXCEPT ![Channel] = << >>]
      /\ job' = [job EXCEPT ![Channel] = Advanced(@)]
      /\ phase' = [phase EXCEPT ![Channel] = IF job[Channel].left = 1 THEN "idle" ELSE "busy"]
  BY DEF Store, driverVars
<1>2. /\ req \in Requests /\ req # [none |-> TRUE] /\ req.n \in 1..255 /\ req.lba \in Nat
      /\ i \in 0..255 /\ Channel \in Channels /\ req.dir \in {"read", "write"}
  BY <1>1, InCall DEF CallInv
<1>3. \A k \in 1..req.n : PlaceOf(req, k) = <<Device, req.lba + k - 1>>
  BY <1>1, InCall DEF CallInv
<1>4. job[Channel].op = "write" /\ fault[Channel] = {}
  BY <1>1, <1>2 DEF IInv, LatchInv, FaultInv
<1>5. pc \in {"poll", "send", "flush"} /\ req.dir = "write"
  <2>1. CASE req.dir = "read"
    BY <1>1, <1>4, <2>1 DEF IInv, ReadInv, PathInv
  <2>2. CASE req.dir = "write"
    BY <1>1, <2>2 DEF IInv, ReadInv
  <2> QED
    BY <1>2, <2>1, <2>2
<1>6. /\ job[Channel].dev = Device
      /\ job[Channel].at + job[Channel].left = req.lba + req.n
      /\ i >= 1 /\ latch[Channel] = <<req.data[i]>>
  BY <1>1, <1>4, <1>5 DEF CallInv, JobInv
<1>7. job[Channel] \in Jobs /\ job[Channel].at \in Nat
  BY <1>2 DEF IInv, TypeOK, DeviceTypeOK, Jobs
<1>8. job[Channel].left = req.n - i + 1 /\ i <= req.n
  <2>1. Len(latch[Channel]) = 1
    BY <1>6
  <2> QED
    BY <1>1, <1>4, <1>5, <2>1 DEF IInv, WriteInv
<1>9. /\ req.n - job[Channel].left = i - 1 /\ (i - 1) + 1 = i /\ i - 1 < req.n
      /\ req.n - (job[Channel].left - 1) = i
      /\ job[Channel].at = req.lba + i - 1 /\ i \in 1..req.n
      /\ job[Channel].left >= 1
  <2>1. req.n \in Nat /\ i \in Nat /\ req.lba \in Nat /\ job[Channel].at \in Nat
    <3>1. \A n \in 1..255, k \in 0..255 : n \in Nat /\ k \in Nat
      OBVIOUS
    <3> QED
      BY <1>2, <1>7, <3>1, Zenon
  <2>2. i >= 1 /\ i <= req.n
    BY <1>6, <1>8, Zenon
  <2> QED
    BY <1>6, <1>8, <2>1, <2>2, CountingStored
<1>10. /\ job'[Channel].op = "write" /\ job'[Channel].dev = Device
       /\ job'[Channel].left = job[Channel].left - 1
       /\ job'[Channel].at + job'[Channel].left = req.lba + req.n
  <2>1. job'[Channel] = Advanced(job[Channel])
    BY <1>1, <1>2 DEF IInv, TypeOK, DeviceTypeOK
  <2>2. /\ job'[Channel].op = "write" /\ job'[Channel].dev = Device
        /\ job'[Channel].at = job[Channel].at + 1 /\ job'[Channel].left = job[Channel].left - 1
    BY <1>4, <1>6, <1>7, <1>9, <2>1, AdvancedFact
  <2>3. job[Channel].left \in Nat
    BY <1>2 DEF IInv, TypeOK, DeviceTypeOK, Jobs
  <2>4. \A a, l \in Nat : (a + 1) + (l - 1) = a + l
    OBVIOUS
  <2> QED
    BY <1>6, <1>7, <2>2, <2>3, <2>4, Zenon
<1>11. Channel' = Channel /\ Device' = Device
  BY <1>1 DEF Channel, Device
<1>12. /\ latch'[Channel] = << >>
       /\ phase'[Channel] = "idle" => job[Channel].left = 1
  BY <1>1, <1>2 DEF IInv, TypeOK, DeviceTypeOK
<1>13. CallInv'
  <2>1. ServedInv'
    BY <1>1 DEF CallInv, ServedInv, NotFound, PastTheEnd
  <2>2. GotInv'
    BY <1>1 DEF CallInv, GotInv
  <2>3. JobInv'
    BY <1>1, <1>10, <1>11, <1>12 DEF JobInv
  <2>4. DoneInv'
    BY <1>5, <1>10, <1>11, <1>12 DEF DoneInv
  <2> QED
    BY <2>1, <2>2, <2>3, <2>4 DEF CallInv
<1>14. Abstract!Put
  <2>1. MovedSoFar = i - 1
    <3>1. ~DriveFailed
      BY <1>1 DEF DriveFailed
    <3> QED
      BY <1>4, <1>5, <1>9, <3>1 DEF MovedSoFar
  <2>2. MovedSoFar' = i
    <3>1. ~DriveFailed'
      BY <1>1, <1>4, <1>11 DEF DriveFailed
    <3> QED
      BY <1>1, <1>5, <1>9, <1>10, <1>11, <3>1 DEF MovedSoFar
  <2>3. PlaceOf(req, i) = Target(Channel)
    BY <1>3, <1>6, <1>9 DEF Target
  <2>4. seen' = [seen EXCEPT ![PlaceOf(req, i)] = req.data[i]]
    BY <1>1, <1>6, <2>3
  <2> QED
    BY <1>1, <1>2, <1>5, <1>9, <2>1, <2>2, <2>4 DEF Abstract!Put, Abstract!NoCall
<1> QED
  BY <1>13, <1>14 DEF Refines, Abstract!Next

\* What a drive does on its own: stores a sector, gives a command up, or moves
\* nothing.
LEMMA DriveRefines ==
  ASSUME Honest(Requests), IInv, UnsentInv, CallInv, NEW c \in Channels, DriveMoves(c)
  PROVE  Refines
<1>1. /\ UNCHANGED <<pc, req, i, err, buffer, ret>> /\ UNCHANGED driverVars
      /\ DeviceStep(c) /\ phase[c] # "idle"
  BY DEF DriveMoves, driverVars, DeviceStep, RaiseBusy, Fail, Offer, Store, Flushed
<1>2. c = Channel /\ pc \in {"poll", "receive", "send", "flush"}
  BY <1>1 DEF IInv, RestInv, PathInv, TypeOK, PCs
<1>3. /\ req.n \in 1..255 /\ Channel \in Channels /\ req.dir \in {"read", "write"}
      /\ req # [none |-> TRUE]
  BY <1>2, InCall DEF CallInv
<1>4. Channel' = Channel /\ Device' = Device
  BY <1>1 DEF Channel, Device
<1>5. ServedInv' /\ GotInv'
  BY <1>1 DEF CallInv, ServedInv, GotInv, NotFound, PastTheEnd
<1>6. CASE RaiseBusy(c) \/ Offer(c)
  <2>1. UNCHANGED <<job, latch, seen>> /\ phase'[Channel] # "idle"
    BY <1>2, <1>3, <1>6 DEF RaiseBusy, Offer, IInv, TypeOK, DeviceTypeOK
  <2>2. JobInv'
    BY <1>1, <1>2, <1>4, <2>1 DEF CallInv, JobInv
  <2>3. DoneInv'
    BY <1>1, <1>4, <2>1 DEF CallInv, DoneInv
  <2>4. MovedSoFar' = MovedSoFar
    BY <1>1, <1>2, <1>4, <2>1 DEF MovedSoFar, DriveFailed
  <2> QED
    BY <1>1, <1>2, <1>5, <2>1, <2>2, <2>3, <2>4, NoStep DEF CallInv
<1>7. CASE Fail(c)
  <2>1. /\ UNCHANGED <<job, latch, seen>> /\ phase'[Channel] = "idle" /\ fault'[Channel] # {}
    BY <1>2, <1>3, <1>7 DEF Fail, IInv, TypeOK, DeviceTypeOK
  <2>2. CallInv'
    <3>1. JobInv'
      BY <1>4, <2>1 DEF JobInv
    <3>2. DoneInv'
      BY <1>1, <1>4, <2>1 DEF CallInv, DoneInv
    <3> QED
      BY <1>5, <3>1, <3>2 DEF CallInv
  <2>3. CASE req.dir = "read"
    <3>1. MovedSoFar' = MovedSoFar
      BY <1>1, <2>3 DEF MovedSoFar
    <3> QED
      BY <1>1, <1>2, <2>1, <2>2, <3>1, NoStep
  <2>4. CASE req.dir = "write"
    <3>1. DriveFailed'
      BY <1>4, <2>1 DEF DriveFailed
    <3>2. MovedSoFar' = req.n
      BY <1>1, <1>2, <2>4, <3>1 DEF MovedSoFar
    <3>3. Abstract!Lose
      BY <1>1, <1>2, <1>3, <2>1, <2>4, <3>1, <3>2 DEF Abstract!Lose, Abstract!NoCall
    <3> QED
      BY <2>2, <3>3 DEF Refines, Abstract!Next
  <2> QED
    BY <1>3, <2>3, <2>4
<1>8. CASE Store(c)
  BY <1>1, <1>2, <1>8, StoreRefines
<1>9. CASE Flushed(c)
  <2>1. /\ UNCHANGED <<job, latch, seen>> /\ job[Channel].op = "flush"
        /\ phase'[Channel] = "idle"
    BY <1>2, <1>3, <1>9 DEF Flushed, IInv, TypeOK, DeviceTypeOK
  <2>2. JobInv'
    BY <1>4, <2>1 DEF JobInv
  <2>3. DoneInv'
    BY <1>1, <1>4, <2>1 DEF CallInv, DoneInv
  <2>4. MovedSoFar' = MovedSoFar
    BY <1>1, <1>2, <1>4, <2>1 DEF MovedSoFar, DriveFailed
  <2> QED
    BY <1>1, <1>2, <1>5, <2>1, <2>2, <2>3, <2>4, NoStep DEF CallInv
<1> QED
  BY <1>1, <1>6, <1>7, <1>8, <1>9 DEF DeviceStep

LEMMA Kept ==
  ASSUME Honest(Requests), IInv, UnsentInv, CallInv, [Next]_vars
  PROVE  Refines
<1>1. CASE UNCHANGED vars
  <2> USE <1>1 DEF vars, deviceVars, driverVars, Channel, Device
  <2>1. CallInv'
    BY DEF CallInv, ServedInv, GotInv, JobInv, DoneInv, NotFound, PastTheEnd
  <2>2. UNCHANGED Abstract!absVars
    BY DEF Abstract!absVars, MovedSoFar, DriveFailed
  <2> QED
    BY <2>1, <2>2 DEF Refines
<1>2. CASE Receive
  BY <1>2, ReceiveRefines DEF Refines, Abstract!Next
<1> QED
  BY <1>1, <1>2, RejectRefines, CallRefines, WaitRefines, IssueRefines, PollRefines,
     SendRefines, FlushRefines, ReturnRefines, DriveRefines DEF Next, Driver

LEMMA CallStart == Init => CallInv
BY DEF Init, DriverInit, CallInv, ServedInv, GotInv, JobInv, DoneInv

\* Everything that a caller of the driver is promised, for any drives, faults
\* and orders of steps: the driver and the drives are a block device.
THEOREM Refinement ==
  ASSUME Honest(Requests)
  PROVE  Spec => ImplementsBlockDevice
<1>1. Init => Abstract!Init
  <2> SUFFICES ASSUME Init PROVE Abstract!Init
    OBVIOUS
  <2>1. pc = "idle" /\ seen = Factory /\ buffer = << >> /\ ret = 0
    BY DEF Init, DeviceInit, DriverInit
  <2> QED
    BY <2>1, MovedFact DEF Abstract!Init, Abstract!NoCall
<1>2. IInv /\ UnsentInv /\ CallInv /\ [Next]_vars => CallInv' /\ [Abstract!Next]_(Abstract!absVars)
  BY Kept DEF Refines
<1>3. (Spec => []IInv) /\ (Spec => []UnsentInv)
  BY Inductive, Unsent DEF Honest
<1> QED
  BY <1>1, <1>2, <1>3, CallStart, PTL DEF Spec, ImplementsBlockDevice, Abstract!Spec

\* What has been put at buffer is what the drive holds there, and all of it if
\* the call returned 0.
BufferInv ==
  req.dir = "read" =>
    /\ \A k \in 1..Len(buffer) : buffer[k] = seen[PlaceOf(req, k)]
    /\ pc = "idle" /\ ret = 0 => Len(buffer) = req.n

LEMMA BufferKept ==
  ASSUME Honest(Requests), IInv, CallInv, BufferInv, Next
  PROVE  BufferInv'
<1>1. ASSUME NEW r \in Requests, Reject(r) \/ Call(r) PROVE BufferInv'
  <2>1. buffer' = << >> /\ (pc' # "idle" \/ ret' # 0)
    <3>1. CASE Reject(r)
      BY <3>1 DEF Reject
    <3>2. CASE Call(r)
      BY <3>2 DEF Call
    <3> QED
      BY <1>1, <3>1, <3>2
  <2> QED
    BY <2>1 DEF BufferInv
<1>2. CASE Receive
  <2>1. Abstract!Fetch /\ pc = "receive" /\ req' = req /\ pc' # "idle"
    BY <1>2, ReceiveRefines DEF Receive, LoopHead
  <2>2. req.dir = "read" /\ buffer \in Seq(Data)
    BY <2>1 DEF IInv, ReadInv, TypeOK
  <2>3. MovedSoFar = Len(buffer)
    BY <2>1, <2>2, MovedFact
  <2>4. buffer' = Append(buffer, seen[PlaceOf(req, Len(buffer) + 1)]) /\ seen' = seen
    BY <2>1, <2>3 DEF Abstract!Fetch
  <2> DEFINE v == seen[PlaceOf(req, Len(buffer) + 1)]
  <2>5. /\ Len(buffer') = Len(buffer) + 1 /\ buffer'[Len(buffer) + 1] = v
        /\ \A k \in 1..Len(buffer) : buffer'[k] = buffer[k]
    <3>1. buffer' = Append(buffer, v)
      BY <2>4
    <3> HIDE DEF v
    <3> QED
      BY <2>2, <3>1
  <2>6. ASSUME NEW k \in 1..Len(buffer') PROVE buffer'[k] = seen[PlaceOf(req, k)]
    <3>1. k \in 1..Len(buffer) \/ k = Len(buffer) + 1
      BY <2>2, <2>5
    <3> QED
      BY <2>2, <2>5, <3>1, Zenon DEF BufferInv
  <2> QED
    BY <2>1, <2>4, <2>6 DEF BufferInv, PlaceOf
<1>3. CASE Return
  <2>1. /\ pc = "return" /\ UNCHANGED <<req, buffer, seen>>
    BY <1>3 DEF Return, deviceVars
  <2>2. ret' = 0 => err = 0
    BY <1>3, ReturnedErr
  <2>3. req.dir = "read" /\ err = 0 => Len(buffer) = req.n
    BY <2>1 DEF CallInv, GotInv
  <2> QED
    BY <2>1, <2>2, <2>3 DEF BufferInv, PlaceOf
<1>4. CASE WaitNotBusy \/ Issue \/ PollRead \/ PollWrite \/ Send \/ Flush
  <2>1. UNCHANGED <<req, buffer, seen>> /\ pc' # "idle"
    BY <1>4 DEF WaitNotBusy, Issue, PollRead, PollWrite, Send, Flush, Command, DataOut, deviceVars, LoopHead
  <2> QED
    BY <2>1 DEF BufferInv, PlaceOf
<1>5. ASSUME NEW c \in Channels, DriveMoves(c) PROVE BufferInv'
  <2>1. UNCHANGED <<pc, req, buffer, ret>>
    BY <1>5 DEF DriveMoves, driverVars
  <2>2. req.dir = "read" => seen' = seen
    <3>1. SUFFICES ASSUME Store(c) PROVE req.dir # "read"
      BY <1>5 DEF DriveMoves, DeviceStep, RaiseBusy, Fail, Offer, Flushed
    <3>2. phase[c] = "busy" /\ job[c].op = "write"
      BY <3>1 DEF Store, IInv, LatchInv
    <3>3. c = Channel /\ pc \in {"poll", "receive", "send", "flush"}
      BY <3>2 DEF IInv, RestInv, PathInv, TypeOK, PCs
    <3> QED
      BY <3>2, <3>3 DEF IInv, ReadInv, PathInv
  <2> QED
    BY <2>1, <2>2 DEF BufferInv, PlaceOf
<1> QED
  BY <1>1, <1>2, <1>3, <1>4, <1>5 DEF Next, Driver

\* A read that returns 0 has put the sectors asked for, in order and nothing
\* else, at buffer, whatever the drives did meanwhile.
THEOREM ReadsAreRight ==
  ASSUME Honest(Requests)
  PROVE  Spec => []ReadIsRight
<1>1. Init => BufferInv
  BY DEF Init, DriverInit, BufferInv, NoRequest
<1>2. IInv /\ UnsentInv /\ CallInv /\ BufferInv /\ [Next]_vars => CallInv' /\ BufferInv'
  <2> SUFFICES ASSUME IInv, UnsentInv, CallInv, BufferInv, [Next]_vars PROVE CallInv' /\ BufferInv'
    OBVIOUS
  <2>1. CallInv'
    BY Kept DEF Refines
  <2>2. CASE UNCHANGED vars
    BY <2>1, <2>2 DEF BufferInv, PlaceOf, vars, deviceVars, driverVars
  <2>3. CASE Next
    BY <2>1, <2>3, BufferKept
  <2> QED
    BY <2>2, <2>3
<1>3. BufferInv => ReadIsRight
  BY DEF BufferInv, ReadIsRight
<1>4. (Spec => []IInv) /\ (Spec => []UnsentInv)
  BY Inductive, Unsent DEF Honest
<1> QED
  BY <1>1, <1>2, <1>3, <1>4, CallStart, PTL DEF Spec
=============================================================================
