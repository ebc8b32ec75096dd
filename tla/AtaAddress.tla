------------------------------ MODULE AtaAddress ------------------------------
(***************************************************************************)
(* How ide_ata_access (ide.c) puts a linear block address into the task    *)
(* file of an ATA channel, and how the drive reads it back.                *)
(*                                                                         *)
(* The task file is reached through a block of I/O ports.  Ports 2..5 are  *)
(* two deep: a second write to a port pushes the first into its "high      *)
(* order byte", which only the 48-bit commands look at.                    *)
(***************************************************************************)
EXTENDS Integers

\* Register numbers of ide.h.
ATA_REG_SECCOUNT0 == 2
ATA_REG_LBA0      == 3
ATA_REG_LBA1      == 4
ATA_REG_LBA2      == 5
ATA_REG_SECCOUNT1 == 8
ATA_REG_LBA3      == 9
ATA_REG_LBA4      == 10
ATA_REG_LBA5      == 11
ATA_REG_CONTROL   == 12

LBA28_LIMIT == 268435456             \* 0x10000000, the test in ide_ata_access

----------------------------------------------------------------------------
(* Registers and ports: ide_read_register, ide_write_register. *)

\* ata_init's port bases of the two channels.
BasePort(c)    == IF c = 0 THEN 496 ELSE 368        \* 0x1F0, 0x170
ControlBase(c) == IF c = 0 THEN 1014 ELSE 886       \* 0x3F6, 0x376

\* The port a register number is sent to.
PortOf(c, reg) ==
  IF reg < 8 THEN BasePort(c) + reg
  ELSE IF reg < 12 THEN BasePort(c) + reg - 6
  ELSE ControlBase(c) + reg - 10

\* The task-file slot of the drive that such a port addresses.
SlotOf(c, reg) == PortOf(c, reg) - BasePort(c)

Slots    == 2..5
EmptyTaskFile == [cur |-> [p \in Slots |-> 0], hob |-> [p \in Slots |-> 0]]

\* One port write, as the drive's two-deep registers take it.
Push(file, c, reg, v) ==
  LET p == SlotOf(c, reg)
  IN  [cur |-> [file.cur EXCEPT ![p] = v],
       hob |-> [file.hob EXCEPT ![p] = file.cur[p]]]

----------------------------------------------------------------------------
(* (I) Select one from LBA28, LBA48 or CHS. *)

\* The mode depends on the address and on the LBA bit of the capabilities.
LbaMode(lbaCapable, lba) ==
  IF lba >= LBA28_LIMIT THEN "LBA48"
  ELSE IF lbaCapable THEN "LBA28" ELSE "CHS"

\* Sector, cylinder (a uint16) and head of a CHS access.
ChsSectorFromZero(lba) == lba % 63                  \* mutant: sectors counted from 0
ChsSector(lba)   == (lba % 63) + 1
ChsCylinder(lba) == ((lba + 1 - ChsSector(lba)) \div 1008) % 65536
ChsHead(lba)     == ((lba + 1 - ChsSector(lba)) % 1008) \div 63

\* lba_io[0..3]; lba_io[4] and lba_io[5] are always 0.
LbaIo(mode, lba) ==
  IF mode = "CHS" THEN
         [b0 |-> ChsSector(lba), b1 |-> ChsCylinder(lba) % 256,
          b2 |-> (ChsCylinder(lba) \div 256) % 256, b3 |-> 0]
  ELSE IF mode = "LBA28" THEN
         [b0 |-> lba % 256, b1 |-> (lba \div 256) % 256,
          b2 |-> (lba \div 65536) % 256, b3 |-> 0]
  ELSE
         [b0 |-> lba % 256, b1 |-> (lba \div 256) % 256,
          b2 |-> (lba \div 65536) % 256, b3 |-> (lba \div 16777216) % 256]

HeadNumber(mode, lba) ==
  IF mode = "CHS" THEN ChsHead(lba)
  ELSE IF mode = "LBA28" THEN (lba \div 16777216) % 16
  ELSE 0

\* (V) Write Parameters: the high-order bytes first, then the low ones.
HighBytes(file, c, io) ==
  Push(Push(Push(Push(file, c, ATA_REG_SECCOUNT1, 0),
                 c, ATA_REG_LBA3, io.b3),
            c, ATA_REG_LBA4, 0),
       c, ATA_REG_LBA5, 0)
LowBytes(file, c, io, n) ==
  Push(Push(Push(Push(file, c, ATA_REG_SECCOUNT0, n),
                 c, ATA_REG_LBA0, io.b0),
            c, ATA_REG_LBA1, io.b1),
       c, ATA_REG_LBA2, io.b2)

WriteParameters(c, mode, lba, n) ==
  LET io == LbaIo(mode, lba)
  IN  LowBytes(IF mode = "LBA48" THEN HighBytes(EmptyTaskFile, c, io) ELSE EmptyTaskFile,
               c, io, n)

----------------------------------------------------------------------------
(* The drive's side (external). *)

\* The sector a drive takes from its task file; head is in HDDEVSEL.
DecodeAddress(mode, head, file) ==
  IF mode = "CHS" THEN
         ((file.cur[4] + 256 * file.cur[5]) * 16 + head) * 63 + file.cur[3] - 1
  ELSE IF mode = "LBA28" THEN
         file.cur[3] + 256 * file.cur[4] + 65536 * file.cur[5] + 16777216 * head
  ELSE
         file.cur[3] + 256 * file.cur[4] + 65536 * file.cur[5] + 16777216 * file.hob[3]

\* The sector count a drive takes: zero stands for the largest transfer.
DecodeCount(mode, file) ==
  LET n == IF mode = "LBA48" THEN file.cur[2] + 256 * file.hob[2] ELSE file.cur[2]
  IN  IF n = 0 THEN IF mode = "LBA48" THEN 65536 ELSE 256 ELSE n

\* What a CHS access can hold: 65536 cylinders of 16 heads of 63 sectors.
CHS_LIMIT == 66060288

\* The addresses a mode is right for.
Fits(mode, lba) ==
  lba < (IF mode = "CHS" THEN CHS_LIMIT
         ELSE IF mode = "LBA28" THEN LBA28_LIMIT ELSE 16 * LBA28_LIMIT)
=============================================================================
