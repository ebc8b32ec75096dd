# A verification of AHK

AHK is a small 32-bit teaching kernel in C: it boots by multiboot, finds the
disks behind the two ATA channels, reads a disk image and lists the files in it
on the VGA text screen. Beside it are host tools that make such images and read
FAT12 ones. This directory holds TLA+ models of the parts with state worth
checking, TLC configurations that check them on small instances, and theorems
about them for every value of their parameters, proved with TLAPS.

What runs: `tlc -config X.cfg M` for the runs listed below, `tlapm M.tla` for
the eight `*Proofs` modules. `PROJECT.json`
lists runs, mutants (a change to a definition that must break the property),
hazards, theorems, and which lines of the source each definition stands for.

## 1. Inventory

The Makefile links `boot common monitor descriptor_tables isr interrupt gdt
timer ide fat fs main`. `kheap.c`, `ordered_array.c`, `paging.c` and `vfs.c` are
in the repository and compile, but the kernel as it is built does not link them
(`paging.c` wants a symbol `end` that `link.ld` does not define). They are
modelled as the code they are, used as their comments and headers say.

| Part | State | Operations | Hard because | Module |
|---|---|---|---|---|
| IDE transfers (`ide.c`, `ide.h`) | `g_ide_channels`, `g_ide_devices`; the drive's status, buffer, cache | `ide_read_sectors`, `ide_write_sectors`, `ide_ata_access`, `ide_polling`, `ide_print_error` | the drive moves on its own between any two port accesses; errors in the middle of several sectors; status bits that are stale for 400ns | `IdeDriver`, `IdeDevice`, `BlockDevice` |
| IDE addressing | two-deep 8-bit registers | the three modes of `ide_ata_access`, `ide_write_register` | shifts, orders of writes and 16-bit cylinders over 32-bit addresses | `AtaAddress` |
| IDE probing | `g_ide_devices`, `count` | `ide_init`, `ata_get_drive_by_model` | polling loops without a limit, slow drives, slots passed over | `IdeProbe` |
| Ordered array (`ordered_array.c`) | `array`, `size` | insert, remove, lookup | in-place shifting, equal keys | `OrderedArray`, `SortedArray` |
| Kernel heap (`kheap.c`) | headers and footers in memory, index, `end_address` | `alloc`, `free`, `expand`, `contract` | long sequences of legal calls; boundary tags that outlive their blocks; page and hole sizes that just fit | `KernelHeap`, `Allocator` |
| Paging (`paging.c`, early `kmalloc`) | frame bitmap, page directory, `placement_address` | `initialise_paging`, `get_page`, `alloc_frame`, `free_frame` | a loop whose bound its own body moves; a bitmap cleared in part; frame 0 | `Paging` |
| Console (`monitor.c`) | framebuffer, cursor, cursor of the VGA board | `monitor_put`, `monitor_write`, `monitor_clear`, `_hex`, `_dec` | wrap, tab, line feed and scroll that come together at the edges | `Console`, `Teletype` |
| FAT12 reader (`tools/fat/fat.c`) | table, root directory, buffer, current cluster | `readBootSector` to `readFile`, `main`'s error exits | packed 12-bit entries, chains that jump, an image that ends anywhere | `Fat12` |
| Image writer (`tools/initrd`) and AFS listing (`main.c`) | the image's count, 64 headers and data area; the sectors the kernel has read | write, list | two passes over files that others change; a reader that ignores how much it got; two programs that must agree on a layout | `Afs` |
| Interrupts, descriptor tables, timer (`descriptor_tables.c`, `isr.c`, `interrupt.s`, `gdt.s`, `timer.c`) | IDT, GDT, both interrupt controllers, `interrupt_handlers`, `tick`, the stack | `init_idt`, `gdt_set_gate`, the stubs, `irq_handler`, `isr_handler`, `init_timer` | interrupts between any two steps, spurious ones, a cascade of two controllers, a stack that stubs and processor must agree on | `Interrupts`, `Descriptors`, `Pic` |
| Virtual file system (`fs.c`, `vfs.c`) | function pointers of nodes | forwarding | no code of the build calls them | none |
| FAT12 in the kernel (`fat.c`) | none | `readSectors`, unfinished | no code calls it | none |
| C library (`common.c`) | none | ports, memory, strings | `strcpy`, `strcat` leave out the last byte | none; `PANIC` is `Halt` in `KernelHeap`, `insw`, `outsw` are in `IdeDriver`, `outb` in `Interrupts` |
| Boot, linking, demo | none | | no state | none |

How they meet: `main` calls `ide_init`, then `ide_read_sectors` into a buffer,
then the console; the three share nothing else. The heap keeps its index in an
ordered array and takes frames through `get_page` and `alloc_frame` when it
expands; paging takes its own memory from `placement_address` before there is a
heap. `ide.c` talks to the drives through ports. There is one thread of
control: the only code that sets the interrupt flag is the return from an
interrupt, `init_timer` is never called, and `main` neither registers a handler
nor executes `sti`. So in the kernel as it is built the concurrency that is real
is between the CPU and the drives, and that is what `IdeDriver` interleaves.
`Interrupts` is about the kernel that this code is written for: `sti` and the
call of `init_timer` are actions of its environment, which may come at any time
or never. `Afs` begins on the host, where `initrdcreator` shares its files with
other programs, and ends in `main`. The other modules interleave the calls a
program may make.

What makes each part correct is what its properties say (section 4). The
hazards in `PROJECT.json` name the lines where it could fail.

## 2. Modules

- `AtaAddress`, constants and operators only: register numbers to ports, the
  choice of LBA28, LBA48 or CHS, what goes into the registers in which order,
  and (external) what a drive makes of them.
- `IdeDevice` (external throughout): a channel's status as a phase. `starting`
  and `gap` are the 400ns in which the status is still the old one; a command
  to a drive that is not `idle` and data to one that did not ask for them are
  lost. A drive fails any command in a way `Outcomes` allows. `seen` is what a
  read finds, with the write cache; `media` what a power loss leaves.
- `IdeDriver` extends both: one action per access of `ide.c` to the drive, with
  `pc` for the place in `ide_ata_access`. `Reject` and `Call` are the two ways
  through the checks of `ide_read_sectors`; `PollRead` and `PollWrite` are
  `ide_polling(channel, 1)` and `(channel, 0)`, the first looking at ERR, DF and
  DRQ and the second at BSY alone, as the code does; `Receive` and `Send` move a
  sector (`rep insw`, `rep outsw`); `Return` is `ide_print_error`. An `err` that
  nobody set, which the ATAPI path returns, is any byte. `BlockDevice` is what a
  caller is promised, and the property `ImplementsBlockDevice` the refinement.
- `IdeProbe`: `ide_init` over the four slots, each with nothing, a disk, a
  packet drive or something unknown in it.
- `OrderedArray`: a step per turn of the three loops of `ordered_array.c`: the
  search for a new item's place, the one that shifts up through `tmp` and
  `tmp2`, the one that shifts down and reads the word behind the items. That
  nobody inserts into a full array is left to the owner, as in the code:
  `insert_ordered_array` does not look at `max_size`. `Rekey` is the owner who
  changes what the keys are read from, as the heap does. `SortedArray` is what
  the loops promise, a sequence into which an item is put and from which one is
  taken at once; the heap's index is one of those.
- `KernelHeap`: memory is a partial function from addresses to tags, the headers
  and footers with the magic number that were written and not yet overwritten,
  so that a stale tag can be met as it can in the code. `Call` opens a request;
  each round of `alloc`'s recursion is an `Alloc` or an `Expand`; `Free` is a
  whole call with its unifying, contracting and indexing. Sums of sizes wrap as
  a u32int does, with `WORD` for 2^32. `Halt` is a failed ASSERT or a page
  fault, or an expansion with more pages than there are (`frames`). `Allocator` is what the users of the heap are
  promised: regions that lie apart, until they are freed.
- `Paging`: `initialise_paging` a round of a loop at a time, then `Grow` and
  `Shrink`, which are the loops of `expand` and `contract` over `alloc_frame`
  and `free_frame`. `first_frame` without a free frame returns no value: any of
  `Fallen`. The bitmap's bytes that are not cleared are any of `Leftovers`.
- `Console`: a step per character of `monitor_write`; `Put` is all of
  `monitor_put`, with `scroll` and `move_cursor`. `Teletype` knows lines and a
  column but no framebuffer, and `ImplementsTeletype` says that the screen from
  its top to the cursor's row is one. `Decimal` and `Hex` are the digits that
  `monitor_write_dec` and `monitor_write_hex` put. A char is signed, so from
  128 on it is not `>= ' '` and does nothing.
- `Fat12`: a step per function that `main` calls and per turn of `readFile`'s
  loop. An image's bytes are what a FAT12 volume has at those places, with the
  table packed, and a byte of the data area is its own address, so that what is
  printed tells where it came from. Reads behind the end of an image fail.
  `overrun` is a write behind the buffer, where the behaviour is undefined.
- `Pic` (external throughout): the two 8259A controllers, what `init_idt` writes
  to them and `irq_handler` tells them: the four initialisation words, masks,
  priorities, the cascade at level 2, end of interrupt, and a request that is
  gone before it is acknowledged and comes in as level 7.
- `Descriptors`, constants and operators only: `idt_set_gate` and
  `gdt_set_gate` with the fields they split addresses into, beside (external)
  how the processor puts them together again.
- `Interrupts` extends both. `WritePort` is one write of `init_idt` after the
  other, `LoadTables` its end; then an interrupt goes from `Interrupt` or
  `Exception` (the processor pushes the frame and goes through the gate) by
  `Stub`, `EoiSlave`, `EoiMaster`, `Callback` and `Leave` to `Iret`, each of
  them a place at which another could come in. The stack holds words with
  their names, so that `Reg` finds what `registers_t` finds at its place, not
  what was meant to be there. `due` and `served` only record. Where a stack is
  wrong or a gate is missing the processor is `wild`.
- `Afs`: `Measure`, `Open`, `Copy` and `Close` are the two loops of
  `initrdcreator.c`, with `Edit`s of other programs between any two of them.
  `argc` is declared a char there, and `Char` is what that does to it. A file
  that has gone by the second loop crashes it; one that has shrunk leaves what
  `malloc` returned in the image. Lengths and offsets are unsigned ints and
  wrap. `ReadDisk` to `Return` are `main`, with any number of sectors read,
  because the result of `ide_read_sectors` is not looked at. `ListUnread` lists
  a header that did not come; `Overrun` is the `memcpy` of a file that is longer
  than `content`. From two sectors on, its array of 512 bytes has been overrun
  by the nine that follow, and where it returns to is `wild`. That those nine
  are still there when `main` looks at them is the layout of its frame in a
  build without optimisation, which the Makefile's is; where they overwrite
  other variables of `main` first, it is not modelled.
- `MC*` modules hold the instances; the `*Proofs` modules the proofs.

Taken for granted: names of fewer than 64 bytes and a `malloc` that has memory
(images). Left out of the modelled parts: the size, signature and command-set fields of a
drive's entry, messages that are printed, `page_fault` (it prints and panics),
`lookup` and the two ways to make an ordered array, colours, the printing of
unprintable bytes as hex.

## 3. Bounds, and why they are enough

- IDE: an LBA disk of three sectors and a CHS disk of two share a channel, a
  packet drive has the other, and the table has two free entries. Requests of
  one to three sectors meet each place in the loop (first, middle, last); the
  refused ones are past the end, an absent drive, index 5 (one behind the table)
  and index 9; none is for 0 sectors (section 6). Faults come as ERR with one and two bits, as DF, at any sector.
  `WORD` is 2^30 for 2^32, because TLC's integers are signed 32-bit ones;
  nothing but the wrap-around in `PastTheEnd` depends on it.
- Probing: all 256 choices of what stands in the four slots, no bound.
- Ordered array: four items and room for four, an owner who changes between two
  assignments of keys, each with equal ones.
- Heap: pages of 128 bytes, an initial heap of three pages, tags of the real
  sizes (12 and 8). The sizes of blocks are chosen so that they fit exactly,
  leave room for no tag, and need one page or two more. `WORD` is 2^16, far
  above what a heap at `max_address` can add up to. `most` bounds the
  blocks held; `MAX` is `max_address`.
- Paging: pages of 64 bytes, tables of 12 pages, 64 frames, a kernel ending in
  its second page, a heap of three pages at page 24. One page table is taken for
  the heap before the identity mapping and one by its loop, which moves the
  loop's own end. The bitmap is cleared for 16 frames, a quarter of them, as in the code.
- Console: three rows of four cells with tab stops at every second one, all
  strings of one character of each kind and two longer ones, in any order for
  ever. `MCConsole` assumes `DecimalIsRight` and `HexIsRight`, facts about
  constants that TLC evaluates before the run: all numbers of three hexadecimal
  digits (from half of them on, 2^31 in the code, the decimal puts nothing).
- Interrupts: the timer on line 0; line 7, whose vector is also that of the
  master's spurious interrupts; line 8, the slave's first, at the boundary
  that `irq_handler` tests for. Each is raised twice, so that a request can
  come while its line is in service; the other lines differ from these in
  priority only. An exception without an error code, the one that `isr.c`
  names, and one with. One frequency; stubs beyond 64 kB, so that both halves
  of an address count.
- Images: two files of up to four bytes, or absent, changed twice; command lines
  of two, three and seven files (the last header of the seven is cut off by a
  read of one sector), of 64, the first that `argc` does not hold (counted -64),
  and of 130 (counted 2). The data area that `main` reads has room for four
  bytes, for two short files and not for three, `content` for three, so that
  the longest file overruns it; an unsigned int holds no offset beyond the
  ninth byte, so that offsets wrap around in images of three files on.
- FAT12: four clusters of one sector of three bytes, all ways to lay out a file
  of one to three of them beside a second file, last clusters that are full or
  hold one byte, and one image cut off at each of its bytes.

`MaxRaises`, `MaxEdits`, the heap programs' `most`, `MaxSize`, `HIGHEST` and `LOWEST` are the only bounds in
guards.

## 4. Runs

| Run | Shows |
|---|---|
| `IdeCalls` | With faults of reads, writes and flushes: commands are written only to a drive that takes them (`CommandTaken`), data move only while the drive wants them (`ReadUnderDrq`, `WriteUnderDrq`), both channels are at rest after every call (`QuietOnReturn`), a read that returns 0 is right (`ReadIsRight`), driver and drives together are a block device, and every call returns (`Returns`). |
| `IdeWriteError` | Violated: see section 6. |
| `ProbeDrives` | The table is compact and in the order of the slots at any time, ends with exactly the ATA disks and their identifications, lookup by model finds the first of two, and `ide_init` ends. |
| `ArraySorted` | The loops, turn by turn, implement `SortedArray`: what they shift is neither lost, doubled nor reordered, also when the owner changes keys between the calls (`ImplementsSortedArray`). As long as the keys stay what they are, no turn and no call takes the array out of its order (`Sorted`). |
| `HeapCalls` | Two programs: one frees its blocks in the reverse order, one asks for odd sizes and keeps them until the heap has grown to `max_address`. Holes and blocks tile the heap, footers point back, holes come together, pages have frames, nothing halts, the heap is an `Allocator`. |
| `HeapOverlap` | Violated: see section 6. |
| `PagingBoot` | Pages in use have frames of their own; what was taken from `placement_address` is mapped to itself; booting ends. |
| `PagingFree` | Violated: see section 6. |
| `ConsoleText` | The cursor stays on the screen, all below it is blank, and the screen is a teletype. |
| `FatReader` | What is printed with status 0 is the file asked for; a whole image gives every file and nothing else; buffers are freed on every path; the program ends within its buffer (`Returns`). |
| `Interrupts` | No handler is interrupted (`OneAtATime`), each finds the number and the error code of what is being served and the `iret` the frame that was pushed (`RightHandler`), an end of interrupt ends that interrupt and no other, spurious ones included (`EoiEndsItsOwn`), no tick is lost or counted twice, and every line that is raised is answered (`Answered`). |
| `AfsImage` | However the files change meanwhile, an image that is whole has every file that it counts where its header says, and counts all of them if they are fewer than 64 (`OffsetsPointHome`); the listing has every name whose header was read, in order, and what was read of the first two files, whatever part of the read succeeded (`Listed`). |

Some of these speak of the part of the behaviour in which the code is right,
and say so: what `BlockDevice` promises of a write is weak, since the code drops
the drive's verdict on it; the programs of `HeapCalls` free newest first or ask
for odd sizes, since other orders and sizes meet the defects of section 6;
`OwnFrames` speaks of the time before a frame is freed or none is left,
`IdentityMapped` of a kernel that ends where the bitmap is cleared, `Sorted` of
keys that stay, `OffsetsPointHome` of files that the image counts and `Listed`
of the contents of two files; the requests of `IdeCalls` are for at least one
sector. Each of these limits has a configuration or a change to one, in section
6, that crosses it and is violated.

Deadlock is not checked where the program ends (probing, FAT12), where a
program that may not free runs out of memory (`HeapCalls`), or where the
configuration looks for a violation in the heap. The type invariants of
`IdeProbe`, `Fat12`, `Afs` and `Interrupts` are not among the runs'
properties, in favour of ones that say more; TLC finds them true with the same
configurations, and the last is proved.

Every passing property has a mutant in its module, a plausible slip of the same
code (a dropped delay, a loop one turn short, a hole kept in the index, a row
one cell too long), that TLC must find with the same configuration.

## 5. Fairness

- `IdeDriver!FairSpec`: weak fairness of the driver's steps inside a call (the
  CPU runs on, and a polling loop reads the status again) and of each channel's
  drive (it ends what it began: it offers, stores or fails). No fairness is
  asked of callers. Without the second no polling loop of any driver could end.
- `IdeProbe!Spec`: the same for `ide_init` and the drive selected. A drive that
  ends IDENTIFY with neither data nor an error keeps `ide_init` polling; the
  ATA standard forbids it, and the model's drives do not.
- `Paging!FairSpec`: weak fairness of booting, which nothing preempts.
- `Fat12!FairSpec`: weak fairness of the program's steps.
- `Interrupts!FairSpec`: weak fairness of taking an interrupt that the processor
  wants (hardware does so at the next instruction), of the steps of a handler
  (nothing else runs), and of the instruction after `sti`. None is asked of the
  kernel: it may never turn interrupts on, and `Answered` speaks of the time
  after it has. A fault that the kernel's code raises over and over does not
  keep a line out, because each `iret` is followed by a place to take one.

## 6. Where the code goes wrong

Three disagreements between the code and its own comments are runs:

- `IdeWriteError` (`ide.c:496`): "print if any error in writing", but the result
  of `ide_polling(channel, 0)` is dropped, and it looks at neither ERR nor DF: a
  write that the drive ended with a fault returns 0.
- `HeapOverlap` (`kheap.c:357`): free computes the address of the footer to
  rewrite and does not write it. A later free follows the stale footer, and two
  live blocks overlap. Blocks of one size, freed in any order, are enough.
- `PagingFree` (`paging.c:102`): `clear_frame` takes an address and is given a
  frame number, so freeing a page gives frame 0, in use, to the next one.

Other properties are violated too. Where the table says "with", take the
configuration that it names and make that one change (and put the property in
the place of its invariant); the others are in this directory as they are. They
take the module of their prefix (`Ide` MCIdeDriver, `Probe` MCIdeProbe, `Heap`
MCKernelHeap, `Paging` MCPaging, `Fat` MCFat12, `Afs` MCAfs):

| Configuration | Property | What happens |
|---|---|---|
| `IdeDurable` | `WriteIsDurable` | the cache flush (`ide.c:504`) is written while the drive is busy with the last sector and is lost |
| `IdeInterrupts` | `InterruptsMasked` | register 0x0C becomes the port control + 2 (`ide.c:102`); nIEN, at control + 0, is never set |
| `IdeRange` | `InputsValid` | `lba + num_sectors` wraps at 2^32 (`ide.c:528`) |
| `IdeRange` with `Requests <- AtapiReads` | `ReadOfAnything` | `err` is not assigned for a packet drive (`ide.c:536`) and may be 0 |
| `IdeInterrupts` with `Requests <- ZeroCalls` | `QuietOnReturn` | 0 sectors pass the check of the arguments, a drive takes a count of 0 for its largest, and the loop of no turns leaves it in its data phase (`ide.c:481`) |
| `ProbeAtapi` | `AllIdentified` | the packet identification is read without polling (`ide.c:337`) |
| `ProbeAtapi` with its property | `AtapiDrivesFound` | the first status is read before 400ns have passed (`ide.c:308`) |
| `HeapFooter` | `HolesHaveFooters` | the footer that is not rewritten (`kheap.c:357`), by itself |
| `HeapOverlap` with `Programs <- MCMixed` | `IndexSorted` | the size that the index is sorted by is changed in place (`kheap.c:346`) |
| with `MCEven` | `EndOnPageBoundary` | `new_size & 0xFFFFF000 != 0` is a test for an odd number (`kheap.c:71`) |
| with `MCEven` | `NeverHalts` | its effect: the heap's last page has no frame |
| with `MCEndmost` | `BlocksApart` | expansion grows the last hole over the block behind it (`kheap.c:241`) |
| with `MCFit` | `NeverHalts` | free looks for a header behind the heap (`kheap.c:353`) |
| with `MCAligned` | `BlocksApart` | two aligned requests get one address (`kheap.c:134`) |
| with `MCBig` | `BlocksInside` | `new_size &= 0x1000` (`kheap.c:101`) leaves blocks behind the end |
| with `MCBig` | `HolesInside` | the wrong header is removed from the index (`kheap.c:391`) |
| with `MCHuge` | `BlocksInside` | `size` and the tags add up beyond 2^32 (`kheap.c:198`): the block is smaller than its tags |
| with `MCLarge` | `NeverHalts` | `old_length + new_size` does (`kheap.c:209`): the heap is to grow to less than it is |
| `PagingBoot` with `END = 1100` | `UsedIsMapped` | the kernel ends where the bitmap is not cleared (`paging.c:115`), and what lies there passes for frames in use |
| `PagingPhys` with `HIGHEST = 35` | `FullIsSafe` | with no free frame the page gets what EAX holds (`paging.c:80`) |
| `PagingPhys` | `PhysIsRight` | `+` binds tighter than `&` (`kheap.c:18`) |
| `FatReader` with `Volumes <- EmptyVolumes` | `FindsTheFile` | an empty file has cluster 0, in front of the data area, and ends in "Could not read" |
| `FatClusters` | `InBuffer` | with two sectors to a cluster the last one overruns the buffer (`fat.c:186`) |
| `AfsSlots` | `CountsFiles` | `argc` is a char (`initrdcreator.c:11`), and from 64 files on it is negative, from 128 on it begins again at 0: the image of 64 files, a header for each (`DOCUMENTATION.md:20`), counts -64 and has none of them, and the tool returns 0 |
| `AfsListing` | `AllListed` | a third file is looked for behind the length of the second alone (`main.c:100`) |
| `AfsListing` with its property | `SuccessMeansRead` | "SUCCESS!" is printed after a read that was refused |
| `AfsReturn` with its property | `ContentsFit` | a file longer than `content`, or the length in a header that was not read, goes over `main`'s frame (`main.c:100`) |
| `AfsReturn` | `MainReturns` | ten sectors are read into an array of one (`main.c:36`) |

`IndexSorted` is what becomes of `Sorted` when the owner does change keys.
`TableNeverOverrun` (section 7) is why a longer command line does not write
behind the table of headers either.

## 7. Proofs

TLAPS proves these for every value of the constants that the modules' named
assumptions allow; TLC has evaluated each assumption on an instance.

- `IdeDriverProofs`. First the addressing. `AddressRoundTrip`: the drive decodes
  the address that the caller gave, for every address that fits its mode, by
  splitting a number into bytes. `CountRoundTrip`: so does the count; 0 is the
  one exception.
  Then the driver, for any table, drives, requests and faults. `TypeOK` and
  `QuietOnReturn` are not inductive. `IInv` adds where in the loop the driver is
  against how far the drive is: a read has as many sectors left as the loop has
  turns left, a write one more while a sector is in the drive's latch
  (`ReadInv`, `WriteInv`); the other channel rests (`RestInv`); the ERROR
  register is clear while a drive serves (`FaultInv`). From it follow
  `TypeCorrect`, `AtRestBetweenCalls`, `CommandsAreTaken` and `ReadsUnderDrq`.
  There is a lemma for each action of driver and drive. `WritesUnderDrq` needs
  one thing more (`UnsentInv`): while sectors are left to send, the drive turns
  idle only by failing.
  All of these have the premise `Counted(Requests)`: no call is for 0 sectors,
  which the code lets through (section 6).
  `Refinement` and `ReadsAreRight` have a stronger one, `Honest(Requests)`: also, the
  drives that the calls are for are ATA drives whose size the table has, and
  `lba + numsects` neither wraps around nor leaves the mode's range (TLC
  evaluates it for the instance in `MCIdeDriver`; `IdeRange` shows what happens
  without it). They rest on `CallInv`: an accepted call is for sectors that are
  there (`ServedInv`), a read has got as many as the loop has gone round
  (`GotInv`), the drive is at the call's next sector and holds the one sent last
  (`JobInv`), and a write that ended without a fault has stored all (`DoneInv`).
  `Accepted` takes `AddressRoundTrip` to the place that the command is for.
- `IdeProbeProofs`, for any models and whatever stands in the slots. The table
  alone does not say what will be entered next, so `IInv` follows the drive: it has data
  or has aborted according to the command it was given (`AnswerInv`), and of the
  slots passed every disk is in the table, as what it is (`EnteredInv`,
  `TableInv`). It gives `TypeCorrect`, `NoHoles`, `DisksFound`,
  `DisksIdentified` and `ModelsFound`.
- `PagingProofs`. `FramesOwned` rests on `FrameInv`: until a frame is freed or
  the frames run out, the bits set include the frames of the pages in use, no
  two of them share one, and a page not in use has frame 0, which is how
  `alloc_frame` tells. `Identity` rests on `IdentityInv`: while the mapping
  stays below the cleared bits, frame and page counters go together, although
  each page table taken on the way moves the end.
- `ConsoleProofs`, for a screen of any size that 8-bit cursors can hold, any tab
  width, text and leftovers. `TypeCorrect` and `NothingBelow` need each other:
  only because all below the cursor is blank does the line that it moves to,
  scrolled or not, start blank. `Refinement` shows that each step of `Console`
  is a step of `Teletype` or stutters. Its core, `PutShows`, follows the rows on
  the screen through a character that stays in its line, one that moves down
  and one that scrolls.
- `Fat12Proofs`. `TwelveBits`: from the two bytes it looks at, `readFile` gets
  the entry of the cluster, whatever shares a byte with it. `NothingLeaked`:
  on each path the buffers made are the ones freed; the invariant says which
  there are before each step, since `main` frees a list of its own at each exit.
  `RightBytes` and `FilesFound` are about what it reads, for any numbers in the
  boot sector and any place where the image ends. Their premise is
  `WellFormed(v)` for each volume (TLC evaluates it in `MCFat12`): chains as
  long as the sizes need, no cluster used twice, no empty file (section 6 has
  that one). `FileInv` says that in every turn of the loop there is one wanted
  file and one place in its chain at which `cluster` is, and that the buffer
  holds the clusters before that place (`InChain`); without the place, the
  cluster number would not say what is still to come. `FatFact` takes
  `TwelveBits` to the table as it was read, `DataFact` says which bytes a
  cluster's sectors are, and `RootFact` which entry is found. `BufferHolds`,
  the part of `Returns` that is safety (`InBuffer`), adds two premises, one
  sector to a cluster and `Minimal(v)`, that no chain is longer than its file
  needs: whole clusters then fit into the file's size and a sector. `FatClusters` has two sectors to a cluster and overruns.
- `KernelHeapProofs`. First the array by itself, for any items, keys and
  capacity. `LoopsKeepPromise`: the loops implement `SortedArray`. `Contents`
  says what the array would be if the call in progress were over, with `tmp` in
  the gap that the iterator has reached; each turn of a loop leaves it as it is.
  `StaysSorted` follows, for keys that stay: what is put in front of the first
  item that is not less leaves the array sorted (`OrderKept`).
  Then the heap, for any page size, bounds and programs, under one premise:
  `Served(p)` for each program. It asks for no aligned block, and either frees
  its blocks newest first (or never) and stays within `HEAP_MIN_SIZE` with room
  for two more tags, or never frees and asks for odd sizes, none so large that a
  heap at `max_address` would have to grow beyond 2^32. Other programs meet
  the defects of section 6, and for them the theorems are false; `MCKernelHeap`
  assumes `GoodServed`, so that TLC evaluates the premise for the programs of
  `HeapCalls`. No property of section 4 is inductive: that the tiles
  fit says nothing of the footer a hole lacks, or of a stale tag that the next
  `free` may take for a header. `IInv` adds the order: the blocks lie one behind
  the other as they were asked for, each with header and footer (`BlockInv`),
  what is left behind the last is one hole with its header, or nothing
  (`HoleInv`), and the blocks of a program that frees keep below `HEAP_MIN_SIZE`,
  so that the heap is never expanded and at most shrinks to that size, while one
  that grows does so by whole pages (`PlaceInv`). Every page below the end has its frame
  (`HeapMapped`), so no write of a tag faults. There is a lemma for each part of `free`
  (`MarkedFact`, `DroppedFact`, `Unified`, `ContractFact`) and one for what a
  write to memory leaves alone (`PutFact`, `EraseFact`, `ResizeFact`). From
  `HeapInvariant` follow `HeapTypes`, `HeapTiled`, `HeapFooters`,
  `HeapCoalesced`, `HeapAllMapped` and `HeapNeverHalts`; `HeapAllocates` maps
  each step to a step of `Allocator` or a stutter.
- `InterruptsProofs`, for any lines, stubs, frequencies and exceptions.
  `GateRoundTrip` and `SegmentRoundTrip`: the processor finds in a gate and in a
  segment what was put there, by splitting numbers into bytes; `GdtFlat`, that
  the four segments are all of memory; `DivisorSent`, that the two bytes sent
  are the divisor if it fits in 16 bits. `IInv` says how far the writes of
  `init_idt` have brought the controllers, that at most one interrupt is on the
  stack and with which words at each step, what the controllers have in service
  then, that the stub is that of the line or exception being served, and whether
  a tick is due. It gives `OneServed`, `ServedRight`, `EoisMatch` and
  `TicksCounted`.
- `AfsProofs`, for any files of any length, command lines of any number of
  files, and edits. `TableNeverOverrun`: 64 headers are enough for whatever argc
  says. `OffsetsAreRight`: the invariant says of each header where its file will
  lie, as a sum that grows in both loops alike, since the second takes its
  lengths from the first, and that is right modulo 2^32, so right for an image
  whose offsets an unsigned int holds (`Addressable`). From 64 files on it
  speaks of the files that the count says.
  `ListingIsRight`, for any part of the read: `DiskInv` says that while `main`
  runs the drive is the finished image and what it has listed are that image's
  files (`Shows`). `NextFile` gives the header of the next one and what the
  image holds of it, from the writer's invariant; `FirstTwo`, that the two
  sums, the writer's offset and main's, agree for the first two files; and
  `TextPrefix`, that an array that begins with another is shown as a text that
  begins with the other's.

Only model-checked: all liveness (`Returns`, `Terminates`, `BootEnds`,
`Answered`), which is beyond the prover, and that `Decimal` and `Hex` give the
right digits (the first is recursive over its argument, which takes
induction over data). Every other property of a passing run is proved, the
heap's, FAT12's and two of the driver's under the premises above.

## 8. What is not modelled, and what is left

Not modelled, with the reason:

- `fs.c` forwards each call to a function pointer of the node it is given, and
  no node with such pointers is ever made: `initialise_disk` of `vfs.c` has an
  empty body. `disk_read` there has a check (`offset+size`) that wraps at 2^32.
- `fat.c` says that it is unfinished: all it has is a `readSectors`, which hands
  on one sector of what `ide_read_sectors` put into a buffer of one, and returns
  true whatever came of it. Nothing calls it. (`Fat12` is the host's tool.)
- `common.c`: memory and strings. `strcpy` and `strcat` leave out the
  terminating byte; their callers in `vfs.c` write it themselves.
- `viewinitrd.c` prints headers and the nine sectors that follow the first, which
  end before the data area begins; it keeps no state.
- `boot.s`, `link.ld`, the multiboot header and the demonstration program: no
  state of their own. (`boot.s` sets `esp` in front of the label `loader` at which
  it is entered, so the kernel runs on the boot loader's stack.)
- Of the interrupts: non-maskable ones, machine checks and vector 17, which come
  at places where the kernel cannot be interrupted otherwise; the output of
  `timer_callback`, which would re-enter `monitor_put` in the middle of a
  character; frequencies below 19, whose divisor does not fit
  (`timer.c:22` says so).
- Of images: one that was left half-written when its writer crashed, attached to
  the kernel anyway; what a header that was not read makes `main` do beyond one
  line of anything or an overrun.

Left for later, most important first:

1. Composition of `KernelHeap` and `Paging`: `expand` calls `get_page`, which
   calls `kmalloc_ap` and `alloc` again when a page table is missing
   (`kheap.c:86`), past the first 4 MB of heap. Frames and tags in one state.
2. The heap for programs that free in any order. With the defects of section 6
   it has no invariant to prove; a heap in which they are repaired would need
   one over a sequence of holes instead of the one that `HoleInv` has.
