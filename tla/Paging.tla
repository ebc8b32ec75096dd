------------------------------- MODULE Paging -------------------------------
(***************************************************************************)
(* paging.c: setting up the kernel's page directory before there is a      *)
(* heap, and giving frames to the heap's pages and taking them back.       *)
(*                                                                         *)
(* initialise_paging runs once, from pc = "reserve" to "running"; a round  *)
(* of one of its loops is a step.  The memory it takes for itself comes    *)
(* from placement_address (kmalloc_int without a heap).  Then expand and   *)
(* contract of kheap.c ask for frames, one page at a time.                 *)
(***************************************************************************)
EXTENDS Integers

CONSTANTS
  PAGE,        \* 0x1000
  PER_TABLE,   \* pages of a page table: 1024
  TABLES,      \* page tables of a directory: 1024
  NFRAMES,     \* nframes
  FRAME_MAX,   \* the largest number in the 20 bits of page->frame: 0xFFFFF
  END,         \* &end, the first placement_address
  DIRECTORY,   \* sizeof(page_directory_t)
  HEAP_T,      \* sizeof(heap_t)
  KHEAP,       \* KHEAP_START, as a page number
  INITIAL,     \* KHEAP_INITIAL_SIZE, in pages
  LOWEST,      \* how far the heap's end may go down and up, as page numbers
  HIGHEST,
  Leftovers,   \* what the bitmap's memory may hold where it is not cleared
  Fallen       \* what first_frame may leave in EAX when it returns without a value

Frames == 0..(NFRAMES - 1)
FrameNumbers == 0..FRAME_MAX
VPages == 0..(PER_TABLE * TABLES - 1)

\* kmalloc gives the bitmap INDEX_FROM_BIT(nframes) bytes and memset clears
\* that many, which is the number of its words.
BitmapBytes == NFRAMES \div 32
Cleared == 8 * BitmapBytes

ASSUME PagingAssumption ==
  /\ PAGE \in Nat \ {0} /\ PER_TABLE \in Nat \ {0} /\ TABLES \in Nat \ {0}
  /\ NFRAMES \in Nat \ {0} /\ NFRAMES % 32 = 0 /\ NFRAMES <= PAGE
  /\ FRAME_MAX \in Nat /\ NFRAMES <= FRAME_MAX + 1 /\ Fallen \subseteq FrameNumbers
  /\ END \in Nat /\ END >= PAGE /\ DIRECTORY \in Nat /\ HEAP_T \in 0..PAGE
  /\ KHEAP \in VPages /\ INITIAL \in Nat /\ Cleared <= KHEAP
  /\ LOWEST \in KHEAP..(KHEAP + INITIAL) /\ HIGHEST \in VPages /\ KHEAP + INITIAL <= HIGHEST
  /\ \A u \in Leftovers : u \subseteq Frames /\ u \cap (0..(Cleared - 1)) = {}

VARIABLES
  pc,          \* where initialise_paging is
  n,           \* its loop index, as a page number
  placement,   \* placement_address
  tables,      \* [table -> its address, or 0 where there is none]
  map,         \* [page -> [present, frame]]
  used,        \* the bits set in frames
  lowEnd,      \* the page where the identity mapping ended
  heapEnd,     \* the heap's end_address, as a page number
  past         \* what has happened: a subset of {"full", "freed"}

vars == <<pc, n, placement, tables, map, used, lowEnd, heapEnd, past>>

Init ==
  /\ pc = "reserve" /\ n = 0
  /\ placement = END
  /\ tables = [t \in 0..(TABLES - 1) |-> 0]
  /\ map = [p \in VPages |-> [present |-> FALSE, frame |-> 0]]
  /\ used \in Leftovers
  /\ lowEnd = 0 /\ heapEnd = KHEAP /\ past = {}

----------------------------------------------------------------------------
(* kmalloc_int while there is no heap, get_page. *)

\* An aligned request goes to the page after the one placement_address is in.
\* Mutant: to placement_address.
AlignedNot(a) == a
Aligned(a) == IF a \div PAGE # 0 THEN (a \div PAGE) * PAGE + PAGE ELSE a

\* get_page(p, 1): the table is made if it is not there.
GetPage(p) ==
  IF tables[p \div PER_TABLE] # 0
  THEN UNCHANGED <<tables, placement>>
  ELSE /\ tables' = [tables EXCEPT ![p \div PER_TABLE] = Aligned(placement)]
       /\ placement' = Aligned(placement) + PAGE

----------------------------------------------------------------------------
(* alloc_frame, free_frame. *)

\* What first_frame may return.  With every bit set it returns without a
\* value.
FirstFrame ==
  IF Frames \subseteq used THEN Fallen
  ELSE {f \in Frames : f \notin used /\ \A g \in 0..(f - 1) : g \in used}

\* Mutant: the bit is not set.
AllocFrameUnset(p) ==
  /\ \E f \in FirstFrame : map' = [map EXCEPT ![p] = [present |-> TRUE, frame |-> f]]
  /\ UNCHANGED <<used, past>>
AllocFrame(p) ==
  IF map[p].frame # 0 THEN UNCHANGED <<map, used, past>>
  ELSE /\ \E f \in FirstFrame :
            /\ used' = used \cup ({f} \cap Frames)
            /\ map' = [map EXCEPT ![p] = [present |-> TRUE, frame |-> f]]
       /\ past' = IF Frames \subseteq used THEN past \cup {"full"} ELSE past

\* clear_frame takes an address and is given a frame number.
FreeFrame(p) ==
  IF map[p].frame = 0 THEN UNCHANGED <<map, used, past>>
  ELSE /\ used' = used \ {map[p].frame \div PAGE}
       /\ map' = [map EXCEPT ![p].frame = 0]
       /\ past' = past \cup {"freed"}

----------------------------------------------------------------------------
(* initialise_paging. *)

\* The bitmap and the page directory.
Reserve ==
  /\ pc = "reserve"
  /\ placement' = Aligned(placement + BitmapBytes) + DIRECTORY
  /\ pc' = "tables" /\ n' = KHEAP
  /\ UNCHANGED <<tables, map, used, lowEnd, heapEnd, past>>

\* The page tables of the heap's first pages.
HeapTables ==
  /\ pc = "tables"
  /\ IF n < KHEAP + INITIAL
     THEN GetPage(n) /\ n' = n + 1 /\ pc' = pc
     ELSE n' = 0 /\ pc' = "identity" /\ UNCHANGED <<tables, placement>>
  /\ UNCHANGED <<map, used, lowEnd, heapEnd, past>>

\* The identity mapping, up to a page beyond a placement_address that moves as
\* tables are made.  Mutant: up to placement_address.
MoreIdentityShort == n * PAGE < placement
MoreIdentity == n * PAGE < placement + PAGE

\* Mutant: the index is not advanced.
NextPageSame == n
NextPage == n + 1

IdentityPage ==
  /\ pc = "identity" /\ MoreIdentity
  /\ n \in VPages
  /\ GetPage(n) /\ AllocFrame(n)
  /\ n' = NextPage
  /\ UNCHANGED <<pc, lowEnd, heapEnd>>

IdentityDone ==
  /\ pc = "identity" /\ ~MoreIdentity
  /\ lowEnd' = n
  /\ n' = KHEAP /\ pc' = "frames"
  /\ UNCHANGED <<placement, tables, map, used, heapEnd, past>>

\* The frames of the heap's first pages; then paging is on and create_heap
\* takes its heap_t, still from placement_address.
HeapFrame ==
  /\ pc = "frames" /\ n < KHEAP + INITIAL
  /\ GetPage(n) /\ AllocFrame(n)
  /\ n' = n + 1
  /\ UNCHANGED <<pc, lowEnd, heapEnd>>

Enable ==
  /\ pc = "frames" /\ n >= KHEAP + INITIAL
  /\ pc' = "running"
  /\ placement' = placement + HEAP_T
  /\ heapEnd' = KHEAP + INITIAL
  /\ UNCHANGED <<n, tables, map, used, lowEnd, past>>

Boot == Reserve \/ HeapTables \/ IdentityPage \/ IdentityDone \/ HeapFrame \/ Enable

----------------------------------------------------------------------------
(* With the heap. *)

\* expand and contract, a page at a time.
Grow ==
  /\ pc = "running" /\ heapEnd < HIGHEST
  /\ tables[heapEnd \div PER_TABLE] # 0
  /\ AllocFrame(heapEnd)
  /\ heapEnd' = heapEnd + 1
  /\ UNCHANGED <<pc, n, placement, tables, lowEnd>>

Shrink ==
  /\ pc = "running" /\ heapEnd > LOWEST
  /\ FreeFrame(heapEnd - 1)
  /\ heapEnd' = heapEnd - 1
  /\ UNCHANGED <<pc, n, placement, tables, lowEnd>>

\* What kmalloc_int answers as the physical address of a block of the heap.
\* "+" binds more tightly than "&", so the mask takes all of the sum.
Phys(p, offset) == (map[p].frame * PAGE + p * PAGE + offset) % PAGE

Next ==
  \/ Boot
  \/ Grow \/ Shrink

Spec == Init /\ [][Next]_vars
FairSpec == Spec /\ WF_vars(Boot)

----------------------------------------------------------------------------
(* Properties. *)

\* Every variable holds what its C variable can, and the page tables lie on
\* page boundaries, as the processor wants them.
TypeOK ==
  /\ pc \in {"reserve", "tables", "identity", "frames", "running"}
  /\ n \in Nat /\ placement \in Nat
  /\ tables \in [0..(TABLES - 1) -> Nat] /\ \A t \in 0..(TABLES - 1) : tables[t] % PAGE = 0
  /\ map \in [VPages -> [present: BOOLEAN, frame: FrameNumbers]]
  /\ used \subseteq Frames
  /\ lowEnd \in Nat
  /\ heapEnd \in KHEAP..HIGHEST
  /\ past \subseteq {"full", "freed"}

\* The pages in use: the identity mapping, as far as it has come, and the heap.
InUse ==
  {p \in VPages :
     \/ pc = "identity" /\ p < n
     \/ pc \in {"frames", "running"} /\ p < lowEnd
     \/ pc = "frames" /\ KHEAP <= p /\ p < n
     \/ pc = "running" /\ KHEAP <= p /\ p < heapEnd}

FramesDistinct ==
  \A p, q \in InUse : p # q => map[p].frame # map[q].frame

\* As long as no frame was freed and first_frame found one each time, the
\* pages in use are present, each on a frame of its own, although page 0 on
\* frame 0 looks to alloc_frame like a page that has none.
OwnFrames ==
  past = {} => FramesDistinct /\ \A p \in InUse : map[p].present

MappedToItself ==
  \A p \in VPages : p * PAGE < placement => map[p].present /\ map[p].frame = p

\* Once the identity mapping is made, everything that was taken from
\* placement_address before and after it, the page tables and the heap_t too,
\* is found at its own address.  The kernel must end where the bitmap is
\* cleared.
IdentityMapped ==
  pc \in {"frames", "running"} /\ lowEnd <= Cleared => MappedToItself

\* What the comment "identity map ... from 0x0 to the end of used memory" says,
\* wherever that end is.
UsedIsMapped ==
  pc \in {"frames", "running"} => MappedToItself

\* initialise_paging ends, though the end of its identity mapping runs ahead of
\* it with each table it makes.
BootEnds == <>(pc = "running")

\* What the comment "Function to deallocate a frame" says: after it frames
\* serve one page at a time.
FreeIsSafe == "full" \notin past => FramesDistinct

\* What the comment "PANIC! no free frames!!" says: nobody goes on with a frame
\* that is in use.
FullIsSafe == "freed" \notin past => FramesDistinct

\* "the physical location of the allocated chunk will be stored into phys".
PhysIsRight ==
  pc = "running" /\ past = {} =>
    \A p \in KHEAP..(heapEnd - 1), offset \in 0..(PAGE - 1) :
      Phys(p, offset) = map[p].frame * PAGE + offset
=============================================================================
