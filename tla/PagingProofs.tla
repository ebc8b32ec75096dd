---------------------------- MODULE PagingProofs ----------------------------
(***************************************************************************)
(* Proofs about Paging, for every size of memory, of pages and of tables:  *)
(* until a frame is freed or there is none left, pages in use have frames  *)
(* of their own; and the identity mapping is one.                          *)
(***************************************************************************)
EXTENDS Paging, TLAPS

----------------------------------------------------------------------------
(* Arithmetic. *)

\* A page number falls into a table of the directory.
LEMMA TableFact ==
  ASSUME NEW k \in Nat \ {0}, NEW t \in Nat \ {0}, NEW p \in 0..(k * t - 1)
  PROVE  p \div k \in 0..(t - 1)
  OBVIOUS

\* Addresses grow with page numbers.
LEMMA AddressFact ==
  ASSUME NEW a \in Nat, NEW b \in Nat, NEW c \in Nat, a <= b
  PROVE  a * c <= b * c
  OBVIOUS

\* An aligned placement is a page boundary and not below what it aligns.
LEMMA AlignedFact ==
  ASSUME NEW a \in Nat, a >= PAGE
  PROVE  /\ Aligned(a) \in Nat /\ Aligned(a) >= a
         /\ Aligned(a) % PAGE = 0
<1>1. PAGE \in Nat \ {0}
  BY PagingAssumption
<1>2. /\ a \div PAGE \in Nat
      /\ a < (a \div PAGE) * PAGE + PAGE
  BY <1>1
<1>3. a \div PAGE # 0
  BY <1>1, <1>2
<1>4. Aligned(a) = (a \div PAGE) * PAGE + PAGE
  BY <1>3 DEF Aligned
<1>5. ((a \div PAGE) * PAGE + PAGE) % PAGE = 0
  <2>. DEFINE k == a \div PAGE
  <2>1. k \in Nat
    BY <1>2
  <2>. HIDE DEF k
  <2>. QED
    BY <1>1, <2>1 DEF k
<1>. QED
  BY <1>1, <1>2, <1>4, <1>5

----------------------------------------------------------------------------
(* The invariant. *)

\* The loop index stays within the loop.
RangeInv ==
  /\ placement >= PAGE
  /\ pc \in {"reserve", "tables"} => heapEnd = KHEAP
  /\ pc = "tables" => n \in KHEAP..(KHEAP + INITIAL)
  /\ pc = "identity" => n \in 0..(PER_TABLE * TABLES)
  /\ pc = "frames" => n \in KHEAP..(KHEAP + INITIAL)

\* Until something went wrong: a page in use is present and its frame's bit is
\* set, no two share a frame, and a page that is not in use has none.
FrameInv ==
  past = {} =>
    /\ \A p \in InUse : map[p].present /\ map[p].frame \in used
    /\ \A p, q \in InUse : p # q => map[p].frame # map[q].frame
    /\ \A p \in VPages \ InUse : map[p].frame = 0

\* The page tables of the heap's first pages are there.
TablesInv ==
  /\ pc = "tables" => \A p \in KHEAP..(n - 1) : tables[p \div PER_TABLE] # 0
  /\ pc \in {"identity", "frames", "running"} =>
       \A p \in KHEAP..(KHEAP + INITIAL - 1) : tables[p \div PER_TABLE] # 0

\* While the identity mapping stays below the cleared bits, the bits set are
\* those of the frames below n, which are mapped to themselves.
IdentityInv ==
  /\ pc \in {"reserve", "tables"} => past = {} /\ used \cap (0..(Cleared - 1)) = {}
  /\ (pc = "identity" /\ n <= Cleared) =>
       /\ past = {}
       /\ \A f \in 0..(Cleared - 1) : f \in used <=> f < n
       /\ \A p \in 0..(n - 1) : map[p].present /\ map[p].frame = p
  /\ (pc \in {"frames", "running"} /\ lowEnd <= Cleared) =>
       /\ \A p \in 0..(lowEnd - 1) : map[p].present /\ map[p].frame = p
       /\ pc = "frames" => placement + PAGE <= lowEnd * PAGE
       /\ pc = "running" => placement <= lowEnd * PAGE

IInv == TypeOK /\ RangeInv /\ FrameInv /\ TablesInv /\ IdentityInv

\* What the provers need to know of the constants.
LEMMA ConstantFact ==
  /\ PAGE \in Nat \ {0} /\ 0 % PAGE = 0
  /\ PER_TABLE * TABLES \in Nat
  /\ KHEAP \in Nat /\ HIGHEST \in Nat /\ INITIAL \in Nat /\ KHEAP + INITIAL <= HIGHEST
  /\ HIGHEST < PER_TABLE * TABLES
  /\ \A p \in VPages : p \in Nat /\ p \div PER_TABLE \in 0..(TABLES - 1)
  /\ \A p \in 0..HIGHEST : p \in VPages
  /\ Cleared \in Nat /\ Cleared <= KHEAP /\ 0..(Cleared - 1) \subseteq Frames
  /\ Frames \subseteq FrameNumbers /\ Fallen \subseteq FrameNumbers
  /\ LOWEST \in Nat /\ KHEAP <= LOWEST /\ 0 \in FrameNumbers
<1>1. PER_TABLE \in Nat \ {0} /\ TABLES \in Nat \ {0} /\ PAGE \in Nat \ {0} /\ INITIAL \in Nat
  BY PagingAssumption
<1>2. PER_TABLE * TABLES \in Nat /\ 0 % PAGE = 0
  BY <1>1
<1>3. KHEAP \in Nat /\ HIGHEST \in Nat /\ HIGHEST < PER_TABLE * TABLES
  BY <1>2, PagingAssumption DEF VPages
<1>4. \A p \in VPages : p \in Nat /\ p \div PER_TABLE \in 0..(TABLES - 1)
  <2>. SUFFICES ASSUME NEW p \in VPages PROVE p \in Nat /\ p \div PER_TABLE \in 0..(TABLES - 1)
    OBVIOUS
  <2>1. p \in 0..(PER_TABLE * TABLES - 1)
    BY DEF VPages
  <2>2. p \div PER_TABLE \in 0..(TABLES - 1)
    BY <1>1, <2>1, TableFact
  <2>. QED
    BY <1>2, <2>1, <2>2
<1>5. \A p \in 0..HIGHEST : p \in VPages
  BY <1>2, <1>3 DEF VPages
<1>6. NFRAMES \in Nat /\ FRAME_MAX \in Nat /\ NFRAMES <= FRAME_MAX + 1 /\ Cleared <= KHEAP /\ Fallen \subseteq FrameNumbers
  BY PagingAssumption
<1>7. Cleared \in Nat /\ Cleared <= NFRAMES
  BY <1>6 DEF Cleared, BitmapBytes
<1>8. 0..(Cleared - 1) \subseteq Frames /\ Frames \subseteq FrameNumbers
  <2>1. 0..(Cleared - 1) \subseteq Frames
    BY <1>6, <1>7 DEF Frames
  <2>2. Frames \subseteq FrameNumbers
    BY <1>6 DEF Frames, FrameNumbers
  <2>. QED
    BY <2>1, <2>2
<1>9. LOWEST \in Nat /\ KHEAP <= LOWEST /\ KHEAP + INITIAL <= HIGHEST
  BY <1>1, <1>3, PagingAssumption
<1>10. 0 \in FrameNumbers
  BY <1>6 DEF FrameNumbers
<1>. QED
  BY <1>1, <1>2, <1>3, <1>4, <1>5, <1>6, <1>7, <1>8, <1>9, <1>10

LEMMA InitInv == Init => IInv
<1>1. SUFFICES ASSUME Init PROVE IInv
  OBVIOUS
<1>2. TypeOK
  <2>1. placement \in Nat /\ used \subseteq Frames
    BY <1>1, PagingAssumption DEF Init
  <2>2. heapEnd \in KHEAP..HIGHEST
    BY <1>1, ConstantFact DEF Init
  <2>3. \A t \in 0..(TABLES - 1) : tables[t] % PAGE = 0
    BY <1>1, ConstantFact DEF Init
  <2>4. map \in [VPages -> [present: BOOLEAN, frame: FrameNumbers]]
    BY <1>1, ConstantFact DEF Init
  <2>. QED
    BY <1>1, <2>1, <2>2, <2>3, <2>4 DEF Init, TypeOK
<1>3. InUse = {}
  BY <1>1 DEF Init, InUse
<1>4. FrameInv
  BY <1>1, <1>3 DEF Init, FrameInv
<1>5. RangeInv
  BY <1>1, PagingAssumption DEF Init, RangeInv
<1>6. TablesInv /\ IdentityInv
  BY <1>1, PagingAssumption DEF Init, TablesInv, IdentityInv
<1>. QED
  BY <1>2, <1>4, <1>5, <1>6 DEF IInv

----------------------------------------------------------------------------
(* get_page and alloc_frame. *)

\* get_page makes the table of its page at most, on a page boundary, and
\* placement_address only grows.
LEMMA GetPageFact ==
  ASSUME TypeOK, placement >= PAGE, NEW p \in VPages, GetPage(p)
  PROVE  /\ tables' \in [0..(TABLES - 1) -> Nat]
         /\ \A t \in 0..(TABLES - 1) : tables'[t] % PAGE = 0
         /\ placement' \in Nat /\ placement' >= placement
         /\ tables'[p \div PER_TABLE] # 0
         /\ \A t \in 0..(TABLES - 1) : tables[t] # 0 => tables'[t] # 0
<1>. DEFINE t0 == p \div PER_TABLE
            new == Aligned(placement)
<1>1. t0 \in 0..(TABLES - 1) /\ PAGE \in Nat \ {0}
  BY ConstantFact
<1>2. new \in Nat /\ new >= placement /\ new % PAGE = 0
  BY AlignedFact DEF TypeOK
<1>3. CASE tables[t0] # 0
  BY <1>1, <1>3 DEF GetPage, TypeOK
<1>4. CASE tables[t0] = 0
  <2>1. tables' = [tables EXCEPT ![t0] = new] /\ placement' = new + PAGE
    BY <1>4 DEF GetPage
  <2>. HIDE DEF t0, new
  <2>2. new # 0
    BY <1>1, <1>2 DEF TypeOK
  <2>3. tables' \in [0..(TABLES - 1) -> Nat] /\ tables'[t0] = new
    BY <1>1, <1>2, <2>1 DEF TypeOK
  <2>4. \A t \in 0..(TABLES - 1) : t # t0 => tables'[t] = tables[t]
    BY <1>1, <2>1 DEF TypeOK
  <2>5. \A t \in 0..(TABLES - 1) : tables'[t] % PAGE = 0
    BY <1>2, <2>3, <2>4 DEF TypeOK
  <2>6. placement' \in Nat /\ placement' >= placement
    BY <1>1, <1>2, <2>1 DEF TypeOK
  <2>. QED
    BY <2>2, <2>3, <2>4, <2>5, <2>6 DEF t0
<1>. QED
  BY <1>3, <1>4

\* alloc_frame keeps the types.
LEMMA AllocType ==
  ASSUME TypeOK, NEW p \in VPages, AllocFrame(p)
  PROVE  /\ map' \in [VPages -> [present: BOOLEAN, frame: FrameNumbers]]
         /\ used' \subseteq Frames
         /\ past' \subseteq {"full", "freed"} /\ past \subseteq past'
<1>1. CASE map[p].frame # 0
  BY <1>1 DEF AllocFrame, TypeOK
<1>2. CASE map[p].frame = 0
  <2>1. PICK f \in FirstFrame : used' = used \cup ({f} \cap Frames)
                             /\ map' = [map EXCEPT ![p] = [present |-> TRUE, frame |-> f]]
    BY <1>2 DEF AllocFrame
  <2>2. f \in FrameNumbers
    BY ConstantFact DEF FirstFrame
  <2>3. map' \in [VPages -> [present: BOOLEAN, frame: FrameNumbers]]
    BY <2>1, <2>2 DEF TypeOK
  <2>4. past' = past \/ past' = past \cup {"full"}
    BY <1>2 DEF AllocFrame
  <2>. QED
    BY <2>1, <2>3, <2>4 DEF TypeOK
<1>. QED
  BY <1>1, <1>2

\* Until something went wrong alloc_frame leaves a page that has a frame alone
\* and gives another one the first frame whose bit is clear.
LEMMA AllocFact ==
  ASSUME TypeOK, NEW p \in VPages, AllocFrame(p), past' = {}
  PROVE  /\ past = {}
         /\ \/ map[p].frame # 0 /\ map' = map /\ used' = used
            \/ \E f \in Frames :
                 /\ map[p].frame = 0
                 /\ f \notin used /\ \A g \in 0..(f - 1) : g \in used
                 /\ used' = used \cup {f}
                 /\ map' = [map EXCEPT ![p] = [present |-> TRUE, frame |-> f]]
<1>1. CASE map[p].frame # 0
  BY <1>1 DEF AllocFrame
<1>2. CASE map[p].frame = 0
  <2>1. past = {} /\ ~(Frames \subseteq used)
    BY <1>2 DEF AllocFrame
  <2>2. PICK f \in FirstFrame : used' = used \cup ({f} \cap Frames)
                             /\ map' = [map EXCEPT ![p] = [present |-> TRUE, frame |-> f]]
    BY <1>2 DEF AllocFrame
  <2>3. f \in Frames /\ f \notin used /\ \A g \in 0..(f - 1) : g \in used
    BY <2>1, <2>2 DEF FirstFrame
  <2>4. used' = used \cup {f}
    BY <2>2, <2>3
  <2>. QED
    BY <1>2, <2>1, <2>2, <2>3, <2>4
<1>. QED
  BY <1>1, <1>2

\* A page that alloc_frame was called for joins the pages in use.
LEMMA AllocFrames ==
  ASSUME TypeOK, FrameInv, NEW p \in VPages, AllocFrame(p), InUse' = InUse \cup {p}
  PROVE  FrameInv'
<1>. SUFFICES ASSUME past' = {}
              PROVE  /\ \A q \in InUse' : map'[q].present /\ map'[q].frame \in used'
                     /\ \A q, r \in InUse' : q # r => map'[q].frame # map'[r].frame
                     /\ \A q \in VPages \ InUse' : map'[q].frame = 0
  BY DEF FrameInv
<1>1. past = {}
  BY AllocFact
<1>2. /\ \A q \in InUse : map[q].present /\ map[q].frame \in used
      /\ \A q, r \in InUse : q # r => map[q].frame # map[r].frame
      /\ \A q \in VPages \ InUse : map[q].frame = 0
  BY <1>1 DEF FrameInv
<1>3. CASE map[p].frame # 0 /\ map' = map /\ used' = used
  BY <1>2, <1>3
<1>4. CASE \E f \in Frames :
             /\ map[p].frame = 0
             /\ f \notin used /\ \A g \in 0..(f - 1) : g \in used
             /\ used' = used \cup {f}
             /\ map' = [map EXCEPT ![p] = [present |-> TRUE, frame |-> f]]
  <2>1. PICK f \in Frames : /\ f \notin used
                           /\ used' = used \cup {f}
                           /\ map' = [map EXCEPT ![p] = [present |-> TRUE, frame |-> f]]
    BY <1>4
  <2>2. map'[p] = [present |-> TRUE, frame |-> f]
    BY <2>1 DEF TypeOK
  <2>3. \A q \in VPages : q # p => map'[q] = map[q]
    BY <2>1 DEF TypeOK
  <2>4. InUse \subseteq VPages
    BY DEF InUse
  <2>5. \A q \in InUse' : map'[q].present /\ map'[q].frame \in used'
    BY <1>2, <2>1, <2>2, <2>3, <2>4
  <2>6. \A q, r \in InUse' : q # r => map'[q].frame # map'[r].frame
    BY <1>2, <2>1, <2>2, <2>3, <2>4
  <2>7. \A q \in VPages \ InUse' : map'[q].frame = 0
    BY <1>2, <2>3, <2>4
  <2>. QED
    BY <2>5, <2>6, <2>7
<1>. QED
  BY <1>3, <1>4, AllocFact

\* alloc_frame and free_frame write the entry of their own page only.
LEMMA OtherPages ==
  ASSUME TypeOK, NEW p \in VPages, AllocFrame(p) \/ FreeFrame(p)
  PROVE  \A q \in VPages : q # p => map'[q] = map[q]
<1>1. CASE AllocFrame(p)
  BY <1>1 DEF AllocFrame, TypeOK
<1>2. CASE FreeFrame(p)
  BY <1>2 DEF FreeFrame, TypeOK
<1>. QED
  BY <1>1, <1>2

----------------------------------------------------------------------------
(* One lemma per action. *)

LEMMA ReserveInv == IInv /\ Reserve => IInv'
<1>1. SUFFICES ASSUME IInv, Reserve PROVE IInv'
  OBVIOUS
<1>2. TypeOK /\ RangeInv /\ FrameInv /\ TablesInv /\ IdentityInv
  BY <1>1 DEF IInv
<1>3. /\ pc = "reserve" /\ pc' = "tables" /\ n' = KHEAP
      /\ placement' = Aligned(placement + BitmapBytes) + DIRECTORY
      /\ UNCHANGED <<tables, map, used, lowEnd, heapEnd, past>>
  BY <1>1 DEF Reserve
<1>4. placement' \in Nat /\ placement' >= PAGE
  <2>1. BitmapBytes \in Nat /\ DIRECTORY \in Nat
    BY PagingAssumption DEF BitmapBytes
  <2>2. placement + BitmapBytes \in Nat /\ placement + BitmapBytes >= PAGE
    BY <1>2, <2>1, ConstantFact DEF TypeOK, RangeInv
  <2>3. Aligned(placement + BitmapBytes) \in Nat /\ Aligned(placement + BitmapBytes) >= PAGE
    BY <2>2, AlignedFact, ConstantFact
  <2>. QED
    BY <1>3, <2>1, <2>3, ConstantFact
<1>5. TypeOK'
  BY <1>2, <1>3, <1>4, ConstantFact DEF TypeOK
<1>6. RangeInv'
  BY <1>2, <1>3, <1>4, ConstantFact DEF RangeInv
<1>7. InUse' = InUse
  BY <1>3 DEF InUse
<1>8. FrameInv'
  BY <1>2, <1>3, <1>7 DEF FrameInv
<1>9. TablesInv'
  BY <1>3, ConstantFact DEF TablesInv
<1>10. IdentityInv'
  BY <1>2, <1>3 DEF IdentityInv
<1>. QED
  BY <1>5, <1>6, <1>8, <1>9, <1>10 DEF IInv

LEMMA HeapTablesInv == IInv /\ HeapTables => IInv'
<1>1. SUFFICES ASSUME IInv, HeapTables PROVE IInv'
  OBVIOUS
<1>2. TypeOK /\ RangeInv /\ FrameInv /\ TablesInv /\ IdentityInv
  BY <1>1 DEF IInv
<1>3. pc = "tables" /\ UNCHANGED <<map, used, lowEnd, heapEnd, past>>
  BY <1>1 DEF HeapTables
<1>4. n \in KHEAP..(KHEAP + INITIAL)
  BY <1>2, <1>3 DEF RangeInv
<1>5. CASE n < KHEAP + INITIAL
  <2>1. GetPage(n) /\ n' = n + 1 /\ pc' = pc
    BY <1>1, <1>5 DEF HeapTables
  <2>2. n \in VPages
    BY <1>4, <1>5, ConstantFact
  <2>3. /\ tables' \in [0..(TABLES - 1) -> Nat]
        /\ \A t \in 0..(TABLES - 1) : tables'[t] % PAGE = 0
        /\ placement' \in Nat /\ placement' >= placement
        /\ tables'[n \div PER_TABLE] # 0
        /\ \A t \in 0..(TABLES - 1) : tables[t] # 0 => tables'[t] # 0
    BY <1>2, <2>1, <2>2, GetPageFact DEF RangeInv
  <2>4. TypeOK'
    BY <1>2, <1>3, <2>1, <2>3 DEF TypeOK
  <2>5. RangeInv'
    BY <1>2, <1>3, <1>4, <1>5, <2>1, <2>3, ConstantFact DEF RangeInv, TypeOK
  <2>6. InUse' = InUse
    BY <1>3, <2>1 DEF InUse
  <2>7. FrameInv'
    BY <1>2, <1>3, <2>6 DEF FrameInv
  <2>8. TablesInv'
    <3>1. SUFFICES ASSUME NEW p \in KHEAP..(n' - 1) PROVE tables'[p \div PER_TABLE] # 0
      BY <1>3, <2>1 DEF TablesInv
    <3>2. p \in VPages
      BY <1>4, <1>5, <2>1, ConstantFact
    <3>3. CASE p = n
      BY <2>3, <3>3
    <3>4. CASE p # n
      <4>1. tables[p \div PER_TABLE] # 0
        BY <1>2, <1>3, <1>4, <2>1, <3>4, ConstantFact DEF TablesInv
      <4>. QED
        BY <2>3, <3>2, <4>1, ConstantFact
    <3>. QED
      BY <3>3, <3>4
  <2>9. IdentityInv'
    BY <1>2, <1>3, <2>1 DEF IdentityInv
  <2>. QED
    BY <2>4, <2>5, <2>7, <2>8, <2>9 DEF IInv
<1>6. CASE ~(n < KHEAP + INITIAL)
  <2>1. n' = 0 /\ pc' = "identity" /\ UNCHANGED <<tables, placement>>
    BY <1>1, <1>6 DEF HeapTables
  <2>2. n = KHEAP + INITIAL
    BY <1>4, <1>6, ConstantFact
  <2>3. TypeOK'
    BY <1>2, <1>3, <2>1 DEF TypeOK
  <2>4. RangeInv'
    BY <1>2, <1>3, <2>1, ConstantFact DEF RangeInv
  <2>5. InUse = {} /\ InUse' = {}
    BY <1>3, <2>1, ConstantFact DEF InUse
  <2>6. FrameInv'
    BY <1>2, <1>3, <2>5 DEF FrameInv
  <2>7. TablesInv'
    <3>1. \A p \in KHEAP..(KHEAP + INITIAL - 1) : tables[p \div PER_TABLE] # 0
      <4>1. SUFFICES ASSUME NEW p \in KHEAP..(KHEAP + INITIAL - 1)
                     PROVE  tables[p \div PER_TABLE] # 0
        OBVIOUS
      <4>2. p \in KHEAP..(n - 1)
        BY <2>2, ConstantFact
      <4>. QED
        BY <1>2, <1>3, <4>2 DEF TablesInv
    <3>. QED
      BY <2>1, <3>1 DEF TablesInv
  <2>8. IdentityInv'
    BY <1>2, <1>3, <2>1, ConstantFact DEF IdentityInv
  <2>. QED
    BY <2>3, <2>4, <2>6, <2>7, <2>8 DEF IInv
<1>. QED
  BY <1>5, <1>6

LEMMA IdentityPageInv == IInv /\ IdentityPage => IInv'
<1>1. SUFFICES ASSUME IInv, IdentityPage PROVE IInv'
  OBVIOUS
<1>2. TypeOK /\ RangeInv /\ FrameInv /\ TablesInv /\ IdentityInv
  BY <1>1 DEF IInv
<1>3. /\ pc = "identity" /\ pc' = "identity" /\ n \in VPages
      /\ GetPage(n) /\ AllocFrame(n) /\ n' = n + 1
      /\ UNCHANGED <<lowEnd, heapEnd>>
  BY <1>1 DEF IdentityPage, NextPage
<1>4. /\ tables' \in [0..(TABLES - 1) -> Nat]
      /\ \A t \in 0..(TABLES - 1) : tables'[t] % PAGE = 0
      /\ placement' \in Nat /\ placement' >= placement
      /\ \A t \in 0..(TABLES - 1) : tables[t] # 0 => tables'[t] # 0
  BY <1>2, <1>3, GetPageFact DEF RangeInv
<1>5. n \in 0..(PER_TABLE * TABLES - 1)
  BY <1>3 DEF VPages
<1>6. TypeOK'
  <2>1. n' \in Nat
    BY <1>3, <1>5, ConstantFact
  <2>2. /\ map' \in [VPages -> [present: BOOLEAN, frame: FrameNumbers]]
        /\ used' \subseteq Frames /\ past' \subseteq {"full", "freed"}
    BY <1>2, <1>3, AllocType
  <2>. QED
    BY <1>2, <1>3, <1>4, <2>1, <2>2 DEF TypeOK
<1>7. RangeInv'
  BY <1>2, <1>3, <1>4, <1>5, ConstantFact DEF RangeInv, TypeOK
<1>8. InUse' = InUse \cup {n}
  <2>1. InUse = {p \in VPages : p < n}
    BY <1>3 DEF InUse
  <2>2. InUse' = {p \in VPages : p < n + 1}
    BY <1>3 DEF InUse
  <2>3. \A p \in VPages : p < n + 1 <=> p < n \/ p = n
    BY <1>5, ConstantFact
  <2>. QED
    BY <1>3, <2>1, <2>2, <2>3
<1>9. FrameInv'
  BY <1>2, <1>3, <1>8, AllocFrames
<1>10. TablesInv'
  <2>1. SUFFICES ASSUME NEW p \in KHEAP..(KHEAP + INITIAL - 1) PROVE tables'[p \div PER_TABLE] # 0
    BY <1>3 DEF TablesInv
  <2>2. p \in VPages
    BY ConstantFact
  <2>. QED
    BY <1>2, <1>3, <1>4, <2>2, ConstantFact DEF TablesInv
<1>11. IdentityInv'
  <2>1. SUFFICES ASSUME n' <= Cleared
                 PROVE  /\ past' = {}
                        /\ \A f \in 0..(Cleared - 1) : f \in used' <=> f < n'
                        /\ \A p \in 0..(n' - 1) : map'[p].present /\ map'[p].frame = p
    BY <1>3 DEF IdentityInv
  <2>2. n < Cleared /\ n \in 0..(Cleared - 1)
    BY <1>3, <1>5, <2>1, ConstantFact
  <2>3. /\ past = {}
        /\ \A f \in 0..(Cleared - 1) : f \in used <=> f < n
        /\ \A p \in 0..(n - 1) : map[p].present /\ map[p].frame = p
    BY <1>2, <1>3, <2>2, ConstantFact DEF IdentityInv, TypeOK
  <2>4. n \in Frames /\ n \notin used
    BY <2>2, <2>3, ConstantFact
  <2>5. map[n].frame = 0
    <3>1. n \notin InUse
      BY <1>3, <1>5 DEF InUse
    <3>. QED
      BY <1>2, <1>3, <2>3, <3>1 DEF FrameInv
  <2>6. past' = {}
    BY <1>3, <2>3, <2>4, <2>5 DEF AllocFrame
  <2>7. PICK f \in Frames :
          /\ f \notin used /\ \A g \in 0..(f - 1) : g \in used
          /\ used' = used \cup {f}
          /\ map' = [map EXCEPT ![n] = [present |-> TRUE, frame |-> f]]
    BY <1>2, <1>3, <2>5, <2>6, AllocFact
  <2>8. f = n
    <3>1. f \in Nat
      BY <2>7, PagingAssumption DEF Frames
    <3>2. ~(f < n)
      BY <2>2, <2>3, <2>7, <3>1, ConstantFact
    <3>3. ~(n < f)
      BY <2>4, <2>7, <1>5, <3>1, ConstantFact
    <3>. QED
      BY <1>5, <3>1, <3>2, <3>3, ConstantFact
  <2>9. \A g \in 0..(Cleared - 1) : g \in used' <=> g < n'
    BY <1>3, <2>2, <2>3, <2>7, <2>8, ConstantFact
  <2>10. \A p \in 0..(n' - 1) : map'[p].present /\ map'[p].frame = p
    <3>1. SUFFICES ASSUME NEW p \in 0..(n' - 1) PROVE map'[p].present /\ map'[p].frame = p
      OBVIOUS
    <3>2. p \in VPages
      BY <1>3, <1>5, ConstantFact DEF VPages
    <3>3. CASE p = n
      BY <1>2, <1>3, <2>7, <2>8, <3>3 DEF TypeOK
    <3>4. CASE p # n
      <4>1. p \in 0..(n - 1)
        BY <1>3, <1>5, <3>4, ConstantFact
      <4>2. map'[p] = map[p]
        BY <1>2, <2>7, <3>2, <3>4 DEF TypeOK
      <4>. QED
        BY <2>3, <4>1, <4>2
    <3>. QED
      BY <3>3, <3>4
  <2>. QED
    BY <2>6, <2>9, <2>10
<1>. QED
  BY <1>6, <1>7, <1>9, <1>10, <1>11 DEF IInv

LEMMA IdentityDoneInv == IInv /\ IdentityDone => IInv'
<1>1. SUFFICES ASSUME IInv, IdentityDone PROVE IInv'
  OBVIOUS
<1>2. TypeOK /\ RangeInv /\ FrameInv /\ TablesInv /\ IdentityInv
  BY <1>1 DEF IInv
<1>3. /\ pc = "identity" /\ ~(n * PAGE < placement + PAGE)
      /\ lowEnd' = n /\ n' = KHEAP /\ pc' = "frames"
      /\ UNCHANGED <<placement, tables, map, used, heapEnd, past>>
  BY <1>1 DEF IdentityDone, MoreIdentity
<1>4. n \in Nat
  BY <1>2 DEF TypeOK
<1>5. TypeOK'
  BY <1>2, <1>3, ConstantFact DEF TypeOK
<1>6. RangeInv'
  BY <1>2, <1>3, ConstantFact DEF RangeInv
<1>7. InUse' = InUse
  <2>1. InUse = {p \in VPages : p < n}
    BY <1>3 DEF InUse
  <2>2. InUse' = {p \in VPages : p < n \/ (KHEAP <= p /\ p < KHEAP)}
    BY <1>3 DEF InUse
  <2>3. \A p \in VPages : ~(KHEAP <= p /\ p < KHEAP)
    BY ConstantFact
  <2>. QED
    BY <2>1, <2>2, <2>3
<1>8. FrameInv'
  BY <1>2, <1>3, <1>7 DEF FrameInv
<1>9. TablesInv'
  BY <1>2, <1>3 DEF TablesInv
<1>10. IdentityInv'
  <2>1. placement + PAGE <= n * PAGE
    <3>1. n * PAGE \in Nat
      BY <1>4, ConstantFact
    <3>. QED
      BY <1>2, <1>3, <3>1, ConstantFact DEF TypeOK
  <2>2. n <= Cleared => \A p \in 0..(n - 1) : map[p].present /\ map[p].frame = p
    BY <1>2, <1>3 DEF IdentityInv
  <2>. QED
    BY <1>3, <2>1, <2>2 DEF IdentityInv
<1>. QED
  BY <1>5, <1>6, <1>8, <1>9, <1>10 DEF IInv

LEMMA HeapFrameInv == IInv /\ HeapFrame => IInv'
<1>1. SUFFICES ASSUME IInv, HeapFrame PROVE IInv'
  OBVIOUS
<1>2. TypeOK /\ RangeInv /\ FrameInv /\ TablesInv /\ IdentityInv
  BY <1>1 DEF IInv
<1>3. /\ pc = "frames" /\ pc' = "frames" /\ n < KHEAP + INITIAL
      /\ GetPage(n) /\ AllocFrame(n) /\ n' = n + 1
      /\ UNCHANGED <<lowEnd, heapEnd>>
  BY <1>1 DEF HeapFrame
<1>4. n \in KHEAP..(KHEAP + INITIAL - 1) /\ n \in VPages
  BY <1>2, <1>3, ConstantFact DEF RangeInv
<1>5. UNCHANGED <<tables, placement>>
  <2>1. tables[n \div PER_TABLE] # 0
    BY <1>2, <1>3, <1>4 DEF TablesInv
  <2>. QED
    BY <1>3, <2>1 DEF GetPage
<1>6. TypeOK'
  BY <1>2, <1>3, <1>4, <1>5, AllocType, ConstantFact DEF TypeOK
<1>7. RangeInv'
  BY <1>2, <1>3, <1>4, <1>5, ConstantFact DEF RangeInv
<1>8. InUse' = InUse \cup {n}
  <2>1. InUse = {p \in VPages : p < lowEnd \/ (KHEAP <= p /\ p < n)}
    BY <1>3 DEF InUse
  <2>2. InUse' = {p \in VPages : p < lowEnd \/ (KHEAP <= p /\ p < n + 1)}
    BY <1>3 DEF InUse
  <2>3. \A p \in VPages : (KHEAP <= p /\ p < n + 1) <=> (KHEAP <= p /\ p < n) \/ p = n
    BY <1>4, ConstantFact
  <2>. QED
    BY <1>4, <2>1, <2>2, <2>3
<1>9. FrameInv'
  BY <1>2, <1>3, <1>4, <1>8, AllocFrames
<1>10. TablesInv'
  BY <1>2, <1>3, <1>5 DEF TablesInv
<1>11. IdentityInv'
  <2>1. SUFFICES ASSUME lowEnd <= Cleared
                 PROVE  \A p \in 0..(lowEnd - 1) : map'[p].present /\ map'[p].frame = p
    BY <1>2, <1>3, <1>5 DEF IdentityInv
  <2>2. SUFFICES ASSUME NEW p \in 0..(lowEnd - 1) PROVE map'[p].present /\ map'[p].frame = p
    OBVIOUS
  <2>3. p # n /\ p \in VPages
    BY <1>2, <1>4, <2>1, ConstantFact DEF TypeOK
  <2>4. map'[p] = map[p]
    BY <1>2, <1>3, <1>4, <2>3, OtherPages
  <2>. QED
    BY <1>2, <1>3, <2>1, <2>4 DEF IdentityInv
<1>. QED
  BY <1>6, <1>7, <1>9, <1>10, <1>11 DEF IInv

LEMMA EnableInv == IInv /\ Enable => IInv'
<1>1. SUFFICES ASSUME IInv, Enable PROVE IInv'
  OBVIOUS
<1>2. TypeOK /\ RangeInv /\ FrameInv /\ TablesInv /\ IdentityInv
  BY <1>1 DEF IInv
<1>3. /\ pc = "frames" /\ n >= KHEAP + INITIAL /\ pc' = "running"
      /\ placement' = placement + HEAP_T /\ heapEnd' = KHEAP + INITIAL
      /\ UNCHANGED <<n, tables, map, used, lowEnd, past>>
  BY <1>1 DEF Enable
<1>4. n = KHEAP + INITIAL
  BY <1>2, <1>3, ConstantFact DEF RangeInv
<1>5. HEAP_T \in Nat /\ HEAP_T <= PAGE
  BY ConstantFact, PagingAssumption
<1>6. TypeOK'
  BY <1>2, <1>3, <1>5, ConstantFact DEF TypeOK
<1>7. RangeInv'
  BY <1>2, <1>3, <1>5, ConstantFact DEF RangeInv, TypeOK
<1>8. InUse' = InUse
  BY <1>3, <1>4 DEF InUse
<1>9. FrameInv'
  BY <1>2, <1>3, <1>8 DEF FrameInv
<1>10. TablesInv'
  BY <1>2, <1>3 DEF TablesInv
<1>11. IdentityInv'
  <2>1. SUFFICES ASSUME lowEnd <= Cleared
                 PROVE  /\ \A p \in 0..(lowEnd - 1) : map[p].present /\ map[p].frame = p
                        /\ placement' <= lowEnd * PAGE
    BY <1>3 DEF IdentityInv
  <2>2. /\ \A p \in 0..(lowEnd - 1) : map[p].present /\ map[p].frame = p
        /\ placement + PAGE <= lowEnd * PAGE
    BY <1>2, <1>3, <2>1 DEF IdentityInv
  <2>3. lowEnd * PAGE \in Nat
    BY <1>2, ConstantFact DEF TypeOK
  <2>. QED
    BY <1>2, <1>3, <1>5, <2>2, <2>3, ConstantFact DEF TypeOK
<1>. QED
  BY <1>6, <1>7, <1>9, <1>10, <1>11 DEF IInv

LEMMA GrowInv == IInv /\ Grow => IInv'
<1>1. SUFFICES ASSUME IInv, Grow PROVE IInv'
  OBVIOUS
<1>2. TypeOK /\ RangeInv /\ FrameInv /\ TablesInv /\ IdentityInv
  BY <1>1 DEF IInv
<1>3. /\ pc = "running" /\ pc' = "running" /\ heapEnd < HIGHEST
      /\ AllocFrame(heapEnd) /\ heapEnd' = heapEnd + 1
      /\ UNCHANGED <<n, placement, tables, lowEnd>>
  BY <1>1 DEF Grow
<1>4. heapEnd \in KHEAP..(HIGHEST - 1) /\ heapEnd \in VPages
  BY <1>2, <1>3, ConstantFact DEF TypeOK
<1>5. TypeOK'
  BY <1>2, <1>3, <1>4, AllocType, ConstantFact DEF TypeOK
<1>6. RangeInv'
  BY <1>2, <1>3 DEF RangeInv
<1>7. InUse' = InUse \cup {heapEnd}
  <2>1. InUse = {p \in VPages : p < lowEnd \/ (KHEAP <= p /\ p < heapEnd)}
    BY <1>3 DEF InUse
  <2>2. InUse' = {p \in VPages : p < lowEnd \/ (KHEAP <= p /\ p < heapEnd + 1)}
    BY <1>3 DEF InUse
  <2>3. \A p \in VPages :
          (KHEAP <= p /\ p < heapEnd + 1) <=> (KHEAP <= p /\ p < heapEnd) \/ p = heapEnd
    BY <1>4, ConstantFact
  <2>. QED
    BY <1>4, <2>1, <2>2, <2>3
<1>8. FrameInv'
  BY <1>2, <1>3, <1>4, <1>7, AllocFrames
<1>9. TablesInv'
  BY <1>2, <1>3 DEF TablesInv
<1>10. IdentityInv'
  <2>1. SUFFICES ASSUME lowEnd <= Cleared, NEW p \in 0..(lowEnd - 1)
                 PROVE  map'[p].present /\ map'[p].frame = p
    BY <1>2, <1>3 DEF IdentityInv
  <2>2. p # heapEnd /\ p \in VPages
    BY <1>2, <1>4, <2>1, ConstantFact DEF TypeOK
  <2>3. map'[p] = map[p]
    BY <1>2, <1>3, <1>4, <2>2, OtherPages
  <2>. QED
    BY <1>2, <1>3, <2>1, <2>3 DEF IdentityInv
<1>. QED
  BY <1>5, <1>6, <1>8, <1>9, <1>10 DEF IInv

LEMMA ShrinkInv == IInv /\ Shrink => IInv'
<1>. DEFINE last == heapEnd - 1
<1>1. SUFFICES ASSUME IInv, Shrink PROVE IInv'
  OBVIOUS
<1>2. TypeOK /\ RangeInv /\ FrameInv /\ TablesInv /\ IdentityInv
  BY <1>1 DEF IInv
<1>3. /\ pc = "running" /\ pc' = "running" /\ heapEnd > LOWEST
      /\ FreeFrame(last) /\ heapEnd' = last
      /\ UNCHANGED <<n, placement, tables, lowEnd>>
  BY <1>1 DEF Shrink
<1>4. last \in KHEAP..(HIGHEST - 1) /\ last \in VPages
  BY <1>2, <1>3, ConstantFact DEF TypeOK
<1>. HIDE DEF last
<1>5. TypeOK'
  <2>1. CASE map[last].frame = 0
    BY <1>2, <1>3, <1>4, <2>1, ConstantFact DEF FreeFrame, TypeOK
  <2>2. CASE map[last].frame # 0
    <3>1. /\ used' = used \ {map[last].frame \div PAGE}
          /\ map' = [map EXCEPT ![last].frame = 0]
          /\ past' = past \cup {"freed"}
      BY <1>3, <2>2 DEF FreeFrame
    <3>2. map' \in [VPages -> [present: BOOLEAN, frame: FrameNumbers]]
      BY <1>2, <1>4, <3>1, ConstantFact DEF TypeOK
    <3>. QED
      BY <1>2, <1>3, <1>4, <3>1, <3>2, ConstantFact DEF TypeOK
  <2>. QED
    BY <2>1, <2>2
<1>6. RangeInv'
  BY <1>2, <1>3 DEF RangeInv
<1>7. FrameInv'
  <2>1. SUFFICES ASSUME past' = {}
                 PROVE  /\ \A p \in InUse' : map'[p].present /\ map'[p].frame \in used'
                        /\ \A p, q \in InUse' : p # q => map'[p].frame # map'[q].frame
                        /\ \A p \in VPages \ InUse' : map'[p].frame = 0
    BY DEF FrameInv
  <2>2. map[last].frame = 0 /\ UNCHANGED <<map, used, past>>
    BY <1>3, <2>1 DEF FreeFrame
  <2>3. /\ \A p \in InUse : map[p].present /\ map[p].frame \in used
        /\ \A p, q \in InUse : p # q => map[p].frame # map[q].frame
        /\ \A p \in VPages \ InUse : map[p].frame = 0
    BY <1>2, <2>1, <2>2 DEF FrameInv
  <2>4. InUse' \subseteq InUse /\ InUse \subseteq InUse' \cup {last}
    <3>1. InUse = {p \in VPages : p < lowEnd \/ (KHEAP <= p /\ p < heapEnd)}
      BY <1>3 DEF InUse
    <3>2. InUse' = {p \in VPages : p < lowEnd \/ (KHEAP <= p /\ p < last)}
      BY <1>3 DEF InUse
    <3>3. \A p \in VPages : p < heapEnd <=> p < last \/ p = last
      <4>1. heapEnd \in Int /\ last = heapEnd - 1
        BY <1>2, ConstantFact DEF last, TypeOK
      <4>2. \A p \in VPages : p \in Int
        BY ConstantFact
      <4>. QED
        BY <4>1, <4>2
    <3>4. InUse' \subseteq InUse
      BY <3>1, <3>2, <3>3
    <3>5. \A p \in InUse : p \in InUse' \/ p = last
      BY <3>1, <3>2, <3>3
    <3>. QED
      BY <3>4, <3>5
  <2>. QED
    BY <2>2, <2>3, <2>4
<1>8. TablesInv'
  BY <1>2, <1>3 DEF TablesInv
<1>9. IdentityInv'
  <2>1. SUFFICES ASSUME lowEnd <= Cleared, NEW p \in 0..(lowEnd - 1)
                 PROVE  map'[p].present /\ map'[p].frame = p
    BY <1>2, <1>3 DEF IdentityInv
  <2>2. p # last /\ p \in VPages
    BY <1>2, <1>4, <2>1, ConstantFact DEF TypeOK
  <2>3. map'[p] = map[p]
    BY <1>2, <1>3, <1>4, <2>2, OtherPages
  <2>. QED
    BY <1>2, <1>3, <2>1, <2>3 DEF IdentityInv
<1>. QED
  BY <1>5, <1>6, <1>7, <1>8, <1>9 DEF IInv

\* IInv is inductive: every step keeps it.
LEMMA StepInv == IInv /\ [Next]_vars => IInv'
<1>1. SUFFICES ASSUME IInv, [Next]_vars PROVE IInv'
  OBVIOUS
<1>2. CASE Boot
  BY <1>1, <1>2, ReserveInv, HeapTablesInv, IdentityPageInv, IdentityDoneInv,
     HeapFrameInv, EnableInv DEF Boot
<1>3. CASE Grow
  BY <1>1, <1>3, GrowInv
<1>4. CASE Shrink
  BY <1>1, <1>4, ShrinkInv
<1>5. CASE UNCHANGED vars
  BY <1>1, <1>5 DEF vars, IInv, TypeOK, RangeInv, FrameInv, TablesInv, IdentityInv, InUse
<1>. QED
  BY <1>1, <1>2, <1>3, <1>4, <1>5 DEF Next

----------------------------------------------------------------------------
(* The theorems. *)

\* IInv holds in every state of every run.
THEOREM Inductive == Spec => []IInv
<1>1. Init => IInv
  BY InitInv
<1>2. IInv /\ [Next]_vars => IInv'
  BY StepInv
<1>. QED
  BY <1>1, <1>2, PTL DEF Spec

\* The paging code's variables keep their ranges, and page tables lie on page
\* boundaries.
THEOREM TypeCorrect == Spec => []TypeOK
<1>1. IInv => TypeOK
  BY DEF IInv
<1>. QED
  BY <1>1, Inductive, PTL

\* Until a frame is freed or there is none left, the pages in use are present
\* and each has a frame of its own.
THEOREM FramesOwned == Spec => []OwnFrames
<1>1. IInv => OwnFrames
  BY DEF IInv, FrameInv, OwnFrames, FramesDistinct
<1>. QED
  BY <1>1, Inductive, PTL

\* With a kernel that ends where the bitmap is cleared, the memory that was
\* taken before there was a heap is found at its own address, for every number
\* of page tables that were taken from it on the way.
THEOREM Identity == Spec => []IdentityMapped
<1>1. IInv => IdentityMapped
  <2>1. SUFFICES ASSUME IInv, pc \in {"frames", "running"}, lowEnd <= Cleared,
                        NEW p \in VPages, p * PAGE < placement
                 PROVE  map[p].present /\ map[p].frame = p
    BY DEF IdentityMapped, MappedToItself
  <2>2. /\ \A q \in 0..(lowEnd - 1) : map[q].present /\ map[q].frame = q
        /\ placement <= lowEnd * PAGE
    <3>1. lowEnd * PAGE \in Nat /\ placement \in Nat /\ PAGE \in Nat
      BY <2>1, ConstantFact DEF IInv, TypeOK
    <3>. QED
      BY <2>1, <3>1 DEF IInv, IdentityInv
  <2>3. p < lowEnd
    <3>1. p \in Nat /\ lowEnd \in Nat /\ PAGE \in Nat /\ placement \in Nat
      BY <2>1, ConstantFact DEF IInv, TypeOK
    <3>2. lowEnd <= p => lowEnd * PAGE <= p * PAGE
      BY <3>1, AddressFact
    <3>3. lowEnd * PAGE \in Nat /\ p * PAGE \in Nat
      BY <3>1
    <3>4. ~(lowEnd * PAGE <= p * PAGE)
      BY <2>1, <2>2, <3>1, <3>3
    <3>. QED
      BY <3>1, <3>2, <3>4
  <2>4. p \in 0..(lowEnd - 1)
    BY <2>1, <2>3, ConstantFact DEF IInv, TypeOK
  <2>. QED
    BY <2>2, <2>4
<1>. QED
  BY <1>1, Inductive, PTL
=============================================================================
