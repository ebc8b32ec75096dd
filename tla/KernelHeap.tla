----------------------------- MODULE KernelHeap -----------------------------
(***************************************************************************)
(* The kernel heap of kheap.c: alloc, free, expand and contract over a     *)
(* memory that holds the headers and footers of its blocks and holes, and  *)
(* the ordered array that indexes the holes by size.                       *)
(*                                                                         *)
(* Memory is a partial function: it has a tag (a header or a footer with   *)
(* its magic number) at the addresses where one was written and has not    *)
(* been overwritten.  A tag inside a hole or a block is left from an       *)
(* earlier one.  Everything else never spells the magic number.  The       *)
(* conditions of the form "x & 0xFFFFF000 != 0" are those of C, which      *)
(* reads them as "x & (0xFFFFF000 != 0)": is x odd.                        *)
(*                                                                         *)
(* A call to alloc that finds no hole expands the heap and calls itself;   *)
(* each of these rounds is a step.  A call to free is one step: the kernel *)
(* runs one thread and no interrupt handler uses the heap.                 *)
(***************************************************************************)
EXTENDS Integers, Sequences, FiniteSets, Functions, SequencesExt

CONSTANTS
  PAGE,        \* 0x1000
  START,       \* start_address, behind the index; a page boundary
  INITIAL,     \* the heap's first length, whole pages
  MIN,         \* HEAP_MIN_SIZE
  MAX,         \* max_address
  WORD,        \* 2^32
  Programs     \* [calls, most, frees]: the programs that use the heap: what they
               \* ask for, [size, align]; how many blocks they hold at a time;
               \* "never", "newest", "oldest" or "any": the block they may free

HDR == 12      \* sizeof(header_t)
FTR == 8       \* sizeof(footer_t)

ASSUME SizeAssumption ==
  /\ PAGE \in Nat /\ HDR + FTR <= PAGE /\ PAGE % 2 = 0
  /\ MIN \in Nat /\ 2 * PAGE <= MIN /\ MAX \in Nat /\ WORD \in Nat
  /\ START \in Nat /\ START > PAGE /\ START % PAGE = 0 /\ INITIAL \in Nat
  /\ INITIAL % PAGE = 0 /\ MIN <= INITIAL /\ START + INITIAL <= MAX /\ MAX < WORD
  /\ \A p \in Programs : /\ p.most \in Nat /\ p.frees \in {"never", "newest", "oldest", "any"}
                         /\ \A c \in p.calls : c.size \in Nat /\ c.align \in BOOLEAN

VARIABLES
  mem,         \* [address -> tag], where there is one
  index,       \* heap->index: the headers of the holes
  end,         \* heap->end_address
  frame,       \* [page of the heap -> "none", "mapped", or "freed"]
  live,        \* the blocks the program holds, oldest first
  call,        \* the alloc being served, or NoCall
  halted,      \* "no"; "memory": expand has reached max_address; "frames": it
               \* needs more of them than there are; "assert", "fault": another
               \* failed ASSERT, a page fault
  program      \* which of Programs runs

vars == <<mem, index, end, frame, live, call, halted, program>>

Pages  == 0..((MAX - START) \div PAGE)
NoCall == [size |-> -1, align |-> FALSE]

O == INSTANCE SortedArray WITH
  Items <- {}, Keys <- {}, MaxSize <- 0, array <- index, key <- << >>

----------------------------------------------------------------------------
(* Memory. *)

Header(hole, size) == [kind |-> "header", hole |-> hole, size |-> size, header |-> 0]
Footer(header)     == [kind |-> "footer", hole |-> FALSE, size |-> 0, header |-> header]
Nothing            == [kind |-> "none", hole |-> FALSE, size |-> 0, header |-> 0]

Length(tag) == IF tag.kind = "header" THEN HDR ELSE FTR
Tag(m, a)   == IF a \in DOMAIN m THEN m[a] ELSE Nothing
IsHeader(m, a) == Tag(m, a).kind = "header"
IsFooter(m, a) == Tag(m, a).kind = "footer"

\* The tags with no byte in lo..(hi - 1).
Erase(m, lo, hi) == Restrict(m, {a \in DOMAIN m : a + Length(m[a]) <= lo \/ hi <= a})
Put(m, a, tag) ==
  LET kept == Erase(m, a, a + Length(tag))
  IN  [b \in DOMAIN kept \cup {a} |-> IF b = a THEN tag ELSE kept[b]]

\* Arithmetic of u32int.
Plus(x, y)  == (x + y) % WORD
Minus(x, y) == (x - y) % WORD
Signed(x)   == IF x < WORD \div 2 THEN x ELSE x - WORD

\* header->size written in place, and insert_ordered_array, which compares the
\* sizes as they are then (header_t_less_than).
Resize(m, a, size) == IF a \in DOMAIN m THEN [m EXCEPT ![a].size = size] ELSE m
Indexed(m, s, x) ==
  O!Inserted(s, [a \in {s[k] : k \in 1..Len(s)} \cup {x} |-> Tag(m, a).size], x)

\* A page that was freed stays present, showing page 0 of physical memory; one
\* that never had a frame faults.  What lies before START is always there.
PageOf(a) == (a - START) \div PAGE
Present(f, a) == PageOf(a) < 0 \/ (PageOf(a) \in Pages /\ f[PageOf(a)] # "none")
\* Some tag of m was written where page frames f have no page.
Faults(m, f) ==
  \E a \in DOMAIN m :
    m[a] # Tag(mem, a) /\ ~(Present(f, a) /\ Present(f, a + Length(m[a]) - 1))

Halt(how) == halted' = how /\ UNCHANGED <<mem, index, end, frame, live, call, program>>

----------------------------------------------------------------------------
(* create_heap: one large hole, without a footer. *)

Init ==
  /\ mem = [a \in {START} |-> Header(TRUE, INITIAL)]
  /\ index = <<START>>
  /\ end = START + INITIAL
  /\ frame = [p \in Pages |-> IF p < INITIAL \div PAGE THEN "mapped" ELSE "none"]
  /\ live = << >> /\ call = NoCall /\ halted = "no"
  /\ program \in Programs

----------------------------------------------------------------------------
(* alloc. *)

\* new_size: what the call takes, with header and footer.
Need(c) == Plus(c.size, HDR + FTR)

\* find_smallest_hole's test.
Fits(c, a) ==
  LET offset == IF (a + HDR) % 2 = 1 THEN PAGE - ((a + HDR) % PAGE) ELSE 0
  IN  IF c.align THEN Signed(Tag(mem, a).size) - offset >= Signed(Need(c))
      ELSE Tag(mem, a).size >= Need(c)

\* The iterator it returns, counted from 1; 0 stands for -1.
SmallestHole(c) ==
  IF \E k \in 1..Len(index) : Fits(c, index[k])
  THEN CHOOSE k \in 1..Len(index) : Fits(c, index[k]) /\ \A j \in 1..(k - 1) : ~Fits(c, index[j])
  ELSE 0

\* How the hole at a is cut: a hole in front of size "front" for an aligned
\* block, the block, and what remains.  A hole that would leave no room for
\* another is taken whole.  Mutant: every hole is cut.
CutTight(c, a) == [pos |-> a, front |-> 0, size |-> c.size, new |-> Need(c),
                   rest |-> Minus(Tag(mem, a).size, Need(c))]
Cut(c, a) ==
  LET hole  == Tag(mem, a).size
      whole == Minus(hole, Need(c)) < HDR + FTR
      new   == IF whole THEN hole ELSE Need(c)
      front == IF c.align THEN Minus(PAGE - (a % PAGE), HDR) ELSE 0
  IN  [pos   |-> Plus(a, front),
       front |-> front,
       size  |-> IF whole THEN Minus(hole, HDR + FTR) ELSE c.size,
       new   |-> new,
       rest  |-> Minus(hole - front, new)]

\* The tags written for a cut of the hole at a.  Mutants: the block's footer
\* points behind the header; it is written where the block would end without
\* its header.
WithFront(m, a, cut, align) ==
  IF align THEN Put(Put(m, a, Header(TRUE, cut.front)), cut.pos - FTR, Footer(a)) ELSE m
WithBlockToData(m, cut) ==
  Put(Put(m, cut.pos, Header(FALSE, cut.new)), cut.pos + HDR + cut.size, Footer(cut.pos + HDR))
WithBlockShort(m, cut) ==
  Put(Put(m, cut.pos, Header(FALSE, cut.new)), cut.pos + cut.size, Footer(cut.pos))
WithBlock(m, cut) ==
  Put(Put(m, cut.pos, Header(FALSE, cut.new)), Plus(cut.pos + HDR, cut.size), Footer(cut.pos))
RestAt(cut) == Plus(cut.pos + HDR + FTR, cut.size)
WithRest(m, cut) ==
  LET foot == Plus(RestAt(cut), cut.rest - FTR)
      with == Put(m, RestAt(cut), Header(TRUE, cut.rest))
  IN  IF cut.rest = 0 THEN m
      ELSE IF foot < end THEN Put(with, foot, Footer(RestAt(cut))) ELSE with

\* The block is the program's, which fills it.
Alloc ==
  /\ halted = "no" /\ call # NoCall /\ SmallestHole(call) # 0
  /\ LET k    == SmallestHole(call)
         cut  == Cut(call, index[k])
         m    == WithRest(WithBlock(WithFront(mem, index[k], cut, call.align), cut), cut)
         kept == IF call.align THEN index ELSE O!Removed(index, k - 1)
         at   == cut.pos + HDR
     IN  IF Faults(m, frame) THEN Halt("fault")
         ELSE /\ mem' = Erase(m, at, at + call.size)
              /\ index' = IF cut.rest = 0 THEN kept
                          ELSE Indexed(m, kept, RestAt(cut))
              /\ live' = Append(live, [at |-> at, size |-> call.size])
              /\ call' = NoCall
              /\ UNCHANGED <<end, frame, halted, program>>

\* expand's new length.
Expanded(n) == IF n % 2 = 1 THEN Plus((n \div PAGE) * PAGE, PAGE) ELSE n

\* The pages expand asks a frame for: the one of every i.  Mutant: the first is
\* left out.
NewPagesLater(old, new) == {PageOf(START + old + PAGE * k) : k \in 1..((new - old - 1) \div PAGE)}
NewPages(old, new) == {PageOf(START + old + PAGE * k) : k \in 0..((new - old - 1) \div PAGE)}

\* No hole: the heap expands, and the last of the holes grows to the new end.
\* Sums that pass 2^32 get past both ASSERTs in some cases; when the second one
\* does, the loop asks for far more page frames than there are.
LastHole == CHOOSE a \in {index[k] : k \in 1..Len(index)} : \A k \in 1..Len(index) : index[k] <= a

Expand ==
  /\ halted = "no" /\ call # NoCall /\ SmallestHole(call) = 0
  /\ LET old  == end - START
         want == Plus(old, Need(call))
         new  == Expanded(want)
         got  == [p \in Pages |-> IF p \in NewPages(old, new) THEN "mapped" ELSE frame[p]]
         hole == IF index = << >> THEN end ELSE LastHole
         size == IF index = << >> THEN Minus(new, old) ELSE Plus(Tag(mem, hole).size, new - old)
         with == IF index = << >> THEN Put(mem, hole, Header(TRUE, size))
                 ELSE Resize(mem, hole, size)
         m    == Put(with, Plus(hole, size - FTR), Footer(hole))
     IN  IF want <= old THEN Halt("assert")
         ELSE IF Plus(START, new) > MAX THEN Halt("memory")
         ELSE IF START + new > MAX THEN Halt("frames")
         ELSE IF Faults(m, got) THEN Halt("fault")
         ELSE /\ mem' = m
              /\ index' = IF index = << >> THEN <<hole>> ELSE index
              /\ end' = START + new
              /\ frame' = got
              /\ UNCHANGED <<live, call, halted, program>>

----------------------------------------------------------------------------
(* free.  Its local variables are the fields of a record that its parts     *)
(* hand on.                                                                *)

Freed(header) ==
  [mem |-> [mem EXCEPT ![header].hole = TRUE], index |-> index, end |-> end, frame |-> frame,
   header |-> header, footer |-> header + Tag(mem, header).size - FTR,
   right |-> header + Tag(mem, header).size, add |-> TRUE]

\* Unify left.
UnifyLeft(s) ==
  LET left == Tag(s.mem, s.header - FTR)
      m    == Put(s.mem, s.footer, Footer(left.header))
  IN  IF left.kind = "footer" /\ Tag(s.mem, left.header).hole
      THEN [s EXCEPT !.mem = Resize(m, left.header,
                                    Plus(Tag(m, left.header).size, Tag(s.mem, s.header).size)),
                     !.header = left.header, !.add = FALSE]
      ELSE s

Place(seq, x) ==
  IF \E k \in 1..Len(seq) : seq[k] = x
  THEN CHOOSE k \in 1..Len(seq) : seq[k] = x /\ \A j \in 1..(k - 1) : seq[j] # x
  ELSE 0

\* Unify right: the hole found there leaves the index; its footer is left as it
\* is.  Mutants: it is never looked for; it stays in the index.
RightIsHoleNever(s) == FALSE
RightIsHole(s) == IsHeader(s.mem, s.right) /\ Tag(s.mem, s.right).hole
Joined(s) ==
  LET size == Tag(s.mem, s.right).size
  IN  [s EXCEPT !.mem = Resize(s.mem, s.header, Plus(Tag(s.mem, s.header).size, size)),
                !.footer = Plus(s.right, size - FTR)]
UnifyRightKeeping(s) == IF RightIsHole(s) THEN Joined(s) ELSE s
UnifyRight(s) ==
  IF RightIsHole(s)
  THEN [Joined(s) EXCEPT !.index = O!Removed(@, Place(@, s.right) - 1)]
  ELSE s

\* contract's new length.
Contracted(n) ==
  LET rounded == IF (n \div PAGE) % 2 = 1 THEN 2 * PAGE ELSE n
  IN  IF rounded < MIN THEN MIN ELSE rounded

\* The pages contract gives up.  Mutant: it does not stop at the new end.
OldPagesAll(old, new) == {PageOf(START + old - PAGE * j) : j \in 1..(old \div PAGE)}
OldPages(old, new) ==
  {PageOf(START + old - PAGE * k) : k \in {j \in 1..(old \div PAGE) : new < old - PAGE * j}}

\* A hole at the end of the heap: contract.  What was on the pages that go is
\* gone.
Contract(s) ==
  LET old  == s.end - START
      new  == Contracted(s.header - START)
      gone == OldPages(old, new)
      m    == Restrict(s.mem, {a \in DOMAIN s.mem :
                 gone \cap {PageOf(a), PageOf(a + Length(s.mem[a]) - 1)} = {}})
      size == Minus(Tag(s.mem, s.header).size, old - new)
      t    == [s EXCEPT !.mem = m, !.end = START + new,
                        !.frame = [p \in Pages |-> IF p \in gone /\ @[p] = "mapped"
                                                  THEN "freed" ELSE @[p]]]
      \* the index loses test_header, not header
      test == Place(s.index, s.right)
  IN  IF s.footer + FTR # s.end THEN s
      ELSE IF size # 0
           THEN [t EXCEPT !.mem = Put(Resize(m, s.header, size),
                                      Plus(s.header, size - FTR), Footer(s.header))]
           ELSE [t EXCEPT !.index = IF test = 0 THEN @ ELSE O!Removed(@, test - 1)]

\* If required, the hole joins the index.
Filed(s) == IF s.add THEN Indexed(s.mem, s.index, s.header) ELSE s.index

\* Which of its n blocks, oldest first, the program may free.
MayFree(n) ==
  CASE program.frees = "never"  -> {}
    [] program.frees = "newest" -> {n} \ {0}
    [] program.frees = "oldest" -> {1} \cap (1..n)
    [] program.frees = "any"    -> 1..n

\* free of the k-th block.
Free(k) ==
  /\ halted = "no" /\ call = NoCall /\ k \in MayFree(Len(live))
  /\ LET s == Freed(live[k].at - HDR)
         u == UnifyLeft(s)
         t == Contract(UnifyRight(u))
     IN  IF ~(IsHeader(mem, live[k].at - HDR) /\ IsFooter(mem, s.footer)) THEN Halt("assert")
         ELSE IF ~Present(frame, s.right) THEN Halt("fault")
         ELSE IF RightIsHole(u) /\ Place(u.index, u.right) = 0 THEN Halt("assert")
         ELSE IF Faults(t.mem, t.frame) THEN Halt("fault")
         ELSE /\ mem' = t.mem /\ end' = t.end /\ frame' = t.frame
              /\ index' = Filed(t)
              /\ live' = RemoveAt(live, k)
              /\ UNCHANGED <<call, halted, program>>

----------------------------------------------------------------------------
\* The program calls alloc.
Call(c) ==
  /\ halted = "no" /\ call = NoCall /\ Len(live) < program.most
  /\ call' = c
  /\ UNCHANGED <<mem, index, end, frame, live, halted, program>>

Next ==
  \/ \E c \in program.calls : Call(c)
  \/ Alloc \/ Expand
  \/ \E k \in 1..program.most : Free(k)

Spec == Init /\ [][Next]_vars

----------------------------------------------------------------------------
(* Properties. *)

\* Every variable holds what its C variable can, and the index, which has a
\* fixed room, needs no more entries than there are gaps between the blocks.
TypeOK ==
  /\ DOMAIN mem \subseteq 0..(WORD - 1)
  /\ \A a \in DOMAIN mem : mem[a].kind \in {"header", "footer"} /\ mem[a].size \in 0..(WORD - 1)
  /\ index \in Seq(0..(WORD - 1)) /\ Len(index) <= program.most + 1
  /\ end \in START..MAX
  /\ frame \in [Pages -> {"none", "mapped", "freed"}]
  /\ Len(live) <= program.most
  /\ call \in program.calls \cup {NoCall}
  /\ halted \in {"no", "memory", "frames", "assert", "fault"} /\ program \in Programs

\* Programs that the heap serves right.  Some never free and ask for odd sizes,
\* so that the heap grows by whole pages, and for none so large that a heap at
\* max_address would have to grow past 2^32.  Some free newest first, and their
\* blocks fit into HEAP_MIN_SIZE with room for one more pair of tags.
OddSizes(p) ==
  p.frees = "never" /\ \A c \in p.calls : c.size % 2 = 1 /\ MAX + c.size + HDR + FTR + PAGE < WORD
Enough(p, b) == p.most * b + HDR + FTR <= MIN /\ \A c \in p.calls : c.size + HDR + FTR <= b
Stacked(p) == p.frees \in {"never", "newest"} /\ \E b \in 0..MIN : Enough(p, b)
Served(p)  == (\A c \in p.calls : ~c.align) /\ (OddSizes(p) \/ Stacked(p))

Running == halted = "no"
Holes   == {index[k] : k \in 1..Len(index)}
Blocks  == {live[k].at - HDR : k \in 1..Len(live)}
Starts  == Holes \cup Blocks
Size(a) == Tag(mem, a).size

\* The holes of the index and the blocks of the program lie one behind the
\* other from start_address to end_address: none overlaps another, and no byte
\* of the heap belongs to neither.
Tiled ==
  Running =>
    /\ Holes \cap Blocks = {} /\ Cardinality(Starts) = Len(index) + Len(live)
    /\ START \in Starts \cup {end}
    /\ \A a \in Starts : /\ IsHeader(mem, a) /\ mem[a].hole = (a \in Holes)
                         /\ a + Size(a) \in Starts \cup {end}
                         /\ \A b \in Starts : b <= a \/ a + Size(a) <= b

\* Whatever has a neighbour on its right ends in a footer that points back to
\* its header, which is what unifying left relies on.
FootersPointBack ==
  Running =>
    \A a \in Starts : a + Size(a) # end =>
      Tag(mem, a + Size(a) - FTR) = Footer(a)

\* No two holes are neighbours: freed memory always comes together again.
Coalesced == Running => \A a, b \in Holes : a + Size(a) # b

\* Every page of the heap has a frame of its own.
HeapMapped == \A p \in Pages : START + p * PAGE < end => frame[p] = "mapped"

\* The heap is an allocator.
Abstract == INSTANCE Allocator WITH
  Low <- START, High <- MAX, regions <- {[at |-> live[k].at, size |-> live[k].size] : k \in 1..Len(live)}
ImplementsAllocator == Abstract!Spec

\* No call that a program may make stops the kernel, unless its blocks do not
\* fit below max_address.
NeverHalts == halted \in {"no", "memory"}

\* What the comment "This should always be on a page boundary" says.
EndOnPageBoundary == end % PAGE = 0

\* What the comment of ordered_array_t says, "it always remains in a sorted
\* state (between calls)", for the heap's index.
IndexSorted == Running => \A j, k \in 1..Len(index) : j < k => Size(index[j]) <= Size(index[k])

\* What the comment "Rewrite it's footer to point to our header" says.
HolesHaveFooters ==
  Running => \A a \in Holes : a + Size(a) < end => Tag(mem, a + Size(a) - FTR) = Footer(a)

\* What the comment "Don't contract too far!" says: no block of the program is
\* left behind the end.
BlocksInside == \A k \in 1..Len(live) : live[k].at + live[k].size + FTR <= end

\* What the comment "We will no longer exist :(. Remove us from the index" says:
\* no hole is left behind the end.
HolesInside == \A a \in Holes : a < end

\* What the comments of alloc and "The last header needs adjusting" say: each
\* block is a region of its own.
BlocksApart ==
  \A j, k \in 1..Len(live) :
    j # k => \/ live[j].at + live[j].size <= live[k].at
             \/ live[k].at + live[k].size <= live[j].at
=============================================================================
