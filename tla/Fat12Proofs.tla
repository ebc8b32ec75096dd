----------------------------- MODULE Fat12Proofs -----------------------------
(***************************************************************************)
(* The packing of the FAT12 table is undone for every table and cluster,   *)
(* main frees what it made, for every volume, image and name, and prints   *)
(* the file asked for, for every volume in order of any geometry.          *)
(***************************************************************************)
EXTENDS Fat12, SequenceTheorems, WellFoundedInduction, TLAPS

----------------------------------------------------------------------------
(* Two entries of twelve bits in three bytes. *)

\* Names for the parts, so that each step is either logic or arithmetic.
Entries12     == 0..4095
Word(p, q)    == p + 256 * q
LowTwelve(w)  == w % 4096
HighTwelve(w) == w \div 16
First(a)      == a % 256
Shared(a, b)  == (a \div 256) + 16 * (b % 16)
Third(b)      == b \div 16

\* The word that readFile takes for an even and for an odd cluster.
LEMMA WordOfEven ==
  ASSUME NEW s, NEW c, NEW i, (3 * c) \div 2 = i, c % 2 = 0
  PROVE  Next12(s, c) = LowTwelve(Word(s[i + 1], s[i + 2]))
BY DEF Next12, LowTwelve, Word

LEMMA WordOfOdd ==
  ASSUME NEW s, NEW c, NEW i, (3 * c) \div 2 = i, c % 2 = 1
  PROVE  Next12(s, c) = HighTwelve(Word(s[i + 1], s[i + 2]))
BY DEF Next12, HighTwelve, Word

\* What lies in the three bytes of the entries e and o.
LEMMA ThreeBytes ==
  ASSUME NEW t, NEW h \in Nat, NEW e, NEW o, e = 2 * h, o = 2 * h + 1
  PROVE  /\ PackedByte(t, 3 * h)     = First(t[e])
         /\ PackedByte(t, 3 * h + 1) = Shared(t[e], t[o])
         /\ PackedByte(t, 3 * h + 2) = Third(t[o])
<1>1. /\ (3 * h) % 3 = 0 /\ (3 * h) \div 3 = h
      /\ (3 * h + 1) % 3 = 1 /\ (3 * h + 1) \div 3 = h
      /\ (3 * h + 2) % 3 = 2 /\ (3 * h + 2) \div 3 = h
  OBVIOUS
<1> QED BY <1>1 DEF PackedByte, First, Shared, Third

\* A word over two of the three bytes has a whole entry in it.
LEMMA WordHasEntry ==
  ASSUME NEW a \in Entries12, NEW b \in Entries12
  PROVE  /\ LowTwelve(Word(First(a), Shared(a, b))) = a
         /\ HighTwelve(Word(Shared(a, b), Third(b))) = b
BY DEF Entries12, LowTwelve, HighTwelve, Word, First, Shared, Third

\* readFile finds the entry of every cluster, even or odd, in the two bytes of
\* the table that it looks at, whatever the entry that shares a byte with it.
THEOREM TwelveBits ==
  ASSUME NEW c \in Nat,
         NEW t, \A i \in {c - 1, c, c + 1} \cap Nat : t[i] \in Entries12,
         NEW s, \A k \in {(3 * c) \div 2, (3 * c) \div 2 + 1} : s[k + 1] = PackedByte(t, k)
  PROVE  Next12(s, c) = t[c]
<1>1. PICK h \in Nat : c = 2 * h \/ c = 2 * h + 1
  <2>1. c \div 2 \in Nat /\ (c = 2 * (c \div 2) \/ c = 2 * (c \div 2) + 1)
    OBVIOUS
  <2> QED BY <2>1
<1>2. PICK e \in Nat, o \in Nat : e = 2 * h /\ o = 2 * h + 1
  <2>1. 2 * h \in Nat /\ 2 * h + 1 \in Nat
    BY <1>1
  <2> QED BY <2>1
<1>3. PICK x \in Nat, y \in Nat, z \in Nat : x = 3 * h /\ y = 3 * h + 1 /\ z = 3 * h + 2
  <2>1. 3 * h \in Nat /\ 3 * h + 1 \in Nat /\ 3 * h + 2 \in Nat
    BY <1>1
  <2> QED BY <2>1
<1>4. t[e] \in Entries12 /\ t[o] \in Entries12
  <2>1. e \in {c - 1, c, c + 1} \cap Nat /\ o \in {c - 1, c, c + 1} \cap Nat
    BY <1>1, <1>2
  <2> QED BY <2>1, Zenon
<1>5. /\ PackedByte(t, x) = First(t[e])
      /\ PackedByte(t, y) = Shared(t[e], t[o])
      /\ PackedByte(t, z) = Third(t[o])
  <2>1. /\ PackedByte(t, 3 * h)     = First(t[e])
        /\ PackedByte(t, 3 * h + 1) = Shared(t[e], t[o])
        /\ PackedByte(t, 3 * h + 2) = Third(t[o])
    BY <1>2, ThreeBytes
  <2> QED BY <1>3, <2>1, Zenon
<1>6. CASE c = e
  <2>1. (3 * c) \div 2 = x /\ (3 * c) \div 2 + 1 = y /\ c % 2 = 0 /\ x + 2 = y + 1
    BY <1>1, <1>2, <1>3, <1>6
  <2>2. s[x + 1] = PackedByte(t, x) /\ s[y + 1] = PackedByte(t, y)
    BY <2>1, Zenon
  <2>3. Next12(s, c) = LowTwelve(Word(s[x + 1], s[x + 2]))
    BY <2>1, WordOfEven, Zenon
  <2>4. Next12(s, c) = LowTwelve(Word(First(t[e]), Shared(t[e], t[o])))
    BY <1>5, <2>1, <2>2, <2>3, Zenon
  <2> QED BY <1>4, <1>6, <2>4, WordHasEntry, Zenon
<1>7. CASE c = o
  <2>1. (3 * c) \div 2 = y /\ (3 * c) \div 2 + 1 = z /\ c % 2 = 1 /\ y + 2 = z + 1
    BY <1>1, <1>2, <1>3, <1>7
  <2>2. s[y + 1] = PackedByte(t, y) /\ s[z + 1] = PackedByte(t, z)
    BY <2>1, Zenon
  <2>3. Next12(s, c) = HighTwelve(Word(s[y + 1], s[y + 2]))
    BY <2>1, WordOfOdd, Zenon
  <2>4. Next12(s, c) = HighTwelve(Word(Shared(t[e], t[o]), Third(t[o])))
    BY <1>5, <2>1, <2>2, <2>3, Zenon
  <2> QED BY <1>4, <1>7, <2>4, WordHasEntry, Zenon
<1> QED BY <1>1, <1>2, <1>6, <1>7

----------------------------------------------------------------------------
(* What main frees. *)

\* Which buffers there are before each step of main: AllFreed is not inductive
\* without it, since the steps that end main each free a list of their own.
Made(step) ==
  IF step \in {"boot", "fat", "done"} THEN {}
  ELSE IF step = "root" THEN {"fat"}
  ELSE IF step = "find" THEN {"fat", "root"}
  ELSE {"fat", "root", "buffer"}
Steps == {"boot", "fat", "root", "find", "read", "print", "done", "overrun"}
Inv == pc \in Steps /\ allocated = Made(pc)

\* Whatever step fails, and in whatever turn of readFile's loop, main has freed
\* every buffer when it returns.
THEOREM NothingLeaked == Spec => []AllFreed
<1>1. Init => Inv
  BY DEF Init, Inv, Steps, Made
<1>2. Inv /\ [Next]_vars => Inv'
  <2> SUFFICES ASSUME Inv, [Next]_vars PROVE Inv'
    OBVIOUS
  <2> USE DEF Inv, Steps, Made
  <2>1. CASE readBootSector
    BY <2>1 DEF readBootSector, Exit
  <2>2. CASE readFat
    BY <2>2 DEF readFat
  <2>3. CASE readRootDirectory
    BY <2>3 DEF readRootDirectory, AfterRoot
  <2>4. CASE findFile
    BY <2>4 DEF findFile, Exit
  <2>5. CASE readFile
    BY <2>5 DEF readFile, ReadFailed, Exit
  <2>6. CASE PrintBuffer
    BY <2>6 DEF PrintBuffer, Exit
  <2>7. CASE UNCHANGED vars
    BY <2>7 DEF vars
  <2> QED BY <2>1, <2>2, <2>3, <2>4, <2>5, <2>6, <2>7 DEF Next
<1>3. Inv => AllFreed
  BY DEF Inv, AllFreed, Made
<1> QED BY <1>1, <1>2, <1>3, PTL DEF Spec

----------------------------------------------------------------------------
(* Where the parts of a volume lie. *)

LEMMA Divide ==
  ASSUME NEW p \in Nat \ {0}, NEW q \in Nat, NEW r \in Nat, r < p
  PROVE  (p * q + r) \div p = q /\ (p * q + r) % p = r
OBVIOUS

\* The two ways to round up to whole sectors agree.
LEMMA RoundUp ==
  ASSUME NEW x \in Nat, NEW p \in Nat \ {0}
  PROVE  LET n == (x \div p) + (IF x % p > 0 THEN 1 ELSE 0)
         IN  n \in Nat /\ (x + p - 1) \div p = n /\ x <= n * p
<1>1. PICK q \in Nat, r \in Nat : x = p * q + r /\ r < p /\ q = x \div p /\ r = x % p
  <2>1. x \div p \in Nat /\ x % p \in Nat /\ x = p * (x \div p) + (x % p) /\ x % p < p
    OBVIOUS
  <2> QED
    BY <2>1
<1>2. CASE r = 0
  <2>1. x + p - 1 = p * q + (p - 1)
    <3>1. p * q \in Nat
      BY <1>1
    <3>2. x = p * q
      <4>1. PICK m \in Nat : m = p * q
        BY <3>1
      <4>2. x = m + r /\ r = 0
        BY <1>1, <1>2, <4>1
      <4> QED
        BY <4>1, <4>2
    <3> QED
      BY <3>1, <3>2
  <2>2. (p * q + (p - 1)) \div p = q
    BY Divide
  <2> QED
    BY <1>1, <1>2, <2>1, <2>2
<1>3. CASE r > 0
  <2>1. x + p - 1 = p * (q + 1) + (r - 1)
    <3>1. p * q \in Nat /\ x = p * q + r /\ p * (q + 1) = p * q + p
      BY <1>1
    <3> QED
      BY <3>1
  <2>2. (p * (q + 1) + (r - 1)) \div p = q + 1
    <3>1. q + 1 \in Nat /\ r - 1 \in Nat /\ r - 1 < p
      BY <1>1, <1>3
    <3> QED
      BY <3>1, Divide
  <2>3. x <= (q + 1) * p
    BY <1>1
  <2> QED
    BY <1>1, <1>3, <2>1, <2>2, <2>3
<1> QED
  BY <1>1, <1>2, <1>3

LEMMA Positive ==
  ASSUME NEW p \in Nat \ {0}, NEW q \in Nat \ {0}
  PROVE  p * q \in Nat \ {0}
OBVIOUS

LEMMA Constants ==
  /\ BytesPerSector \in Nat \ {0} /\ SectorsPerCluster \in Nat \ {0} /\ DIRENT \in Nat \ {0}
  /\ ReservedSectors \in Nat /\ FatCount \in Nat \ {0} /\ DirEntryCount \in Nat
  /\ SectorsPerFat \in Nat /\ Clusters \in Nat /\ Clusters <= 4084
  /\ SectorsPerFat * BytesPerSector \in Nat /\ ClusterSize \in Nat \ {0}
  /\ MEDIA \in 0..4095 /\ BOOT \in Nat /\ BOOT <= ReservedSectors * BytesPerSector
  /\ NoName \notin Names
  /\ (3 * (Clusters + 3)) \div 2 <= SectorsPerFat * BytesPerSector
<1>1. /\ BytesPerSector \in Nat \ {0} /\ SectorsPerCluster \in Nat \ {0} /\ DIRENT \in Nat \ {0}
      /\ ReservedSectors \in Nat /\ FatCount \in Nat \ {0} /\ DirEntryCount \in Nat
      /\ SectorsPerFat \in Nat /\ Clusters \in 0..4084
      /\ (3 * (Clusters + 3)) \div 2 <= SectorsPerFat * BytesPerSector
      /\ MEDIA \in 0..4095 /\ BOOT \in Nat /\ BOOT <= ReservedSectors * BytesPerSector
      /\ NoName \notin Names
  BY VolumeAssumption
<1>2. ClusterSize \in Nat \ {0}
  BY <1>1, Positive DEF ClusterSize
<1>3. SectorsPerFat * BytesPerSector \in Nat
  BY <1>1
<1>4. Clusters \in Nat /\ Clusters <= 4084
  BY <1>1
<1> QED
  BY <1>1, <1>2, <1>3, <1>4

\* The sectors that main computes are those of the parts of the volume.
LEMMA Layout ==
  /\ FatStart \in Nat /\ RootStart \in Nat /\ DataStart \in Nat /\ WholeLength \in Nat
  /\ RootLba \in Nat /\ RootCount \in Nat /\ RootDirectoryEnd \in Nat
  /\ FatStart + SectorsPerFat * BytesPerSector <= RootStart
  /\ RootLba * BytesPerSector = RootStart
  /\ DIRENT * DirEntryCount <= RootCount * BytesPerSector
  /\ DataStart = RootStart + RootCount * BytesPerSector
  /\ RootDirectoryEnd * BytesPerSector = DataStart
  /\ WholeLength = DataStart + Clusters * ClusterSize
<1> DEFINE f == SectorsPerFat * BytesPerSector
<1>1. f \in Nat /\ BytesPerSector \in Nat \ {0} /\ FatCount \in Nat \ {0}
  BY Constants
<1>2. FatStart \in Nat /\ RootStart = FatStart + FatCount * f
  BY Constants DEF FatStart, RootStart
<1>3. f <= FatCount * f /\ FatCount * f \in Nat
  <2> HIDE DEF f
  <2> QED
    BY <1>1
<1>4. RootLba \in Nat /\ RootLba * BytesPerSector = RootStart
  BY Constants DEF RootLba, RootStart, FatStart
<1>5. /\ RootCount \in Nat /\ RootSectors = RootCount
      /\ DIRENT * DirEntryCount <= RootCount * BytesPerSector
  <2>1. DIRENT * DirEntryCount \in Nat
    BY Constants
  <2> QED
    BY <1>1, <2>1, RoundUp DEF RootCount, RootSectors, RootSize
<1>6. DataStart = RootStart + RootCount * BytesPerSector
  BY <1>5 DEF DataStart
<1>7. RootCount * BytesPerSector \in Nat /\ DataStart \in Nat
  BY <1>1, <1>2, <1>3, <1>5, <1>6
<1>8. RootDirectoryEnd \in Nat /\ RootDirectoryEnd * BytesPerSector = DataStart
  BY <1>1, <1>4, <1>5, <1>6 DEF RootDirectoryEnd
<1>9. Clusters * ClusterSize \in Nat
  BY Constants
<1>10. WholeLength = DataStart + Clusters * ClusterSize /\ WholeLength \in Nat
  BY <1>7, <1>9 DEF WholeLength
<1>11. FatStart + f <= RootStart /\ RootStart \in Nat
  <2> HIDE DEF f
  <2> QED
    BY <1>1, <1>2, <1>3
<1> QED
  BY <1>2, <1>4, <1>5, <1>6, <1>7, <1>8, <1>10, <1>11

\* A byte of a call to readSectors.
LEMMA SectorsFact ==
  ASSUME NEW lba \in Nat, NEW count \in Nat
  PROVE  /\ Len(Sectors(lba, count)) = count * BytesPerSector
         /\ \A k \in 1..(count * BytesPerSector) :
              Sectors(lba, count)[k] = ByteAt(volume, lba * BytesPerSector + k - 1)
<1>1. count * BytesPerSector \in Nat
  BY Constants
<1> QED
  BY <1>1 DEF Sectors

----------------------------------------------------------------------------
(* The file allocation table. *)

\* A chain of a volume in order.
LEMMA ChainFact ==
  ASSUME NEW v, WellFormed(v), NEW f \in Files(v)
  PROVE  /\ Len(f.chain) \in Nat /\ 1 <= Len(f.chain) /\ Len(f.chain) <= Clusters
         /\ \A k \in 1..Len(f.chain) : f.chain[k] \in 2..(Clusters + 1)
         /\ f.size \in Nat /\ f.size <= Len(f.chain) * ClusterSize
         /\ f.chain # << >> /\ Head(f.chain) = f.chain[1]
<1>1. /\ f.chain \in Seq(2..(Clusters + 1)) /\ Len(f.chain) \in 1..Clusters
      /\ f.size \in Nat /\ f.size <= Len(f.chain) * ClusterSize
  BY DEF WellFormed
<1>2. Clusters \in Nat
  BY Constants
<1>3. \A k \in 1..Len(f.chain) : f.chain[k] \in 2..(Clusters + 1)
  BY <1>1, ElementOfSeq
<1>4. PICK n \in Nat : n = Len(f.chain) /\ 1 <= n /\ n <= Clusters
  BY <1>1, <1>2
<1>5. f.chain # << >> /\ Head(f.chain) = f.chain[1]
  BY <1>1, <1>4
<1> QED
  BY <1>1, <1>3, <1>4, <1>5

\* c is followed by n in a chain.
Linked(v, c, n) ==
  \E f \in Files(v), k \in 1..Clusters :
    k < Len(f.chain) /\ f.chain[k] = c /\ f.chain[k + 1] = n

\* The table has the links of the chains, and their ends.
LEMMA TableFact ==
  ASSUME NEW v, WellFormed(v), NEW f \in Files(v), NEW k \in 1..Len(f.chain)
  PROVE  Table(v)[f.chain[k]] = IF k < Len(f.chain) THEN f.chain[k + 1] ELSE v.eoc
<1>1. PICK n \in Nat : n = Len(f.chain) /\ 1 <= n /\ n <= Clusters
  BY ChainFact
<1>2. PICK c : c = f.chain[k]
  OBVIOUS
<1>3. c \in 2..(Clusters + 1) /\ k \in Nat /\ 1 <= k /\ k <= n /\ Clusters \in Nat
  BY <1>1, <1>2, ChainFact, Constants
<1>4. c \in 0..(Clusters + 3) /\ c # 0
  BY <1>3
<1>5. \A g \in Files(v) : \A j \in 1..Len(g.chain) : g.chain[j] = c => g = f /\ j = k
  BY <1>2 DEF WellFormed
<1>6. CASE k < n
  <2>1. PICK d : d = f.chain[k + 1]
    OBVIOUS
  <2>2. k + 1 \in 1..Len(f.chain) /\ k \in 1..Clusters
    BY <1>1, <1>3, <1>6
  <2>3. d \in 2..(Clusters + 1)
    BY <2>1, <2>2, ChainFact
  <2>4. Linked(v, c, d)
    BY <1>1, <1>2, <1>6, <2>1, <2>2 DEF Linked
  <2>5. ASSUME NEW m, Linked(v, c, m) PROVE m = d
    <3>1. PICK g \in Files(v), j \in 1..Clusters :
            j < Len(g.chain) /\ g.chain[j] = c /\ g.chain[j + 1] = m
      BY <2>5 DEF Linked
    <3>2. j \in 1..Len(g.chain)
      <4>1. Len(g.chain) \in Nat /\ j \in Nat /\ 1 <= j
        BY <1>3, <3>1, ChainFact
      <4> QED
        BY <3>1, <4>1
    <3>3. g = f /\ j = k
      BY <1>5, <3>1, <3>2
    <3> QED
      BY <2>1, <3>1, <3>3
  <2>6. Table(v)[c] = CHOOSE m \in 2..(Clusters + 1) : Linked(v, c, m)
    BY <1>4, <2>4 DEF Table, Linked
  <2>7. (CHOOSE m \in 2..(Clusters + 1) : Linked(v, c, m)) = d
    BY <2>3, <2>4, <2>5
  <2> QED
    BY <1>1, <1>2, <1>6, <2>1, <2>6, <2>7
<1>7. CASE k = n
  <2>1. ~(\E g \in Files(v), j \in 1..Clusters : j < Len(g.chain) /\ g.chain[j] = c)
    <3> SUFFICES ASSUME NEW g \in Files(v), NEW j \in 1..Clusters,
                        j < Len(g.chain), g.chain[j] = c
                 PROVE  FALSE
      OBVIOUS
    <3>1. j \in 1..Len(g.chain)
      <4>1. Len(g.chain) \in Nat /\ j \in Nat /\ 1 <= j
        BY <1>3, ChainFact
      <4> QED
        BY <4>1
    <3>2. g = f /\ j = k
      BY <1>5, <3>1
    <3> QED
      BY <1>1, <1>3, <1>7, <3>2
  <2>2. f.chain # << >> /\ f.chain[Len(f.chain)] = c
    BY <1>1, <1>2, <1>7, ChainFact
  <2>3. Table(v)[c] = v.eoc
    BY <1>4, <2>1, <2>2 DEF Table
  <2> QED
    BY <1>1, <1>2, <1>7, <2>3
<1> QED
  BY <1>1, <1>3, <1>6, <1>7

\* Its entries have twelve bits.
LEMMA TableRange ==
  ASSUME NEW v, WellFormed(v), NEW c \in 0..(Clusters + 3)
  PROVE  Table(v)[c] \in Entries12
<1>1. /\ MEDIA \in 0..4095 /\ v.eoc \in 0..4095 /\ Clusters \in Nat /\ Clusters <= 4084
  BY Constants DEF WellFormed
<1>2. CASE c = 0
  BY <1>1, <1>2 DEF Table, Entries12
<1>3. CASE c # 0 /\ \E f \in Files(v), k \in 1..Clusters : k < Len(f.chain) /\ f.chain[k] = c
  <2>1. PICK f \in Files(v), k \in 1..Clusters : k < Len(f.chain) /\ f.chain[k] = c
    BY <1>3
  <2>2. k + 1 \in 1..Len(f.chain)
    <3>1. Len(f.chain) \in Nat /\ k \in Nat /\ 1 <= k
      BY <1>1, ChainFact
    <3> QED
      BY <2>1, <3>1
  <2>3. f.chain[k + 1] \in 2..(Clusters + 1)
    BY <2>2, ChainFact
  <2>4. \E n \in 2..(Clusters + 1) : Linked(v, c, n)
    BY <2>1, <2>3 DEF Linked
  <2>5. Table(v)[c] = CHOOSE n \in 2..(Clusters + 1) : Linked(v, c, n)
    BY <1>3 DEF Table, Linked
  <2>6. Table(v)[c] \in 2..(Clusters + 1)
    BY <2>4, <2>5
  <2>7. PICK n : n = Table(v)[c]
    OBVIOUS
  <2>8. n \in 0..4095
    <3>1. n \in 2..(Clusters + 1)
      BY <2>6, <2>7
    <3>2. Clusters \in Nat /\ Clusters <= 4084
      BY Constants
    <3> QED
      BY <3>1, <3>2
  <2> QED
    BY <2>7, <2>8 DEF Entries12
<1>4. CASE c # 0 /\ ~(\E f \in Files(v), k \in 1..Clusters : k < Len(f.chain) /\ f.chain[k] = c)
  <2>1. Table(v)[c] = v.eoc \/ Table(v)[c] = 0
    BY <1>4 DEF Table
  <2> QED
    BY <1>1, <2>1 DEF Entries12
<1> QED
  BY <1>2, <1>3, <1>4

\* What readFile reads in the table that readFat read is the table's entry.
LEMMA FatFact ==
  ASSUME WellFormed(volume), NEW c \in 2..(Clusters + 1),
         fat = Sectors(ReservedSectors, SectorsPerFat)
  PROVE  Following(c) = {Table(volume)[c]}
<1>1. PICK size \in Nat : size = SectorsPerFat * BytesPerSector
  BY Constants
<1>2. /\ ReservedSectors \in Nat /\ SectorsPerFat \in Nat /\ Clusters \in Nat
      /\ (3 * (Clusters + 3)) \div 2 <= size
  BY <1>1, Constants
<1>3. /\ FatStart \in Nat /\ RootStart \in Nat /\ FatStart + size <= RootStart
      /\ ReservedSectors * BytesPerSector = FatStart
  BY <1>1, Layout DEF FatStart
<1>4. Len(fat) = size /\ \A k \in 1..size : fat[k] = ByteAt(volume, FatStart + k - 1)
  BY <1>1, <1>2, <1>3, SectorsFact
<1>5. PICK i \in Nat : i = (3 * c) \div 2
  BY <1>2
<1>6. i + 2 <= size /\ i + 2 <= Len(fat) /\ c \in Nat
  <2>1. c \in Nat /\ c <= Clusters + 1
    BY <1>2
  <2>2. i + 2 <= (3 * (Clusters + 3)) \div 2
    BY <1>2, <1>5, <2>1
  <2> QED
    BY <1>1, <1>2, <1>4, <1>5, <2>1, <2>2
<1>7. ASSUME NEW k \in {i, i + 1} PROVE fat[k + 1] = PackedByte(Table(volume), k)
  <2>1. k \in Nat /\ k < size /\ k + 1 \in 1..size
    BY <1>5, <1>6
  <2>2. fat[k + 1] = ByteAt(volume, FatStart + k)
    <3>1. FatStart + (k + 1) - 1 = FatStart + k
      BY <1>3, <2>1
    <3>2. fat[k + 1] = ByteAt(volume, FatStart + (k + 1) - 1)
      BY <1>4, <2>1
    <3> QED
      BY <3>1, <3>2
  <2>3. k % size = k
    BY <2>1
  <2>4. 2 * (k \div 3) < Clusters + 3
    <3>1. c \in Nat /\ c <= Clusters + 1 /\ Clusters \in Nat
      BY <1>2
    <3> QED
      BY <1>5, <2>1, <3>1
  <2>5. PICK a : a = FatStart + k
    OBVIOUS
  <2>6. /\ ~(a < FatStart) /\ a < RootStart
        /\ (a - FatStart) % (SectorsPerFat * BytesPerSector) = k
    <3>1. ~(a < FatStart) /\ a < RootStart /\ a - FatStart = k
      BY <1>3, <2>1, <2>5
    <3> QED
      BY <1>1, <2>3, <3>1, Zenon
  <2>7. ByteAt(volume, a) = PackedByte(Table(volume), k)
    BY <2>4, <2>6 DEF ByteAt
  <2> QED
    BY <2>2, <2>5, <2>7
<1>8. \A j \in {c - 1, c, c + 1} \cap Nat : Table(volume)[j] \in Entries12
  <2>1. \A j \in {c - 1, c, c + 1} \cap Nat : j \in 0..(Clusters + 3)
    BY <1>2
  <2> QED
    BY <2>1, TableRange
<1>9. Next12(fat, c) = Table(volume)[c]
  <2>1. PICK t : t = Table(volume)
    OBVIOUS
  <2>2. \A j \in {c - 1, c, c + 1} \cap Nat : t[j] \in Entries12
    BY <1>8, <2>1
  <2>3. \A k \in {(3 * c) \div 2, (3 * c) \div 2 + 1} : fat[k + 1] = PackedByte(t, k)
    BY <1>5, <1>7, <2>1
  <2> QED
    BY <1>6, <2>1, <2>2, <2>3, TwelveBits
<1> QED
  BY <1>5, <1>6, <1>9 DEF Following

----------------------------------------------------------------------------
(* The root directory and the data area. *)

\* findFile compares the names of the entries as they are on the disk.
LEMMA RootFact ==
  ASSUME root = Sectors(RootLba, RootCount), NEW i \in 0..(DirEntryCount - 1)
  PROVE  Entries[i] = DirEntry(volume, i)
<1>1. /\ DIRENT \in Nat \ {0} /\ DirEntryCount \in Nat
      /\ i \in Nat /\ i + 1 <= DirEntryCount
  BY Constants
<1>2. PICK x \in Nat, all \in Nat : x = i * DIRENT /\ all = DIRENT * DirEntryCount /\ x < all
  <2>1. i * DIRENT \in Nat /\ DIRENT * DirEntryCount \in Nat
    BY <1>1
  <2>2. (i + 1) * DIRENT <= DirEntryCount * DIRENT
    BY <1>1
  <2>3. i * DIRENT + DIRENT = (i + 1) * DIRENT /\ DIRENT * DirEntryCount = DirEntryCount * DIRENT
    BY <1>1
  <2>4. i * DIRENT < DIRENT * DirEntryCount
    BY <1>1, <2>1, <2>2, <2>3
  <2> QED
    BY <2>1, <2>4
<1>3. PICK size \in Nat : size = RootCount * BytesPerSector /\ all <= size
  <2>1. RootCount * BytesPerSector \in Nat
    BY Layout, Constants
  <2> QED
    BY <1>2, <2>1, Layout
<1>4. /\ FatStart \in Nat /\ RootStart \in Nat /\ FatStart <= RootStart
      /\ RootLba * BytesPerSector = RootStart
  <2>1. SectorsPerFat * BytesPerSector \in Nat
    BY Constants
  <2> QED
    BY <2>1, Layout
<1>5. root[x + 1] = ByteAt(volume, RootStart + (x + 1) - 1)
  <2>1. x + 1 \in 1..size
    BY <1>2, <1>3
  <2>2. \A k \in 1..size : root[k] = ByteAt(volume, RootStart + k - 1)
    <3>1. RootLba \in Nat /\ RootCount \in Nat
      BY Layout
    <3>2. \A k \in 1..(RootCount * BytesPerSector) :
            Sectors(RootLba, RootCount)[k] = ByteAt(volume, RootLba * BytesPerSector + k - 1)
      BY <3>1, SectorsFact
    <3> QED
      BY <1>3, <1>4, <3>2
  <2> QED
    BY <2>1, <2>2
<1>6. PICK a \in Nat : a = RootStart + x
  BY <1>2, <1>4
<1>7. RootStart + (x + 1) - 1 = a /\ a - RootStart = x
  BY <1>2, <1>4, <1>6
<1>8. x % DIRENT = 0 /\ x \div DIRENT = i
  <2>1. 0 < DIRENT /\ x = DIRENT * i + 0
    BY <1>1, <1>2
  <2> QED
    BY <1>1, <2>1, Divide
<1>9. ~(a < FatStart) /\ ~(a < RootStart) /\ a < RootStart + all
  BY <1>2, <1>4, <1>6
<1>10. ByteAt(volume, a) = DirEntry(volume, i)
  <2>1. /\ a < RootStart + DIRENT * DirEntryCount
        /\ (a - RootStart) % DIRENT = 0 /\ (a - RootStart) \div DIRENT = i
    BY <1>2, <1>7, <1>8, <1>9, Zenon
  <2> QED
    BY <1>9, <2>1 DEF ByteAt
<1> QED
  BY <1>2, <1>5, <1>7, <1>10 DEF Entries

\* The sectors of a cluster are its bytes on the disk.
LEMMA DataFact ==
  ASSUME NEW c \in 2..(Clusters + 1)
  PROVE  LET s == Sectors(Lba(c), SectorsPerCluster)
         IN  /\ s \in Seq(Nat) /\ Len(s) = ClusterSize
             /\ \A k \in 1..ClusterSize : s[k] = DataStart + (c - 2) * ClusterSize + (k - 1)
             /\ volume.length = WholeLength => CanRead(Lba(c), SectorsPerCluster)
<1> DEFINE s == Sectors(Lba(c), SectorsPerCluster)
<1>1. /\ BytesPerSector \in Nat \ {0} /\ SectorsPerCluster \in Nat \ {0}
      /\ Clusters \in Nat /\ DIRENT \in Nat /\ DirEntryCount \in Nat
      /\ RootDirectoryEnd \in Nat /\ DataStart \in Nat /\ RootDirectoryEnd * BytesPerSector = DataStart
  BY Constants, Layout
<1>2. PICK n \in Nat : n = c - 2 /\ n < Clusters
  BY <1>1
<1>3. PICK size \in Nat \ {0} : size = ClusterSize /\ SectorsPerCluster * BytesPerSector = size
  BY Constants DEF ClusterSize
<1>4. PICK at \in Nat : at = DataStart + n * size
  <2>1. n * size \in Nat
    BY <1>2, <1>3
  <2> QED
    BY <1>1, <2>1
<1>5. PICK lba \in Nat : lba = Lba(c) /\ lba * BytesPerSector = at
  <2>1. n * SectorsPerCluster \in Nat
    BY <1>1, <1>2
  <2>2. Lba(c) = RootDirectoryEnd + n * SectorsPerCluster
    BY <1>2 DEF Lba
  <2>3. (RootDirectoryEnd + n * SectorsPerCluster) * BytesPerSector
          = RootDirectoryEnd * BytesPerSector + n * (SectorsPerCluster * BytesPerSector)
    BY <1>1, <1>2
  <2> QED
    BY <1>1, <1>3, <1>4, <2>1, <2>2, <2>3
<1>6. /\ FatStart \in Nat /\ RootStart \in Nat /\ FatStart <= RootStart
      /\ RootStart + DIRENT * DirEntryCount <= DataStart /\ DIRENT * DirEntryCount \in Nat
  <2>1. SectorsPerFat * BytesPerSector \in Nat /\ DIRENT * DirEntryCount \in Nat
    BY Constants
  <2>2. RootCount * BytesPerSector \in Nat
    BY Layout, Constants
  <2>3. /\ FatStart \in Nat /\ RootStart \in Nat
        /\ FatStart + SectorsPerFat * BytesPerSector <= RootStart
        /\ DIRENT * DirEntryCount <= RootCount * BytesPerSector
        /\ DataStart = RootStart + RootCount * BytesPerSector
    BY Layout
  <2> QED
    BY <2>1, <2>2, <2>3
<1>7. ASSUME NEW a \in Nat, DataStart <= a PROVE ByteAt(volume, a) = a
  <2>1. PICK all \in Nat : all = DIRENT * DirEntryCount
    BY <1>6
  <2>2. ~(a < FatStart) /\ ~(a < RootStart) /\ ~(a < RootStart + all)
    BY <1>1, <1>6, <1>7, <2>1
  <2> QED
    BY <2>1, <2>2 DEF ByteAt
<1>8. ASSUME NEW k \in 1..size PROVE s[k] = at + (k - 1) /\ s[k] \in Nat
  <2>1. s[k] = ByteAt(volume, lba * BytesPerSector + k - 1)
    BY <1>1, <1>3, <1>5, SectorsFact
  <2>2. lba * BytesPerSector + k - 1 = at + (k - 1)
    BY <1>5
  <2>3. at + (k - 1) \in Nat /\ DataStart <= at + (k - 1)
    <3>1. n * size \in Nat
      BY <1>2, <1>3
    <3> QED
      BY <1>1, <1>4, <3>1
  <2>4. s[k] = ByteAt(volume, at + (k - 1))
    BY <2>1, <2>2
  <2> QED
    BY <1>7, <2>3, <2>4
<1>9. Len(s) = size
  BY <1>1, <1>3, <1>5, SectorsFact
<1>10. s \in Seq(Nat)
  <2>1. s = [k \in 1..size |-> ByteAt(volume, lba * BytesPerSector + k - 1)]
    BY <1>3, <1>5 DEF Sectors
  <2>2. s \in [1..size -> Nat]
    <3> HIDE DEF s
    <3> QED
      BY <1>8, <2>1
  <2> HIDE DEF s
  <2> QED
    BY <2>2, SeqDef
<1>11. \A k \in 1..size : s[k] = DataStart + (c - 2) * size + (k - 1)
  <2>1. at = DataStart + (c - 2) * size
    BY <1>2, <1>4
  <2> HIDE DEF s
  <2> QED
    BY <1>8, <2>1
<1>12. volume.length = WholeLength => CanRead(lba, SectorsPerCluster)
  <2>1. WholeLength = DataStart + Clusters * size
    BY <1>3, Layout
  <2>2. (lba + SectorsPerCluster) * BytesPerSector = at + size
    BY <1>1, <1>3, <1>5
  <2>3. n * size \in Nat /\ (n + 1) * size <= Clusters * size /\ (n + 1) * size = n * size + size
        /\ Clusters * size \in Nat
    BY <1>1, <1>2, <1>3
  <2>4. at + size <= DataStart + Clusters * size
    BY <1>1, <1>4, <2>3
  <2> QED
    BY <1>5, <2>1, <2>2, <2>4 DEF CanRead
<1> QED
  <2> HIDE DEF s
  <2>1. /\ s \in Seq(Nat) /\ Len(s) = ClusterSize
        /\ \A k \in 1..ClusterSize : s[k] = DataStart + (c - 2) * ClusterSize + (k - 1)
        /\ volume.length = WholeLength => CanRead(Lba(c), SectorsPerCluster)
    BY <1>3, <1>5, <1>9, <1>10, <1>11, <1>12
  <2> QED
    BY <2>1 DEF s

----------------------------------------------------------------------------
(* What main prints. *)

\* Where the k-th byte of a file is, and that readFile has its first n clusters.
Place(f, k) ==
  DataStart + (f.chain[((k - 1) \div ClusterSize) + 1] - 2) * ClusterSize
    + ((k - 1) % ClusterSize)
HasRead(f, n) ==
  Len(buffer) = n * ClusterSize /\ \A k \in 1..(n * ClusterSize) : buffer[k] = Place(f, k)

\* readFile is in the middle of the wanted file's chain, or at its end; what it
\* has of the table and the root directory is what is on the disk.
InChain(f) == \E n \in Nat : n < Len(f.chain) /\ cluster = f.chain[n + 1] /\ HasRead(f, n)
FileInv ==
  /\ volume \in Volumes /\ asked \in Names /\ buffer \in Seq(Nat)
  /\ pc \in Steps
  /\ pc \in {"boot", "fat", "root", "find"} => buffer = << >>
  /\ pc \in {"root", "find", "read"} => fat = Sectors(ReservedSectors, SectorsPerFat)
  /\ pc = "find" => root = Sectors(RootLba, RootCount)
  /\ pc = "read" => \E f \in Wanted : entry.size = f.size /\ InChain(f)
  /\ pc = "print" => \E f \in Wanted : entry.size = f.size /\ HasRead(f, Len(f.chain))
  /\ pc = "done" /\ status = 0 => \E f \in Wanted : printed = Content(f)
  /\ pc = "done" /\ status # 0 => volume.length # WholeLength \/ Wanted = {}

\* A cluster that readFile appends.
LEMMA ReadFact ==
  ASSUME WellFormed(volume), buffer \in Seq(Nat), NEW f \in Files(volume),
         NEW n \in Nat, n < Len(f.chain), cluster = f.chain[n + 1], HasRead(f, n)
  PROVE  LET got == buffer \o Sectors(Lba(cluster), SectorsPerCluster)
         IN  /\ got \in Seq(Nat) /\ Len(got) = (n + 1) * ClusterSize
             /\ \A k \in 1..((n + 1) * ClusterSize) : got[k] = Place(f, k)
<1> DEFINE s == Sectors(Lba(cluster), SectorsPerCluster)
           got == buffer \o s
<1>1. cluster \in 2..(Clusters + 1)
  <2>1. Len(f.chain) \in Nat
    BY ChainFact
  <2>2. n + 1 \in 1..Len(f.chain)
    BY <2>1
  <2> QED
    BY <2>2, ChainFact
<1>2. PICK size \in Nat \ {0} : size = ClusterSize
  BY Constants
<1>3. /\ s \in Seq(Nat) /\ Len(s) = size
      /\ \A k \in 1..size : s[k] = DataStart + (cluster - 2) * size + (k - 1)
  BY <1>1, <1>2, DataFact
<1>4. PICK m \in Nat : m = n * size /\ (n + 1) * size = m + size /\ m = size * n
  BY <1>2
<1>5. Len(buffer) = m /\ \A k \in 1..m : buffer[k] = Place(f, k)
  BY <1>2, <1>4 DEF HasRead
<1> HIDE DEF s
<1>6. /\ got \in Seq(Nat) /\ Len(got) = m + size
      /\ \A k \in 1..(m + size) : got[k] = IF k <= m THEN buffer[k] ELSE s[k - m]
  BY <1>3, <1>5, ConcatProperties
<1> HIDE DEF got
<1>7. ASSUME NEW k \in 1..(m + size) PROVE got[k] = Place(f, k)
  <2>1. CASE k <= m
    BY <1>4, <1>5, <1>6, <2>1
  <2>2. CASE k > m
    <3>1. PICK r \in Nat : r = k - m - 1 /\ r < size /\ k - m \in 1..size
      <4>1. k - m \in 1..size
        BY <1>4, <2>2
      <4> QED
        BY <1>4, <2>2, <4>1
    <3>2. got[k] = s[k - m]
      BY <1>4, <1>6, <2>2
    <3>3. s[k - m] = DataStart + (cluster - 2) * size + ((k - m) - 1)
      BY <1>3, <3>1
    <3>4. k - 1 = size * n + r /\ (k - m) - 1 = r
      BY <1>4, <2>2, <3>1
    <3>5. (k - 1) \div size = n /\ (k - 1) % size = r
      BY <3>1, <3>4, Divide
    <3>6. Place(f, k) = DataStart + (f.chain[n + 1] - 2) * size + r
      BY <1>2, <3>5 DEF Place
    <3> QED
      BY <3>2, <3>3, <3>4, <3>6
  <2> QED
    BY <1>4, <2>1, <2>2
<1> QED
  BY <1>2, <1>4, <1>6, <1>7 DEF got, s

\* main prints the file when readFile has all of it.
LEMMA PrintFact ==
  ASSUME WellFormed(volume), buffer \in Seq(Nat), NEW f \in Files(volume), HasRead(f, Len(f.chain)),
         entry.size = f.size
  PROVE  SubSeq(buffer, 1, entry.size) = Content(f)
<1>1. PICK n \in Nat, z \in Nat : n = Len(f.chain) /\ z = f.size /\ z <= n * ClusterSize
  BY ChainFact
<1>2. PICK m \in Nat : m = n * ClusterSize /\ z <= m
  BY <1>1, Constants
<1>3. Len(buffer) = m /\ \A k \in 1..m : buffer[k] = Place(f, k)
  BY <1>1, <1>2 DEF HasRead
<1>4. SubSeq(buffer, 1, z) = [k \in 1..z |-> buffer[k]]
  BY <1>2, <1>3
<1>5. Content(f) = [k \in 1..z |-> Place(f, k)]
  BY <1>1 DEF Content, Place
<1>6. \A k \in 1..z : buffer[k] = Place(f, k)
  BY <1>2, <1>3
<1> QED
  BY <1>1, <1>4, <1>5, <1>6

\* The end of main: it found the file, or says why not.
LEMMA FindStep ==
  ASSUME WellFormed(volume), FileInv, findFile
  PROVE  FileInv'
<1>1. /\ pc = "find" /\ UNCHANGED <<volume, asked, fat, root, buffer, printed>>
      /\ buffer = << >> /\ fat = Sectors(ReservedSectors, SectorsPerFat)
      /\ root = Sectors(RootLba, RootCount)
      /\ volume \in Volumes /\ asked \in Names /\ asked # NoName
  BY Constants DEF FileInv, findFile, Local
<1>2. PICK dir : dir = Entries
  OBVIOUS
<1>3. DOMAIN dir = 0..(DirEntryCount - 1) /\ \A i \in DOMAIN dir : dir[i] = DirEntry(volume, i)
  <2>1. DOMAIN Entries = 0..(DirEntryCount - 1)
    BY DEF Entries
  <2> QED
    BY <1>1, <1>2, <2>1, RootFact
<1>4. PICK n \in Nat : n = Len(volume.files) /\ n <= DirEntryCount
  BY Constants DEF WellFormed
<1>5. \A i \in DOMAIN dir : dir[i].name = asked =>
        i \in 0..(n - 1) /\ dir[i] = DirEntry(volume, i)
  <2> SUFFICES ASSUME NEW i \in DOMAIN dir, dir[i].name = asked PROVE i \in 0..(n - 1)
    BY <1>3
  <2>1. ~(i < Len(volume.files)) => DirEntry(volume, i).name = NoName
    BY DEF DirEntry
  <2>2. i < n
    BY <1>1, <1>3, <1>4, <2>1
  <2> QED
    BY <1>3, <1>4, <2>2, Constants
<1>6. CASE \E i \in DOMAIN dir : dir[i].name = asked
  <2>1. PICK i \in DOMAIN dir : /\ dir[i].name = asked
                                /\ entry' = dir[i] /\ cluster' = dir[i].first /\ pc' = "read"
    <3>1. \E i \in DOMAIN dir : dir[i].name = asked /\ \A j \in 0..(i - 1) : dir[j].name # asked
      <4> DEFINE S == {i \in DOMAIN dir : dir[i].name = asked}
      <4>1. S \subseteq Nat /\ S # {}
        BY <1>3, <1>6, Constants
      <4> HIDE DEF S
      <4>2. PICK i \in S : \A j \in S : ~(<<j, i>> \in OpToRel(<, Nat))
        BY <4>1, WFMin, NatLessThanWellFounded
      <4>3. \A j \in S : ~(j < i)
        BY <4>1, <4>2 DEF OpToRel
      <4>4. i \in DOMAIN dir /\ dir[i].name = asked /\ \A j \in DOMAIN dir : dir[j].name = asked => ~(j < i)
        BY <4>2, <4>3 DEF S
      <4>5. \A j \in 0..(i - 1) : j \in DOMAIN dir /\ j < i
        BY <1>3, <4>4, Constants
      <4> QED
        BY <4>4, <4>5
    <3>2. PICK i : i = CHOOSE h \in DOMAIN dir :
                         dir[h].name = asked /\ \A j \in 0..(h - 1) : dir[j].name # asked
      OBVIOUS
    <3>3. i \in DOMAIN dir /\ dir[i].name = asked
      BY <3>1, <3>2
    <3>4. entry' = dir[i] /\ cluster' = dir[i].first /\ pc' = "read"
      BY <1>2, <1>6, <3>2 DEF findFile
    <3> QED
      BY <3>3, <3>4
  <2>2. i \in 0..(n - 1) /\ dir[i] = DirEntry(volume, i)
    BY <1>5, <2>1
  <2>3. i \in Nat /\ i < Len(volume.files) /\ i + 1 \in 1..n
    BY <1>4, <2>2
  <2>4. PICK f : f = volume.files[i + 1]
    OBVIOUS
  <2>5. f \in Files(volume) /\ Len(f.chain) \in Nat /\ 0 < Len(f.chain) /\ Head(f.chain) = f.chain[1] /\ f.chain # << >>
    <3>1. f \in Files(volume)
      BY <1>4, <2>3, <2>4 DEF Files
    <3>2. Len(f.chain) \in Nat /\ 1 <= Len(f.chain) /\ Head(f.chain) = f.chain[1] /\ f.chain # << >>
      BY <3>1, ChainFact
    <3> QED
      BY <3>1, <3>2
  <2>6. DirEntry(volume, i) = [name |-> f.name, size |-> f.size, first |-> f.chain[1]]
    BY <2>3, <2>4, <2>5 DEF DirEntry
  <2>7. f.name = asked /\ entry'.size = f.size /\ cluster' = f.chain[1]
    BY <2>1, <2>2, <2>6
  <2>8. f \in Wanted
    BY <2>5, <2>7 DEF Wanted
  <2>9. HasRead(f, 0)'
    <3>1. 0 * ClusterSize = 0
      BY Constants
    <3>2. Len(buffer') = 0
      BY <1>1
    <3> QED
      BY <3>1, <3>2 DEF HasRead
  <2>10. InChain(f)'
    <3>1. 0 \in Nat /\ 0 < Len(f.chain) /\ cluster' = f.chain[0 + 1]
      BY <2>5, <2>7
    <3> QED
      BY <2>9, <3>1 DEF InChain
  <2>11. Wanted' = Wanted
    BY <1>1 DEF Wanted
  <2>12. \E g \in Wanted' : entry'.size = g.size /\ InChain(g)'
    BY <2>7, <2>8, <2>10, <2>11
  <2>13. buffer' \in Seq(Nat) /\ fat' = fat /\ "read" \in Steps
    BY <1>1 DEF FileInv, Steps
  <2> QED
    BY <1>1, <2>1, <2>12, <2>13 DEF FileInv, Sectors
<1>7. CASE ~(\E i \in DOMAIN dir : dir[i].name = asked)
  <2>1. pc' = "done" /\ status' = -5
    BY <1>2, <1>7 DEF findFile, Exit
  <2>2. Wanted = {}
    <3> SUFFICES ASSUME NEW f \in Wanted PROVE FALSE
      OBVIOUS
    <3>1. PICK k \in 1..n : f = volume.files[k] /\ f.name = asked
      BY <1>4 DEF Wanted, Files
    <3>2. PICK i \in Nat : i = k - 1 /\ i < n /\ i + 1 = k
      OBVIOUS
    <3>3. i \in DOMAIN dir
      BY <1>3, <1>4, <3>2, Constants
    <3>4. DirEntry(volume, i).name = asked
      BY <1>4, <3>1, <3>2 DEF DirEntry
    <3> QED
      BY <1>3, <1>7, <3>3, <3>4
  <2>3. Wanted' = Wanted
    BY <1>1 DEF Wanted
  <2>4. buffer' \in Seq(Nat) /\ "done" \in Steps /\ -5 # 0
    BY <1>1 DEF FileInv, Steps
  <2> QED
    BY <1>1, <2>1, <2>2, <2>3, <2>4 DEF FileInv
<1> QED
  BY <1>6, <1>7

LEMMA ReadStep ==
  ASSUME WellFormed(volume), FileInv, readFile
  PROVE  FileInv'
<1>1. /\ pc = "read" /\ UNCHANGED <<volume, asked, fat, root, entry, printed>>
      /\ fat = Sectors(ReservedSectors, SectorsPerFat)
      /\ volume \in Volumes /\ asked \in Names /\ buffer \in Seq(Nat)
  BY DEF FileInv, readFile, Local
<1>2. PICK f \in Wanted : entry.size = f.size /\ InChain(f)
  BY <1>1 DEF FileInv
<1>3. PICK n \in Nat : n < Len(f.chain) /\ cluster = f.chain[n + 1] /\ HasRead(f, n)
  BY <1>2 DEF InChain
<1>4. f \in Files(volume) /\ Wanted' = Wanted
  BY <1>1 DEF Wanted
<1>5. PICK len \in Nat : len = Len(f.chain) /\ n + 1 \in 1..len /\ n + 1 \in Nat
  BY <1>3, <1>4, ChainFact
<1>6. cluster \in 2..(Clusters + 1)
  BY <1>3, <1>4, <1>5, ChainFact
<1>7. /\ {"read", "print", "overrun", "done"} \subseteq Steps /\ -5 # 0
      /\ Sectors(ReservedSectors, SectorsPerFat)' = Sectors(ReservedSectors, SectorsPerFat)
  BY <1>1 DEF Steps, Sectors
<1> DEFINE got == buffer \o Sectors(Lba(cluster), SectorsPerCluster)
<1>8. /\ got \in Seq(Nat) /\ Len(got) = (n + 1) * ClusterSize
      /\ \A k \in 1..((n + 1) * ClusterSize) : got[k] = Place(f, k)
  BY <1>1, <1>3, <1>4, ReadFact
<1>9. CASE ~CanRead(Lba(cluster), SectorsPerCluster)
  <2>1. pc' = "done" /\ status' = -5 /\ buffer' = buffer
    BY <1>9 DEF readFile, ReadFailed, Exit
  <2>2. volume.length # WholeLength
    BY <1>6, <1>9, DataFact
  <2> QED
    BY <1>1, <1>7, <2>1, <2>2 DEF FileInv
<1>10. CASE CanRead(Lba(cluster), SectorsPerCluster) /\ Len(got) > Room(entry)
  <2>1. pc' = "overrun" /\ buffer' = buffer
    BY <1>10 DEF readFile
  <2> QED
    BY <1>1, <1>7, <2>1 DEF FileInv
<1>11. CASE CanRead(Lba(cluster), SectorsPerCluster) /\ ~(Len(got) > Room(entry))
  <2>1. PICK c \in Following(cluster) :
          buffer' = got /\ cluster' = c /\ pc' = IF GoesOn(c) THEN "read" ELSE "print"
    BY <1>11 DEF readFile
  <2>2. c = IF n + 1 < len THEN f.chain[(n + 1) + 1] ELSE volume.eoc
    <3>1. c = Table(volume)[cluster]
      BY <1>1, <1>6, <2>1, FatFact
    <3> QED
      BY <1>3, <1>4, <1>5, <3>1, TableFact
  <2>3. HasRead(f, n + 1)'
    <3> HIDE DEF got
    <3>1. Len(buffer') = (n + 1) * ClusterSize
      BY <1>8, <2>1
    <3>2. \A k \in 1..((n + 1) * ClusterSize) : buffer'[k] = Place(f, k)
      BY <1>8, <2>1
    <3> QED
      BY <3>1, <3>2 DEF HasRead
  <2>4. buffer' \in Seq(Nat)
    BY <1>8, <2>1
  <2>5. CASE n + 1 < len
    <3>1. c \in 2..(Clusters + 1)
      <4>1. (n + 1) + 1 \in 1..len
        BY <1>5, <2>5
      <4> QED
        BY <1>4, <1>5, <2>2, <2>5, <4>1, ChainFact
    <3>2. GoesOn(c)
      <4>1. Clusters \in Nat /\ Clusters <= 4084
        BY Constants
      <4> QED
        BY <3>1, <4>1 DEF GoesOn
    <3>3. pc' = "read" /\ cluster' = f.chain[(n + 1) + 1]
      BY <2>1, <2>2, <2>5, <3>2
    <3>4. InChain(f)'
      BY <1>5, <2>3, <2>5, <3>3 DEF InChain
    <3> QED
      BY <1>1, <1>2, <1>4, <1>7, <2>4, <3>3, <3>4 DEF FileInv
  <2>6. CASE ~(n + 1 < len)
    <3>1. ~GoesOn(c)
      <4>1. volume.eoc \in 4088..4095
        BY DEF WellFormed
      <4>2. c = volume.eoc
        BY <2>2, <2>6
      <4> QED
        BY <4>1, <4>2 DEF GoesOn
    <3>2. pc' = "print" /\ n + 1 = len
      BY <1>5, <2>1, <2>6, <3>1
    <3>3. HasRead(f, Len(f.chain))'
      BY <1>5, <2>3, <3>2
    <3> QED
      BY <1>1, <1>2, <1>4, <1>7, <2>4, <3>2, <3>3 DEF FileInv
  <2> QED
    BY <2>5, <2>6
<1> QED
  BY <1>9, <1>10, <1>11

LEMMA PrintStep ==
  ASSUME WellFormed(volume), FileInv, PrintBuffer
  PROVE  FileInv'
<1>1. /\ pc = "print" /\ UNCHANGED <<volume, asked, buffer, entry>> /\ pc' = "done" /\ status' = 0
      /\ volume \in Volumes /\ asked \in Names /\ buffer \in Seq(Nat)
      /\ printed' = SubSeq(buffer, 1, entry.size)
  BY DEF FileInv, PrintBuffer, Exit, Local
<1>2. PICK f \in Wanted : entry.size = f.size /\ HasRead(f, Len(f.chain))
  BY <1>1 DEF FileInv
<1>3. f \in Files(volume) /\ Wanted' = Wanted
  BY <1>1 DEF Wanted
<1>4. printed' = Content(f)
  BY <1>1, <1>2, <1>3, PrintFact
<1> QED
  BY <1>1, <1>3, <1>4 DEF FileInv, Steps

\* The steps before the file is looked for; none fails on an image that is all
\* there.
LEMMA FirstSteps ==
  ASSUME FileInv, readBootSector \/ readFat \/ readRootDirectory
  PROVE  FileInv'
<1>1. /\ UNCHANGED <<volume, asked, buffer>> /\ buffer = << >> /\ buffer' = << >>
      /\ volume \in Volumes /\ asked \in Names /\ buffer' \in Seq(Nat)
      /\ pc \in {"boot", "fat", "root"}
  BY DEF FileInv, readBootSector, readFat, readRootDirectory, Local
<1>2. /\ Steps = {"boot", "fat", "root", "find", "read", "print", "done", "overrun"}
      /\ -2 # 0 /\ -3 # 0 /\ -4 # 0
  BY DEF Steps
<1>3. /\ FatStart \in Nat /\ RootStart \in Nat /\ WholeLength \in Nat
      /\ SectorsPerFat * BytesPerSector \in Nat
      /\ ReservedSectors * BytesPerSector = FatStart
      /\ FatStart + SectorsPerFat * BytesPerSector <= RootStart
      /\ RootStart <= DataStart /\ DataStart <= WholeLength /\ DataStart \in Nat
  <2>1. RootCount * BytesPerSector \in Nat /\ Clusters * ClusterSize \in Nat
    BY Layout, Constants
  <2>2. ReservedSectors * BytesPerSector = FatStart /\ SectorsPerFat * BytesPerSector \in Nat
    BY Constants DEF FatStart
  <2> QED
    BY <2>1, <2>2, Layout
<1>4. CASE readBootSector
  <2>1. CASE BOOT <= volume.length
    BY <1>1, <1>2, <1>4, <2>1 DEF readBootSector, FileInv
  <2>2. CASE ~(BOOT <= volume.length)
    <3>1. volume.length # WholeLength
      BY <1>3, <2>2, Constants
    <3> QED
      BY <1>1, <1>2, <1>4, <2>2, <3>1 DEF readBootSector, Exit, FileInv
  <2> QED
    BY <2>1, <2>2
<1>5. CASE readFat
  <2>1. CASE CanRead(ReservedSectors, SectorsPerFat)
    BY <1>1, <1>2, <1>5, <2>1 DEF readFat, FileInv, Sectors
  <2>2. CASE ~CanRead(ReservedSectors, SectorsPerFat)
    <3>1. volume.length # WholeLength
      <4>1. (ReservedSectors + SectorsPerFat) * BytesPerSector
              = ReservedSectors * BytesPerSector + SectorsPerFat * BytesPerSector
        BY Constants
      <4> QED
        BY <1>3, <2>2, <4>1, Constants DEF CanRead
    <3> QED
      BY <1>1, <1>2, <1>5, <2>2, <3>1 DEF readFat, FileInv
  <2> QED
    BY <2>1, <2>2
<1>6. CASE readRootDirectory
  <2>1. pc = "root" /\ fat' = fat /\ fat = Sectors(ReservedSectors, SectorsPerFat)
    BY <1>6 DEF readRootDirectory, FileInv
  <2>2. CASE CanRead(RootLba, RootCount)
    BY <1>1, <1>2, <1>6, <2>1, <2>2 DEF readRootDirectory, FileInv, Sectors
  <2>3. CASE ~CanRead(RootLba, RootCount)
    <3>1. volume.length # WholeLength
      <4>1. /\ (RootLba + RootCount) * BytesPerSector
                 = RootLba * BytesPerSector + RootCount * BytesPerSector
            /\ RootLba \in Nat
        BY Constants, Layout
      <4>2. (RootLba + RootCount) * BytesPerSector = DataStart
        BY <4>1, Layout
      <4> QED
        BY <1>3, <2>3, <4>1, <4>2 DEF CanRead
    <3> QED
      BY <1>1, <1>2, <1>6, <2>3, <3>1 DEF readRootDirectory, FileInv
  <2> QED
    BY <2>2, <2>3
<1> QED
  BY <1>4, <1>5, <1>6

\* On any volumes in order, whole or cut off anywhere, main is where FileInv
\* says.
LEMMA FileInvariant ==
  ASSUME \A v \in Volumes : WellFormed(v)
  PROVE  Spec => []FileInv
<1>1. Init => FileInv
  BY DEF Init, FileInv, Steps
<1>2. FileInv /\ [Next]_vars => FileInv'
  <2> SUFFICES ASSUME FileInv, [Next]_vars PROVE FileInv'
    OBVIOUS
  <2>1. WellFormed(volume)
    BY DEF FileInv
  <2>2. CASE readBootSector \/ readFat \/ readRootDirectory
    BY <2>2, FirstSteps
  <2>3. CASE findFile
    BY <2>1, <2>3, FindStep
  <2>4. CASE readFile
    BY <2>1, <2>4, ReadStep
  <2>5. CASE PrintBuffer
    BY <2>1, <2>5, PrintStep
  <2>6. CASE UNCHANGED vars
    BY <2>6 DEF vars, FileInv, Sectors, Wanted, InChain, HasRead
  <2> QED
    BY <2>2, <2>3, <2>4, <2>5, <2>6 DEF Next
<1> QED
  BY <1>1, <1>2, PTL DEF Spec

\* When the program returns 0 it has printed the file that was asked for, every
\* byte from its place on the disk, however the files lie among each other and
\* wherever the image ends.
THEOREM RightBytes ==
  ASSUME \A v \in Volumes : WellFormed(v)
  PROVE  Spec => []PrintsTheFile
<1>1. FileInv => PrintsTheFile
  BY DEF FileInv, PrintsTheFile
<1> QED
  BY <1>1, FileInvariant, PTL

\* On an image that is all there it returns 0 for each file of the volume, and
\* for nothing else.
THEOREM FilesFound ==
  ASSUME \A v \in Volumes : WellFormed(v)
  PROVE  Spec => []FindsTheFile
<1>1. FileInv => FindsTheFile
  BY DEF FileInv, FindsTheFile
<1> QED
  BY <1>1, FileInvariant, PTL

\* The cluster that readFile appends fits, if clusters are sectors.
LEMMA AppendFits ==
  ASSUME SectorsPerCluster = 1, WellFormed(volume), Minimal(volume), FileInv, readFile
  PROVE  pc' # "overrun"
<1>1. pc = "read" /\ buffer \in Seq(Nat)
  BY DEF FileInv, readFile
<1>2. PICK f \in Wanted : entry.size = f.size /\ InChain(f)
  BY <1>1 DEF FileInv
<1>3. PICK n \in Nat : n < Len(f.chain) /\ cluster = f.chain[n + 1] /\ HasRead(f, n)
  BY <1>2 DEF InChain
<1>4. f \in Files(volume)
  BY DEF Wanted
<1>5. PICK len \in Nat : len = Len(f.chain) /\ n + 1 <= len
  BY <1>3, <1>4, ChainFact
<1>6. PICK size \in Nat \ {0} : size = ClusterSize /\ size = BytesPerSector
  BY Constants DEF ClusterSize
<1> DEFINE got == buffer \o Sectors(Lba(cluster), SectorsPerCluster)
<1>7. CASE CanRead(Lba(cluster), SectorsPerCluster)
  <2>1. Len(got) = (n + 1) * size
    BY <1>1, <1>3, <1>4, <1>6, ReadFact
  <2>2. (n + 1) * size <= len * size
    BY <1>5, <1>6
  <2>3. f.size \in Nat /\ len * size < f.size + size
    BY <1>4, <1>5, <1>6 DEF WellFormed, Minimal
  <2>4. (n + 1) * size \in Nat /\ len * size \in Nat
    BY <1>5, <1>6
  <2>5. Len(got) <= Room(entry)
    <3> HIDE DEF got
    <3> QED
      BY <1>2, <1>6, <2>1, <2>2, <2>3, <2>4 DEF Room
  <2>6. ~(Len(got) > Room(entry))
    <3>1. Len(got) \in Nat /\ Room(entry) \in Nat
      <4> HIDE DEF got
      <4> QED
        BY <1>2, <1>6, <2>1, <2>3, <2>4 DEF Room
    <3> HIDE DEF got
    <3> QED
      BY <2>5, <3>1
  <2> QED
    BY <1>1, <1>7, <2>6 DEF readFile
<1>8. CASE ~CanRead(Lba(cluster), SectorsPerCluster)
  BY <1>8 DEF readFile, ReadFailed, Exit
<1> QED
  BY <1>7, <1>8

\* With one sector to a cluster, readFile never writes behind the buffer that
\* main made, on any volume whose chains are no longer than they must be.
THEOREM BufferHolds ==
  ASSUME SectorsPerCluster = 1, \A v \in Volumes : WellFormed(v) /\ Minimal(v)
  PROVE  Spec => []InBuffer
<1>1. Init => InBuffer
  BY DEF Init, InBuffer
<1>2. FileInv /\ InBuffer /\ [Next]_vars => InBuffer'
  <2> SUFFICES ASSUME FileInv, InBuffer, [Next]_vars PROVE InBuffer'
    OBVIOUS
  <2>1. WellFormed(volume) /\ Minimal(volume)
    BY DEF FileInv
  <2>2. CASE readFile
    BY <2>1, <2>2, AppendFits DEF InBuffer
  <2>3. CASE ~readFile
    BY <2>3 DEF InBuffer, Next, readBootSector, readFat, readRootDirectory, findFile, PrintBuffer,
                Exit, vars
  <2> QED
    BY <2>2, <2>3
<1>3. \A v \in Volumes : WellFormed(v)
  OBVIOUS
<1>4. Spec => []FileInv
  BY <1>3, FileInvariant
<1> QED
  BY <1>1, <1>2, <1>4, PTL DEF Spec
=============================================================================
