-------------------------------- MODULE Fat12 --------------------------------
(***************************************************************************)
(* tools/fat/fat.c: find a file by its name on the image of a FAT12 volume *)
(* and print it.  The program is a sequence of steps that each can fail,   *)
(* and a loop that follows the file's clusters.                            *)
(*                                                                         *)
(* An image is a sequence of bytes.  Those of the file allocation table    *)
(* are what they are on a disk; an entry of the root directory is the      *)
(* first of its DIRENT bytes; a byte of the data area is its own address,  *)
(* so that what is printed tells where it was read.  An image can be cut   *)
(* off anywhere, and then reads behind its end fail.                       *)
(***************************************************************************)
EXTENDS Integers, Sequences

CONSTANTS
  BytesPerSector, SectorsPerCluster, ReservedSectors, FatCount, DirEntryCount, SectorsPerFat,
  BOOT,       \* sizeof(BootSector)
  DIRENT,     \* sizeof(DirectoryEntry)
  Clusters,   \* how many clusters the data area has, numbered from 2
  MEDIA,      \* entry 0 of the table: 0xFF0 on a floppy disk
  Volumes,    \* [files, eoc, length]: what is on the images
  Names       \* what may be asked for

NoName == ""   \* of a directory entry that is not in use

ASSUME VolumeAssumption ==
  /\ Clusters \in 0..4084 /\ MEDIA \in 0..4095 /\ BOOT \in Nat /\ NoName \notin Names
  /\ BytesPerSector \in Nat \ {0} /\ SectorsPerCluster \in Nat \ {0} /\ DIRENT \in Nat \ {0}
  /\ ReservedSectors \in Nat /\ FatCount \in Nat \ {0} /\ DirEntryCount \in Nat
  /\ SectorsPerFat \in Nat /\ BOOT <= ReservedSectors * BytesPerSector
  /\ (3 * (Clusters + 3)) \div 2 <= SectorsPerFat * BytesPerSector

VARIABLES
  volume, asked,   \* what is on the image, and argv[2]
  pc,              \* the next step of main; "done"; "overrun": behind a buffer
  fat, root,       \* g_Fat, g_RootDirectory
  entry,           \* fileEntry
  cluster,         \* currentCluster
  buffer,          \* what readFile has put there
  printed,
  allocated,       \* the buffers that malloc made and free did not take back
  status           \* what main returns

vars == <<volume, asked, pc, fat, root, entry, cluster, buffer, printed, allocated, status>>

----------------------------------------------------------------------------
(* The image (external: mkfs.fat, mcopy).  A file is a record of its name,  *)
(* the clusters it lies in, in order, and its size.                        *)

FatStart    == ReservedSectors * BytesPerSector
RootStart   == FatStart + FatCount * SectorsPerFat * BytesPerSector
RootSectors == (DIRENT * DirEntryCount + BytesPerSector - 1) \div BytesPerSector
DataStart   == RootStart + RootSectors * BytesPerSector
ClusterSize == SectorsPerCluster * BytesPerSector
WholeLength == DataStart + Clusters * ClusterSize

Files(v) == {v.files[k] : k \in 1..Len(v.files)}

\* The table: each cluster of a file has the number of the next one.
Table(v) ==
  [c \in 0..(Clusters + 3) |->
     IF c = 0 THEN MEDIA
     ELSE IF \E f \in Files(v), k \in 1..Clusters : k < Len(f.chain) /\ f.chain[k] = c
     THEN CHOOSE n \in 2..(Clusters + 1) :
            \E f \in Files(v), k \in 1..Clusters :
              k < Len(f.chain) /\ f.chain[k] = c /\ f.chain[k + 1] = n
     ELSE IF c = 1 \/ \E f \in Files(v) : f.chain # << >> /\ f.chain[Len(f.chain)] = c
     THEN v.eoc ELSE 0]

\* Two entries of twelve bits lie in three bytes.
PackedByte(t, b) ==
  LET c == 2 * (b \div 3)
  IN  IF b % 3 = 0 THEN t[c] % 256
      ELSE IF b % 3 = 1 THEN (t[c] \div 256) + 16 * (t[c + 1] % 16)
      ELSE t[c + 1] \div 16

DirEntry(v, i) ==
  IF i < Len(v.files)
  THEN LET f == v.files[i + 1]
       IN  [name |-> f.name, size |-> f.size,
            first |-> IF f.chain = << >> THEN 0 ELSE Head(f.chain)]
  ELSE [name |-> NoName, size |-> 0, first |-> 0]

ByteAt(v, a) ==
  IF a < FatStart THEN 0
  ELSE IF a < RootStart
  THEN LET b == (a - FatStart) % (SectorsPerFat * BytesPerSector)
       IN  IF 2 * (b \div 3) < Clusters + 3 THEN PackedByte(Table(v), b) ELSE 0
  ELSE IF a < RootStart + DIRENT * DirEntryCount /\ (a - RootStart) % DIRENT = 0
  THEN DirEntry(v, (a - RootStart) \div DIRENT)
  ELSE a

\* The bytes of a file, and where a reader of the volume finds them.
Content(f) ==
  [k \in 1..f.size |->
     DataStart + (f.chain[((k - 1) \div ClusterSize) + 1] - 2) * ClusterSize
       + ((k - 1) % ClusterSize)]

----------------------------------------------------------------------------
(* readSectors: all of them are there, or the call fails. *)

CanRead(lba, count) == lba >= 0 /\ (lba + count) * BytesPerSector <= volume.length
Sectors(lba, count) ==
  [k \in 1..(count * BytesPerSector) |-> ByteAt(volume, lba * BytesPerSector + k - 1)]

RootLba == ReservedSectors + SectorsPerFat * FatCount
RootSize == DIRENT * DirEntryCount
RootCount == (RootSize \div BytesPerSector) + (IF RootSize % BytesPerSector > 0 THEN 1 ELSE 0)
RootDirectoryEnd == RootLba + RootCount

Exit(code, freed) ==
  /\ pc' = "done" /\ status' = code /\ allocated' = allocated \ freed
Local == <<volume, asked>>

readBootSector ==
  /\ pc = "boot"
  /\ IF BOOT <= volume.length THEN pc' = "fat" /\ UNCHANGED <<status, allocated>>
     ELSE Exit(-2, {})
  /\ UNCHANGED <<Local, fat, root, entry, cluster, buffer, printed>>

readFat ==
  /\ pc = "fat"
  /\ IF CanRead(ReservedSectors, SectorsPerFat)
     THEN /\ fat' = Sectors(ReservedSectors, SectorsPerFat)
          /\ pc' = "root" /\ allocated' = allocated \cup {"fat"} /\ UNCHANGED status
     ELSE pc' = "done" /\ status' = -3 /\ UNCHANGED <<fat, allocated>>
  /\ UNCHANGED <<Local, root, entry, cluster, buffer, printed>>

\* What main frees when the root directory cannot be read.  Mutant: as when
\* the table cannot be read.
AfterRootFatOnly == {"fat"}
AfterRoot == {"fat", "root"}
readRootDirectory ==
  /\ pc = "root"
  /\ IF CanRead(RootLba, RootCount)
     THEN /\ root' = Sectors(RootLba, RootCount)
          /\ pc' = "find" /\ allocated' = allocated \cup {"root"} /\ UNCHANGED status
     ELSE /\ pc' = "done" /\ status' = -4 /\ UNCHANGED root
          /\ allocated' = (allocated \cup {"root"}) \ AfterRoot
  /\ UNCHANGED <<Local, fat, entry, cluster, buffer, printed>>

\* findFile: the first entry of that name.
Entries == [i \in 0..(DirEntryCount - 1) |-> root[i * DIRENT + 1]]
findFile ==
  /\ pc = "find"
  /\ IF \E i \in DOMAIN Entries : Entries[i].name = asked
     THEN LET i == CHOOSE i \in DOMAIN Entries :
                     Entries[i].name = asked /\ \A j \in 0..(i - 1) : Entries[j].name # asked
          IN  /\ entry' = Entries[i] /\ cluster' = Entries[i].first
              /\ pc' = "read" /\ allocated' = allocated \cup {"buffer"} /\ UNCHANGED status
     ELSE Exit(-5, {"fat", "root"}) /\ UNCHANGED <<entry, cluster>>
  /\ UNCHANGED <<Local, fat, root, buffer, printed>>

\* The room malloc made for the file.  Mutant: for its bytes alone.
RoomExact(e) == e.size
Room(e) == e.size + BytesPerSector

\* The next cluster.  Behind the table lies whatever malloc left there.
Next12(t, c) ==
  LET w == t[((3 * c) \div 2) + 1] + 256 * t[((3 * c) \div 2) + 2]
  IN  IF c % 2 = 0 THEN w % 4096 ELSE w \div 16
Following(c) ==
  IF ((3 * c) \div 2) + 2 <= Len(fat) THEN {Next12(fat, c)} ELSE 0..4095

\* The chain goes on.  Mutant: it ends with 0xFFF only.
GoesOnToLast(c) == c < 4095
GoesOn(c) == c < 4088

\* The next cluster is still looked up, and the loop ends whatever it is.
ReadFailed ==
  /\ Exit(-5, {"fat", "root", "buffer"})
  /\ UNCHANGED <<buffer, cluster>>

\* Where a cluster lies; the first one is number 2.  Mutant: it is number 1.
LbaFromOne(c) == RootDirectoryEnd + (c - 1) * SectorsPerCluster
Lba(c) == RootDirectoryEnd + (c - 2) * SectorsPerCluster

\* One turn of readFile's loop.
readFile ==
  /\ pc = "read"
  /\ LET got == buffer \o Sectors(Lba(cluster), SectorsPerCluster)
     IN  IF ~CanRead(Lba(cluster), SectorsPerCluster) THEN ReadFailed
         ELSE IF Len(got) > Room(entry)
         THEN pc' = "overrun" /\ UNCHANGED <<buffer, cluster, status, allocated>>
         ELSE /\ buffer' = got
              /\ \E c \in Following(cluster) :
                   cluster' = c /\ pc' = IF GoesOn(c) THEN "read" ELSE "print"
              /\ UNCHANGED <<status, allocated>>
  /\ UNCHANGED <<Local, fat, root, entry, printed>>

PrintBuffer ==
  /\ pc = "print"
  /\ printed' = SubSeq(buffer, 1, entry.size)
  /\ Exit(0, {"fat", "root", "buffer"})
  /\ UNCHANGED <<Local, fat, root, entry, cluster, buffer>>

Init ==
  /\ volume \in Volumes /\ asked \in Names
  /\ pc = "boot" /\ status = 0 /\ allocated = {} /\ printed = << >>
  /\ fat = << >> /\ root = << >> /\ buffer = << >>
  /\ cluster = 0 /\ entry = [name |-> NoName, size |-> 0, first |-> 0]

Next == readBootSector \/ readFat \/ readRootDirectory \/ findFile \/ readFile \/ PrintBuffer
Spec     == Init /\ [][Next]_vars
FairSpec == Spec /\ WF_vars(Next)

----------------------------------------------------------------------------
(* Properties. *)

\* Every variable holds what its C variable can; a cluster number of the volume
\* has twelve bits.
TypeOK ==
  /\ pc \in {"boot", "fat", "root", "find", "read", "print", "done", "overrun"}
  /\ cluster \in 0..4095 /\ status \in {0, -2, -3, -4, -5}
  /\ allocated \subseteq {"fat", "root", "buffer"}
  /\ Len(printed) <= Len(buffer)

\* A volume that is in order: a file's chain is at least as long as its size
\* needs, and no cluster is in use twice.  An empty file has no chain and is
\* left out.
WellFormed(v) ==
  /\ v.length \in Nat /\ v.eoc \in 4088..4095
  /\ v.files \in Seq(Files(v)) /\ Len(v.files) <= DirEntryCount
  /\ \A f \in Files(v) :
       /\ f.chain \in Seq(2..(Clusters + 1)) /\ Len(f.chain) \in 1..Clusters
       /\ f.size \in Nat /\ f.size <= Len(f.chain) * ClusterSize
  /\ \A f, g \in Files(v) : \A j \in 1..Len(f.chain), k \in 1..Len(g.chain) :
       f.chain[j] = g.chain[k] => f = g /\ j = k

\* No chain is longer than its file needs.
Minimal(v) == \A f \in Files(v) : Len(f.chain) * ClusterSize < f.size + ClusterSize

Wanted == {f \in Files(volume) : f.name = asked}

\* When the program returns 0 it has printed the file asked for, every byte of
\* it from its place on the disk: a chain that jumps back and forth, clusters
\* of even and odd numbers, files that lie between each other, and an image
\* cut off in any place, never lead to bytes of something else.
PrintsTheFile ==
  (pc = "done" /\ status = 0) => \E f \in Wanted : printed = Content(f)

\* On an image that is all there it finds every file, and nothing else.
FindsTheFile ==
  (pc = "done" /\ volume.length = WholeLength) => (status = 0 <=> Wanted # {})

\* Whatever step failed, main has freed each buffer that it made.
AllFreed == pc = "done" => allocated = {}

\* readFile, which writes whole clusters, keeps within the buffer that main made
\* for the file's bytes and one sector more.
InBuffer == pc # "overrun"

\* readFile keeps within its buffer, and its loop ends: the program always
\* returns.
Returns == <>(pc = "done")
=============================================================================
