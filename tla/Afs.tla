---------------------------------- MODULE Afs ----------------------------------
(***************************************************************************)
(* A file system image from its writer to its reader: initrdcreator.c,     *)
(* which measures the files in one pass and copies them in a second while  *)
(* other programs may change them, and the kernel's main, which reads the  *)
(* first sectors of the drive and lists what it finds there.               *)
(*                                                                         *)
(* A file is a sequence of bytes; 0 is the byte that ends a C string.  Of  *)
(* the image the count, the headers that are in use, and the data area are *)
(* kept apart; an offset counts from the image's start, as in the headers. *)
(* A name is shorter than name[64], and malloc has memory.                 *)
(***************************************************************************)
EXTENDS Integers, Sequences, SequencesExt

CONSTANTS
  Paths,       \* the files of the host
  Contents,    \* what they may hold
  Names,       \* what they may be called in the image
  Calls,       \* command lines: sequences of [path, name]
  WORD,        \* what an unsigned int does not hold any more: 2^32
  Room,        \* bytes of the data area in the sectors that main reads: 252
  CONTENT,     \* the length of main's array content: 512
  MaxEdits,    \* how often other programs change a file
  Junk         \* what memory holds that nobody has set

SLOTS   == 64                       \* headers[64]
HEADER  == 76                       \* sizeof(struct initrd_header)
DIR     == 4 + HEADER * SLOTS       \* behind the count and the 64 headers
SECTORS == 10                       \* NO_OF_SECTORS + 9
SECTOR  == 512                      \* ATA_SECTOR_SIZE
MAGIC   == 191
Absent  == <<-1>>                   \* not bytes
Unread  == "unread"                 \* the name in a header that was not read
Crashed == -1
NoImage == [count |-> 0, headers |-> << >>, data |-> << >>, whole |-> FALSE]

ASSUME AfsAssumption ==
  /\ Contents \subseteq Seq(Nat)
  /\ Calls \subseteq Seq([path: Paths, name: Names])
  /\ WORD \in Nat /\ WORD > DIR
  /\ Room \in Nat /\ MaxEdits \in Nat /\ CONTENT \in Nat

VARIABLES
  files,       \* [path -> contents, or Absent]
  edits,       \* how often they were changed
  pc,          \* where initrdcreator is
  args,        \* its command line
  i,           \* the loops' index
  off,         \* where the next file goes
  headers,     \* the headers filled so far
  ret,         \* what it returned, or Crashed
  image,       \* ./initrd.img
  copied,      \* [name, held]: what each file held when it was copied
  stored,      \* copied, of the image that is whole
  kpc,         \* where the kernel's main is
  sectors,     \* how many sectors ide_read_sectors has put into memory
  disk,        \* the drive: the image the kernel was started with
  content,     \* main's array of that name
  k,           \* its loop index
  shown        \* what it has listed: [name, text]

hostVars    == <<files, edits>>
creatorVars == <<pc, args, i, off, headers, ret, image, copied, stored>>
kernelVars  == <<kpc, sectors, disk, content, k, shown>>
vars        == <<hostVars, creatorVars, kernelVars>>

----------------------------------------------------------------------------
(* initrdcreator.c.  argc is a char, and so is what main is given of it.    *)

Char(n) == ((n + 128) % 256) - 128
Half(n) == IF n >= 0 THEN n \div 2 ELSE -((-n) \div 2)      \* C's n / 2
NHeaders(argc) == Half(Char(argc) - 1)
Count == NHeaders(1 + 2 * Len(args))

Start(call) ==
  /\ pc = "idle" /\ kpc = "off"
  /\ pc' = "measure" /\ args' = call /\ i' = 0
  /\ off' = DIR /\ headers' = << >> /\ copied' = << >>
  /\ UNCHANGED <<hostVars, ret, image, stored, kernelVars>>

\* What ftell says of a file's end, as an unsigned int.
Size(path) == Len(files[path]) % WORD

\* The first loop: one file is opened, measured and closed again.
Measure ==
  /\ pc = "measure" /\ i < Count
  /\ LET a == args[i + 1]
     IN  IF files[a.path] = Absent
         THEN /\ pc' = "idle" /\ ret' = 1
              /\ UNCHANGED <<i, off, headers>>
         ELSE /\ headers' = Append(headers, [magic |-> MAGIC, name |-> a.name,
                                             offset |-> off, length |-> Size(a.path)])
              /\ off' = (off + Size(a.path)) % WORD
              /\ i' = i + 1
              /\ UNCHANGED <<pc, ret>>
  /\ UNCHANGED <<hostVars, args, image, copied, stored, kernelVars>>

\* The image is opened, which empties it, and gets its headers.
Open ==
  /\ pc = "measure" /\ i >= Count
  /\ image' = [count |-> Count, headers |-> headers, data |-> << >>, whole |-> FALSE]
  /\ i' = 0 /\ pc' = "copy"
  /\ UNCHANGED <<hostVars, args, off, headers, ret, copied, stored, kernelVars>>

\* What goes into the image for a file: fread fills what it can of a buffer as
\* long as the file was, and all of the buffer is written.  Mutant: only what
\* was read.
PieceRead(file, length) == SubSeq(file, 1, IF Len(file) < length THEN Len(file) ELSE length)
Piece(file, length) == [n \in 1..length |-> IF n <= Len(file) THEN file[n] ELSE Junk]

\* The second loop: one file is opened again and copied.  If it is gone, fread
\* is given no stream.
Copy ==
  /\ pc = "copy" /\ i < Count
  /\ LET file == files[args[i + 1].path]
     IN  IF file = Absent
         THEN /\ pc' = "idle" /\ ret' = Crashed
              /\ UNCHANGED <<i, image, copied>>
         ELSE /\ image' = [image EXCEPT !.data = @ \o Piece(file, headers[i + 1].length)]
              /\ copied' = Append(copied, [name |-> args[i + 1].name, held |-> file])
              /\ i' = i + 1
              /\ UNCHANGED <<pc, ret>>
  /\ UNCHANGED <<hostVars, args, off, headers, stored, kernelVars>>

Close ==
  /\ pc = "copy" /\ i >= Count
  /\ image' = [image EXCEPT !.whole = TRUE]
  /\ stored' = copied
  /\ pc' = "idle" /\ ret' = 0
  /\ UNCHANGED <<hostVars, args, i, off, headers, copied, kernelVars>>

\* External: another program writes or removes a file.
Edit(path) ==
  /\ kpc = "off" /\ edits < MaxEdits
  /\ edits' = edits + 1
  /\ \E c \in Contents \cup {Absent} : files' = [files EXCEPT ![path] = c]
  /\ UNCHANGED <<creatorVars, kernelVars>>

----------------------------------------------------------------------------
(* main.c, on a drive that holds the image.  What the host does meanwhile  *)
(* does not reach that drive, and is left out until the machine is off.    *)
(* The ten sectors go to buf[512] and on over what lies above it on the    *)
(* stack, and are read back from there; that they are still there when     *)
(* they are is how a build without optimisation, as the Makefile's, lays   *)
(* out main's frame.                                                       *)

\* memset and ide_read_sectors, whose result is not looked at: it may be
\* refused, or end after any number of sectors.
ReadDisk ==
  /\ kpc = "off" /\ pc = "idle" /\ image.whole
  /\ disk' = image
  /\ sectors' \in 0..SECTORS
  /\ kpc' = "list" /\ k' = 0 /\ shown' = << >>
  /\ content' = [n \in 1..CONTENT |-> Junk]
  /\ UNCHANGED <<hostVars, creatorVars>>

\* result: the image's first word, or what memset left there.
Result == IF sectors = 0 THEN 0 ELSE disk.count
Verdict == IF Result < 0 THEN "FAILED" ELSE "SUCCESS"

\* The data area, as far as it was read; a drive's last sector is filled up.
DataByte(n) ==
  IF sectors < SECTORS \/ n > Room THEN Junk ELSE IF n <= Len(disk.data) THEN disk.data[n] ELSE 0

\* Where the contents of file k are looked for.  Mutant: where the length of
\* the file itself would put them.
ContentsAtOwn(n) == IF n = 0 THEN 0 ELSE disk.headers[n + 1].length
ContentsAt(n) == IF n = 0 THEN 0 ELSE disk.headers[n].length

\* monitor_write shows an array up to its first 0.
Text(array) ==
  LET ends == {n \in DOMAIN array : array[n] = 0}
  IN  IF ends = {} THEN array ELSE SubSeq(array, 1, (CHOOSE n \in ends : \A m \in ends : n <= m) - 1)

\* Mutant: the last file is left out.
MoreFilesButOne == k + 1 < Result
MoreFiles == k < Result

\* Whether the n-th header is among the bytes that came.
HeaderRead(n) == 4 + HEADER * n <= SECTOR * sectors

List ==
  /\ kpc = "list" /\ MoreFiles /\ HeaderRead(k + 1)
  /\ LET h == disk.headers[k + 1]
         now == [n \in 1..CONTENT |-> IF n <= h.length THEN DataByte(ContentsAt(k) + n) ELSE content[n]]
     IN  /\ h.length <= CONTENT
         /\ content' = now
         /\ shown' = Append(shown, [name |-> h.name, text |-> Text(now)])
  /\ k' = k + 1
  /\ UNCHANGED <<hostVars, creatorVars, kpc, sectors, disk>>

\* Behind what came the stack holds whatever it held: a line of anything.
ListUnread ==
  /\ kpc = "list" /\ MoreFiles /\ ~HeaderRead(k + 1)
  /\ content' = [n \in 1..CONTENT |-> Junk]
  /\ shown' = Append(shown, [name |-> Unread, text |-> <<Junk>>])
  /\ k' = k + 1
  /\ UNCHANGED <<hostVars, creatorVars, kpc, sectors, disk>>

\* memcpy does not know how long content is: a longer file, or the length in a
\* header that was not read, goes over main's frame.
Overrun ==
  /\ kpc = "list" /\ MoreFiles
  /\ HeaderRead(k + 1) => disk.headers[k + 1].length > CONTENT
  /\ kpc' = "overrun"
  /\ UNCHANGED <<hostVars, creatorVars, sectors, disk, content, k, shown>>

\* main returns; from the second sector on the read has written over the frame
\* it returns by.
Return ==
  /\ kpc = "list" /\ ~MoreFiles
  /\ kpc' = IF sectors <= 1 THEN "returned" ELSE "wild"
  /\ UNCHANGED <<hostVars, creatorVars, sectors, disk, content, k, shown>>

\* External: the machine is turned off.
TurnOff ==
  /\ kpc \in {"returned", "wild", "overrun"}
  /\ kpc' = "off" /\ sectors' = 0 /\ disk' = NoImage /\ content' = << >> /\ k' = 0 /\ shown' = << >>
  /\ UNCHANGED <<hostVars, creatorVars>>

----------------------------------------------------------------------------
Init ==
  /\ files \in [Paths -> Contents \cup {Absent}]
  /\ edits = 0
  /\ pc = "idle" /\ args = << >> /\ i = 0 /\ off = DIR
  /\ headers = << >> /\ ret = 0 /\ image = NoImage /\ copied = << >> /\ stored = << >>
  /\ kpc = "off" /\ sectors = 0 /\ disk = NoImage
  /\ content = << >> /\ k = 0 /\ shown = << >>

Next ==
  \/ \E c \in Calls : Start(c)
  \/ Measure \/ Open \/ Copy \/ Close
  \/ \E p \in Paths : Edit(p)
  \/ ReadDisk \/ List \/ ListUnread \/ Overrun \/ Return \/ TurnOff

Spec == Init /\ [][Next]_vars

----------------------------------------------------------------------------
(* Properties. *)

Images == [count: Int, whole: BOOLEAN, data: Seq(Nat \cup {Junk}),
           headers: Seq([magic: {MAGIC}, name: Names, offset: Nat, length: Nat])]

TypeOK ==
  /\ files \in [Paths -> Contents \cup {Absent}]
  /\ edits \in 0..MaxEdits
  /\ pc \in {"idle", "measure", "copy"} /\ args \in Calls \cup {<< >>}
  /\ i \in Nat /\ off \in Nat
  /\ headers \in Seq([magic: {MAGIC}, name: Names, offset: Nat, length: Nat])
  /\ ret \in {0, 1, Crashed}
  /\ image \in Images /\ disk \in Images
  /\ copied \in Seq([name: Names, held: Contents]) /\ stored \in Seq([name: Names, held: Contents])
  /\ kpc \in {"off", "list", "returned", "wild", "overrun"} /\ sectors \in 0..SECTORS /\ k \in Nat
  /\ content \in Seq(Nat \cup {Junk})
  /\ shown \in Seq([name: Names \cup {Unread}, text: Seq(Nat \cup {Junk})])

\* In an image the n-th file lies where its header says, under its name, as
\* much of it as was there when it was copied.
Found(img, n, was) ==
  LET h == img.headers[n]
      at == h.offset - DIR
  IN  /\ h.name = was.name
      /\ at >= 0 /\ at + h.length <= Len(img.data)
      /\ \A m \in 1..h.length : m <= Len(was.held) => img.data[at + m] = was.held[m]

\* How far an image is what its headers can say: offsets are below 2^32.
Addressable(img) == DIR + Len(img.data) < WORD

\* However the files were changed while they were measured and copied: an
\* image that is whole has every file that it counts, where its header says;
\* and it counts all that were asked for, if they are fewer than 64.
OffsetsPointHome ==
  image.whole =>
    /\ Len(image.headers) = Len(stored)
    /\ image.count >= 0 => image.count = Len(stored)
    /\ pc = "idle" /\ ret = 0 /\ Len(args) < SLOTS => image.count = Len(args)
    /\ Addressable(image) => \A n \in DOMAIN stored : Found(image, n, stored[n])

\* What DOCUMENTATION.md says of its two numbers, "the number of files in the
\* whole disk" and the 64 header structures behind it: up to 64 files that the
\* tool puts into an image are counted.
CountsFiles ==
  image.whole /\ pc = "idle" /\ ret = 0 /\ Len(args) <= SLOTS => image.count = Len(args)

\* The n-th text begins with what the image holds of the n-th file, if that
\* was read.
BeginsWithFile(n) ==
  /\ sectors = SECTORS /\ Addressable(disk)
  /\ disk.headers[n].offset + disk.headers[n].length <= DIR + Room
  => IsPrefix(Text(Piece(stored[n].held, disk.headers[n].length)), shown[n].text)

\* The listing goes through the files the image was made from, in their order
\* as far as their headers came, and to the last of them, if main comes to its
\* end; and it has the contents of the first two.
Listed ==
  /\ \A n \in DOMAIN shown : HeaderRead(n) =>
       /\ n <= Len(stored) /\ shown[n].name = stored[n].name
       /\ n <= 2 => BeginsWithFile(n)
  /\ kpc \in {"returned", "wild"} /\ sectors > 0 /\ Verdict = "SUCCESS" =>
       Len(shown) = Len(stored)

\* What DOCUMENTATION.md says of the data area, "the data of each file":
\* the contents of every file are found.
AllListed == \A n \in DOMAIN shown : BeginsWithFile(n)

\* What the message "SUCCESS!" says: a header was read.
SuccessMeansRead == kpc # "off" /\ Verdict = "SUCCESS" => sectors > 0

\* What boot.s's "loop forever" behind the call of main says: main returns.
MainReturns == kpc # "wild"

\* What main's array of 512 bytes asks of the files: each fits.
ContentsFit == kpc # "overrun"
=============================================================================
