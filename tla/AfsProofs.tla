------------------------------- MODULE AfsProofs -------------------------------
(***************************************************************************)
(* Proofs about Afs: the table of headers is not overrun; every file of an *)
(* image is found where its header says; and the kernel's main lists those *)
(* files, the first two with their contents.                               *)
(***************************************************************************)
EXTENDS Afs, SequenceTheorems, WellFoundedInduction, TLAPS

\* initrdcreator's argc is a char: whatever the shell hands over, there are at
\* most 63 headers to fill, so headers[64] is never overrun; and from 64 files
\* on the count is negative.
THEOREM TableNeverOverrun ==
  ASSUME NEW n \in Nat
  PROVE  /\ NHeaders(n) < SLOTS
         /\ NHeaders(n) >= -SLOTS
         /\ n < 128 => NHeaders(n) = Half(n - 1)
<1>1. Char(n) \in -128..127 /\ (n < 128 => Char(n) = n)
  BY DEF Char
<1>2. Half(Char(n) - 1) \in -64..63
  BY <1>1 DEF Half
<1> QED
  BY <1>1, <1>2 DEF NHeaders, SLOTS

----------------------------------------------------------------------------
(* The inductive invariant. *)

Header == [magic: {MAGIC}, name: Names, offset: Nat, length: Nat]
Copied == [name: Names, held: Contents]

HostType ==
  /\ files \in [Paths -> Contents \cup {Absent}]
  /\ args \in Seq([path: Paths, name: Names])
  /\ i \in Nat /\ off \in Nat
  /\ headers \in Seq(Header)
  /\ image \in [count: Int, whole: BOOLEAN, data: Seq(Nat \cup {Junk}), headers: Seq(Header)]
  /\ copied \in Seq(Copied) /\ stored \in Seq(Copied)

\* Where the n-th file begins, or would begin.
Begins(hs, end, n) == IF n <= Len(hs) THEN hs[n].offset ELSE end

\* Each file begins where the one before it ends, and has the name asked for.
Chained(hs, end) ==
  /\ Begins(hs, end, 1) = DIR
  /\ \A n \in 1..Len(hs) : Begins(hs, end, n + 1) = (hs[n].offset + hs[n].length) % WORD
Linked(hs) ==
  \A n \in 1..Len(hs) :
    hs[n].offset = IF n = 1 THEN DIR ELSE (hs[n - 1].offset + hs[n - 1].length) % WORD
Named == \A n \in 1..Len(headers) : n <= Len(args) /\ headers[n].name = args[n].name

\* What the image has of the n-th file is all that was written for it.
Kept(img, n, was) ==
  LET h == img.headers[n]
      at == h.offset - DIR
  IN  /\ h.name = was.name
      /\ Addressable(img) =>
           /\ at >= 0 /\ at + h.length <= Len(img.data)
           /\ \A m \in 1..h.length : img.data[at + m] = Piece(was.held, h.length)[m]

MeasureInv ==
  pc = "measure" =>
    /\ i = Len(headers) /\ (i = 0 \/ i <= Count)
    /\ Chained(headers, off) /\ Named /\ copied = << >>

CopyInv ==
  pc = "copy" =>
    /\ ~image.whole /\ image.count = Count /\ image.headers = headers
    /\ i = Len(copied) /\ i <= Len(headers)
    /\ Len(headers) = IF Count < 0 THEN 0 ELSE Count
    /\ Chained(headers, off) /\ Named
    /\ Addressable(image) => DIR + Len(image.data) = Begins(headers, off, i + 1)
    /\ \A n \in DOMAIN copied : Kept(image, n, copied[n])

DoneInv ==
  image.whole =>
    /\ Len(image.headers) = Len(stored)
    /\ image.count >= 0 => image.count = Len(stored)
    /\ pc = "idle" /\ ret = 0 => image.count = Count
    /\ Linked(image.headers)
    /\ \A n \in DOMAIN stored : Kept(image, n, stored[n])

IInv == HostType /\ pc \in {"idle", "measure", "copy"} /\ MeasureInv /\ CopyInv /\ DoneInv

----------------------------------------------------------------------------
(* Lemmas. *)

\* The data area begins at a number, that an unsigned int holds.
LEMMA DirIs == DIR \in Nat /\ WORD \in Nat /\ DIR < WORD
<1>1. DIR \in Nat
  BY DEF DIR, SLOTS, HEADER
<1> QED
  BY <1>1, AfsAssumption

\* What an unsigned int makes of a number is a number.
LEMMA WordIs ==
  ASSUME NEW n \in Nat
  PROVE  n % WORD \in Nat /\ (n < WORD => n % WORD = n)
<1>1. WORD \in Nat \ {0}
  BY DirIs
<1> QED
  BY <1>1

\* A command line of few files is counted right.
LEMMA FewCounted ==
  ASSUME NEW n \in 0..63
  PROVE  NHeaders(1 + 2 * n) = n
<1>1. Char(1 + 2 * n) = 1 + 2 * n
  BY DEF Char
<1>2. Half(2 * n) = n
  BY DEF Half
<1>3. (1 + 2 * n) - 1 = 2 * n
  OBVIOUS
<1> QED
  BY <1>1, <1>2, <1>3 DEF NHeaders

\* Any other is counted too low, never too high.
LEMMA CountIs ==
  ASSUME HostType
  PROVE  /\ Count \in Int /\ Count <= Len(args)
         /\ Len(args) < SLOTS => Count = Len(args)
<1>1. PICK n \in Nat : n = Len(args)
  BY DEF HostType
<1>2. Count = NHeaders(1 + 2 * n)
  BY <1>1 DEF Count
<1>3. CASE n <= 63
  <2>1. n \in 0..63
    BY <1>3
  <2>2. NHeaders(1 + 2 * n) = n
    BY <2>1, FewCounted
  <2> QED
    BY <1>1, <1>2, <2>2
<1>4. CASE n > 63
  <2> DEFINE a == 1 + 2 * n
  <2>1. a \in Nat
    OBVIOUS
  <2> HIDE DEF a
  <2>2. Char(a) \in Int /\ NHeaders(a) < SLOTS
    BY <2>1, TableNeverOverrun DEF Char
  <2>3. NHeaders(a) \in Int
    BY <2>2 DEF NHeaders, Half
  <2>4. Count \in Int /\ Count < SLOTS
    BY <1>2, <2>2, <2>3 DEF a
  <2> QED
    BY <1>1, <1>4, <2>4 DEF SLOTS
<1> QED
  BY <1>3, <1>4

\* A piece is as long as its file was, and begins with what the file holds now.
LEMMA PieceIs ==
  ASSUME NEW file \in Seq(Nat), NEW length \in Nat
  PROVE  /\ Piece(file, length) \in Seq(Nat \cup {Junk})
         /\ Len(Piece(file, length)) = length
         /\ \A m \in 1..length : m <= Len(file) => Piece(file, length)[m] = file[m]
<1>1. Piece(file, length) \in [1..length -> Nat \cup {Junk}]
  BY DEF Piece
<1>2. Piece(file, length) \in Seq(Nat \cup {Junk})
  BY <1>1
<1>3. Len(Piece(file, length)) = length
  BY <1>1, <1>2
<1> QED
  BY <1>2, <1>3 DEF Piece

\* What is found in the data is found when more is written behind it.
LEMMA FoundBehind ==
  ASSUME NEW S, NEW data \in Seq(S), NEW more \in Seq(S),
         NEW at \in Nat, NEW length \in Nat, at + length <= Len(data), NEW held,
         \A m \in 1..length : data[at + m] = held[m]
  PROVE  /\ at + length <= Len(data \o more)
         /\ \A m \in 1..length : (data \o more)[at + m] = held[m]
<1>1. /\ Len(data \o more) = Len(data) + Len(more)
      /\ Len(more) \in Nat /\ Len(data) \in Nat
      /\ \A m \in 1..Len(data) : (data \o more)[m] = data[m]
  BY ConcatProperties
<1>2. ASSUME NEW m \in 1..length PROVE (data \o more)[at + m] = data[at + m]
  <2>1. at + m \in 1..Len(data)
    BY <1>1
  <2> QED
    BY <2>1, <1>1
<1> QED
  BY <1>1, <1>2

----------------------------------------------------------------------------
(* One lemma per action. *)

LEMMA InitIInv == Init => IInv
<1> SUFFICES ASSUME Init PROVE IInv
  OBVIOUS
<1>1. HostType
  BY EmptySeq, DirIs DEF Init, HostType, NoImage
<1> QED
  BY <1>1 DEF Init, IInv, MeasureInv, CopyInv, DoneInv, NoImage

\* Steps that leave initrdcreator alone, whatever they do to the files.
LEMMA OthersIInv ==
  ASSUME IInv, UNCHANGED creatorVars, files' \in [Paths -> Contents \cup {Absent}]
  PROVE  IInv'
BY DEF IInv, creatorVars, HostType, MeasureInv, CopyInv, DoneInv, Chained, Begins, Named, Linked, Kept, Addressable, Count

LEMMA StartIInv ==
  ASSUME IInv, NEW c \in Calls, Start(c)
  PROVE  IInv'
<1>1. HostType'
  BY AfsAssumption, EmptySeq, DirIs DEF IInv, HostType, Start, hostVars, kernelVars
<1>2. MeasureInv'
  BY DEF Start, MeasureInv, Chained, Begins, Named
<1>3. CopyInv' /\ DoneInv'
  BY DEF IInv, Start, CopyInv, DoneInv, Kept, Addressable, Linked
<1> QED
  BY <1>1, <1>2, <1>3 DEF IInv, Start

LEMMA MeasureIInv ==
  ASSUME IInv, Measure
  PROVE  IInv'
<1> DEFINE a == args[i + 1]
           h == [magic |-> MAGIC, name |-> a.name, offset |-> off, length |-> Size(a.path)]
<1> USE DEF IInv
<1>0. /\ i + 1 \in 1..Len(args) /\ a \in [path: Paths, name: Names]
      /\ i + 1 <= Count /\ Count \in Int
  <2>1. Count \in Int /\ Count <= Len(args) /\ i \in Nat /\ Len(args) \in Nat /\ i < Count
    BY CountIs DEF Measure, HostType
  <2>2. i + 1 \in 1..Len(args) /\ i + 1 <= Count
    BY <2>1
  <2>3. a \in [path: Paths, name: Names]
    BY <2>2, ElementOfSeq DEF HostType
  <2> QED
    BY <2>1, <2>2, <2>3
<1>1. CASE files[a.path] = Absent
  <2>1. pc' = "idle" /\ ret' = 1 /\ UNCHANGED <<i, off, headers, hostVars, args, image, copied, stored>>
    BY <1>1 DEF Measure
  <2>2. HostType'
    BY <2>1 DEF HostType, hostVars
  <2> QED
    BY <2>1, <2>2 DEF MeasureInv, CopyInv, DoneInv, Kept, Addressable, Linked, Measure
<1>2. CASE files[a.path] # Absent
  <2>1. /\ headers' = Append(headers, h) /\ off' = (off + Size(a.path)) % WORD /\ i' = i + 1
        /\ UNCHANGED <<pc, ret, hostVars, args, image, copied, stored>>
    BY <1>2 DEF Measure
  <2>2. Size(a.path) \in Nat /\ off' \in Nat
    <3>1. files[a.path] \in Contents
      BY <1>0, <1>2 DEF HostType
    <3>2. Len(files[a.path]) \in Nat
      BY <3>1, AfsAssumption
    <3>3. Size(a.path) \in Nat
      BY <3>2, WordIs DEF Size
    <3>4. off + Size(a.path) \in Nat
      BY <3>3 DEF HostType
    <3> QED
      BY <2>1, <3>3, <3>4, WordIs
  <2>3. h \in Header
    BY <1>0, <2>2 DEF Header, HostType
  <2>4. /\ headers' \in Seq(Header) /\ Len(headers') = Len(headers) + 1
        /\ headers'[Len(headers) + 1] = h
        /\ \A n \in 1..Len(headers) : headers'[n] = headers[n]
    BY <2>1, <2>3, AppendProperties DEF HostType
  <2>5. HostType'
    BY <2>1, <2>2, <2>4 DEF HostType, hostVars
  <2>6. Len(headers) \in Nat /\ pc = "measure" /\ i = Len(headers)
    BY DEF HostType, MeasureInv, Measure
  <2>7. Begins(headers', off', 1) = DIR
    BY <2>4, <2>6 DEF MeasureInv, Chained, Begins
  <2>8. ASSUME NEW n \in 1..Len(headers')
        PROVE  Begins(headers', off', n + 1) = (headers'[n].offset + headers'[n].length) % WORD
    <3>1. CASE n = Len(headers')
      <4> HIDE DEF h
      <4>1. h.offset = off /\ h.length = Size(a.path)
        BY DEF h
      <4> QED
        BY <3>1, <2>1, <2>4, <2>6, <4>1 DEF Begins
    <3>2. CASE n \in 1..Len(headers)
      <4>1. Begins(headers, off, n + 1) = (headers[n].offset + headers[n].length) % WORD
        BY <2>6, <3>2 DEF MeasureInv, Chained
      <4>2. headers'[n] = headers[n]
        BY <2>4, <3>2
      <4>3. Begins(headers', off', n + 1) = Begins(headers, off, n + 1)
        <5>1. CASE n = Len(headers)
          <6> HIDE DEF h
          <6>1. h.offset = off
            BY DEF h
          <6> QED
            BY <2>4, <2>6, <5>1, <6>1 DEF Begins
        <5>2. CASE n < Len(headers)
          <6>1. n + 1 \in 1..Len(headers) /\ n + 1 <= Len(headers')
            BY <2>4, <2>6, <3>2, <5>2
          <6>2. headers'[n + 1] = headers[n + 1]
            BY <2>4, <6>1
          <6> QED
            BY <2>6, <6>1, <6>2 DEF Begins
        <5> QED
          BY <2>6, <3>2, <5>1, <5>2
      <4> QED
        BY <4>1, <4>2, <4>3
    <3> QED
      BY <3>1, <3>2, <2>4, <2>6
  <2>9. Named'
    BY <1>0, <2>1, <2>4, <2>6 DEF Named, MeasureInv
  <2>10. MeasureInv'
    BY <1>0, <2>1, <2>4, <2>6, <2>7, <2>8, <2>9 DEF MeasureInv, Chained, Count
  <2> QED
    BY <2>1, <2>5, <2>6, <2>10 DEF CopyInv, DoneInv, Kept, Addressable, Linked
<1> QED
  BY <1>1, <1>2

LEMMA OpenIInv ==
  ASSUME IInv, Open
  PROVE  IInv'
<1>1. HostType'
  <2>1. Count \in Int
    BY CountIs DEF IInv
  <2> QED
    BY <2>1, EmptySeq DEF IInv, HostType, Open, hostVars
<1>2. CopyInv'
  <2>1. /\ image'.whole = FALSE /\ image'.count = Count /\ image'.headers = headers
        /\ image'.data = << >> /\ i' = 0 /\ UNCHANGED <<args, off, headers, copied>>
    BY DEF Open
  <2>2. Count' = Count
    BY <2>1 DEF Count
  <2>3. i = Len(headers) /\ (i = 0 \/ i <= Count) /\ i >= Count /\ copied = << >> /\ i \in Nat
    BY DEF IInv, MeasureInv, Open, HostType
  <2>5. Count \in Int /\ Len(headers) \in Nat
    BY CountIs DEF IInv, HostType
  <2>6. Len(headers) = IF Count < 0 THEN 0 ELSE Count
    BY <2>3, <2>5
  <2>7. DIR + Len(image'.data) = Begins(headers, off, 1)
    BY <2>1, DirIs DEF IInv, MeasureInv, Open, Chained
  <2>8. Chained(headers, off) /\ Named
    BY DEF IInv, MeasureInv, Open
  <2>9. Chained(headers', off') /\ Named' /\ headers' = headers
    BY <2>1, <2>8 DEF Named
  <2>10. Len(copied) = 0 /\ \A n \in DOMAIN copied' : Kept(image', n, copied'[n])
    BY <2>1, <2>3
  <2> QED
    BY <2>1, <2>2, <2>3, <2>5, <2>6, <2>7, <2>9, <2>10 DEF CopyInv
<1>3. DoneInv' /\ MeasureInv'
  BY DEF Open, DoneInv, MeasureInv
<1> QED
  BY <1>1, <1>2, <1>3 DEF IInv, Open

LEMMA CopyIInv ==
  ASSUME IInv, Copy
  PROVE  IInv'
<1> DEFINE a == args[i + 1]
           file == files[a.path]
           len == headers[i + 1].length
<1> USE DEF IInv
<1>0. /\ i + 1 \in 1..Len(args) /\ a \in [path: Paths, name: Names]
      /\ i + 1 \in 1..Len(headers) /\ headers[i + 1] \in Header /\ len \in Nat
  <2>1. Count \in Int /\ Count <= Len(args) /\ i \in Nat /\ Len(args) \in Nat /\ i < Count
    BY CountIs DEF Copy, HostType
  <2>2. Len(headers) = Count
    BY <2>1 DEF Copy, CopyInv
  <2>3. i + 1 \in 1..Len(args) /\ i + 1 \in 1..Len(headers)
    BY <2>1, <2>2
  <2>4. a \in [path: Paths, name: Names] /\ headers[i + 1] \in Header
    BY <2>3, ElementOfSeq DEF HostType
  <2> QED
    BY <2>3, <2>4 DEF Header
<1>1. CASE file = Absent
  <2>1. pc' = "idle" /\ ret' = Crashed /\ UNCHANGED <<i, image, copied, hostVars, args, off, headers, stored>>
    BY <1>1 DEF Copy
  <2>2. HostType'
    BY <2>1 DEF HostType, hostVars
  <2> QED
    BY <2>1, <2>2 DEF MeasureInv, CopyInv, DoneInv, Kept, Addressable, Linked, Crashed, Copy
<1>2. CASE file # Absent
  <2>1. /\ image' = [image EXCEPT !.data = image.data \o Piece(file, len)]
        /\ copied' = Append(copied, [name |-> a.name, held |-> file]) /\ i' = i + 1
        /\ UNCHANGED <<pc, ret, hostVars, args, off, headers, stored>>
    BY <1>2 DEF Copy
  <2>2. file \in Contents /\ file \in Seq(Nat)
    BY <1>0, <1>2, AfsAssumption DEF HostType
  <2>3. image.data \in Seq(Nat \cup {Junk}) /\ Len(image.data) \in Nat
    BY DEF HostType
  <2>4. /\ Piece(file, len) \in Seq(Nat \cup {Junk}) /\ Len(Piece(file, len)) = len
        /\ \A m \in 1..len : m <= Len(file) => Piece(file, len)[m] = file[m]
    BY <1>0, <2>2, PieceIs
  <2>5. /\ image'.data = image.data \o Piece(file, len) /\ image'.headers = image.headers
        /\ image'.whole = image.whole /\ image'.count = image.count
    BY <2>1 DEF HostType
  <2>6. /\ image'.data \in Seq(Nat \cup {Junk}) /\ Len(image'.data) = Len(image.data) + len
        /\ \A m \in 1..len : image'.data[Len(image.data) + m] = Piece(file, len)[m]
    <3> DEFINE data == image.data
               more == Piece(file, len)
    <3>1. data \in Seq(Nat \cup {Junk}) /\ more \in Seq(Nat \cup {Junk}) /\ Len(more) = len
      BY <2>3, <2>4
    <3>2. image'.data = data \o more
      BY <2>5
    <3>3. len \in Nat /\ Len(data) \in Nat
      BY <1>0, <2>3
    <3> HIDE DEF data, more, len
    <3>4. /\ data \o more \in Seq(Nat \cup {Junk}) /\ Len(data \o more) = Len(data) + len
          /\ \A m \in 1..Len(data) + len :
               (data \o more)[m] = IF m <= Len(data) THEN data[m] ELSE more[m - Len(data)]
      BY <3>1, ConcatProperties
    <3>5. ASSUME NEW m \in 1..len PROVE (data \o more)[Len(data) + m] = more[m]
      <4>1. Len(data) + m \in 1..Len(data) + len /\ ~(Len(data) + m <= Len(data))
        BY <3>3
      <4>2. (Len(data) + m) - Len(data) = m
        BY <3>3
      <4> QED
        BY <4>1, <4>2, <3>4
    <3>6. /\ image'.data \in Seq(Nat \cup {Junk}) /\ Len(image'.data) = Len(data) + len
          /\ \A m \in 1..len : image'.data[Len(data) + m] = more[m]
      BY <3>2, <3>4, <3>5
    <3> QED
      BY <3>6 DEF data, more
  <2>7. [name |-> a.name, held |-> file] \in Copied
    BY <1>0, <2>2 DEF Copied
  <2>8. /\ copied' \in Seq(Copied) /\ Len(copied') = Len(copied) + 1
        /\ copied'[Len(copied) + 1] = [name |-> a.name, held |-> file]
        /\ \A n \in 1..Len(copied) : copied'[n] = copied[n]
    BY <2>1, <2>7, AppendProperties DEF HostType
  <2>9. HostType'
    <3>1. image' \in [count: Int, whole: BOOLEAN, data: Seq(Nat \cup {Junk}), headers: Seq(Header)]
      BY <2>1, <2>5, <2>6 DEF HostType
    <3>2. i' \in Nat
      BY <2>1 DEF HostType
    <3> QED
      BY <2>1, <2>8, <3>1, <3>2 DEF HostType, hostVars
  <2>10. /\ pc = "copy" /\ i = Len(copied) /\ image.headers = headers /\ ~image.whole
         /\ Addressable(image) => DIR + Len(image.data) = headers[i + 1].offset
         /\ Len(copied) \in Nat /\ (Addressable(image') => Addressable(image))
    <3> DEFINE was == Len(image.data)
    <3>1. was \in Nat /\ len \in Nat /\ Len(image'.data) = was + len
      BY <1>0, <2>3, <2>6
    <3> HIDE DEF was, len
    <3>2. DIR + (was + len) < WORD => DIR + was < WORD
      BY <3>1, DirIs
    <3>3. Addressable(image') => Addressable(image)
      BY <3>1, <3>2 DEF Addressable, was
    <3> QED
      BY <1>0, <3>3 DEF Copy, CopyInv, Begins, HostType
  <2>11. Addressable(image') => DIR + Len(image'.data) = Begins(headers, off, i + 2)
    <3> SUFFICES ASSUME Addressable(image') PROVE DIR + Len(image'.data) = Begins(headers, off, i + 2)
      OBVIOUS
    <3>1. Begins(headers, off, (i + 1) + 1) = (headers[i + 1].offset + len) % WORD
      BY <1>0, <2>10 DEF CopyInv, Chained
    <3>2. i \in Nat /\ (i + 1) + 1 = i + 2
      BY DEF HostType
    <3>3. DIR + (Len(image.data) + len) = (DIR + Len(image.data)) + len
      BY <1>0, <2>3, DirIs
    <3>6. DIR + Len(image'.data) \in Nat /\ DIR + Len(image'.data) < WORD
      BY <2>6, DirIs DEF Addressable
    <3>7. DIR + Len(image'.data) = headers[i + 1].offset + len
      <4>1. DIR + Len(image'.data) = (DIR + Len(image.data)) + len
        BY <2>6, <3>3
      <4>2. DIR + Len(image.data) = headers[i + 1].offset
        BY <2>10
      <4> HIDE DEF len
      <4> QED
        BY <4>1, <4>2
    <3>4. PICK e \in Nat : e = DIR + Len(image'.data) /\ e < WORD /\ e = headers[i + 1].offset + len
      BY <3>6, <3>7
    <3>5. e % WORD = e
      BY <3>4, WordIs
    <3> QED
      BY <3>1, <3>2, <3>4, <3>5
  <2>12. ASSUME NEW n \in DOMAIN copied'
         PROVE  Kept(image', n, copied'[n])
    <3>1. CASE n = Len(copied) + 1
      <4>1. image'.headers[n] = headers[i + 1] /\ copied'[n].name = a.name /\ copied'[n].held = file
        BY <3>1, <2>5, <2>8, <2>10
      <4>2. Addressable(image') => headers[i + 1].offset - DIR = Len(image.data)
        BY <2>10, <2>3, DirIs
      <4>3. headers[i + 1].name = a.name
        BY <1>0, <2>10 DEF CopyInv, Named
      <4>4. headers[i + 1].length = len /\ Len(image.data) + len <= Len(image'.data)
            /\ Len(image.data) >= 0
        BY <2>3, <2>6, <1>0
      <4>5. \A m \in 1..len : image'.data[Len(image.data) + m] = Piece(file, len)[m]
        BY <2>6
      <4> HIDE DEF file, len, a
      <4> QED
        BY <4>1, <4>2, <4>3, <4>4, <4>5 DEF Kept
    <3>2. CASE n \in 1..Len(copied)
      <4> DEFINE h == image.headers[n]
                 at == h.offset - DIR
      <4>1. Kept(image, n, copied[n]) /\ copied'[n] = copied[n]
        BY <3>2, <2>8, <2>10 DEF CopyInv, HostType
      <4>2. h.offset \in Nat /\ h.length \in Nat
        <5>1. n \in 1..Len(headers)
          BY <3>2, <2>10 DEF CopyInv, HostType
        <5>2. headers[n] \in Header
          BY <5>1, ElementOfSeq DEF HostType
        <5> QED
          BY <5>2, <2>10 DEF Header
      <4>7. h.name = copied'[n].name /\ h = image'.headers[n] /\ copied'[n] = copied[n]
        BY <4>1, <2>5 DEF Kept
      <4> SUFFICES ASSUME Addressable(image')
                   PROVE  /\ at >= 0 /\ at + h.length <= Len(image'.data)
                          /\ \A m \in 1..h.length : image'.data[at + m] = Piece(copied[n].held, h.length)[m]
        <5> HIDE DEF h
        <5> QED
          BY <4>7 DEF Kept
      <4>3. at >= 0 /\ at + h.length <= Len(image.data)
            /\ \A m \in 1..h.length : image.data[at + m] = Piece(copied[n].held, h.length)[m]
        BY <4>1, <2>10 DEF Kept
      <4>4. at \in Nat /\ at + h.length <= Len(image.data)
        BY <4>2, <4>3, DirIs
      <4> HIDE DEF at
      <4>6. /\ at + h.length <= Len(image'.data)
            /\ \A m \in 1..h.length : image'.data[at + m] = Piece(copied[n].held, h.length)[m]
        <5> HIDE DEF h
        <5> QED
          <6> DEFINE data == image.data
                     more == Piece(file, len)
                     held == Piece(copied[n].held, h.length)
                     length == h.length
          <6>1. /\ data \in Seq(Nat \cup {Junk}) /\ more \in Seq(Nat \cup {Junk})
                /\ at \in Nat /\ length \in Nat /\ at + length <= Len(data)
                /\ \A m \in 1..length : data[at + m] = held[m]
            BY <4>2, <4>3, <4>4, <2>3, <2>4
          <6> HIDE DEF data, more, held, length
          <6>2. /\ at + length <= Len(data \o more)
                /\ \A m \in 1..length : (data \o more)[at + m] = held[m]
            BY <6>1, FoundBehind
          <6> QED
            BY <6>2, <2>5 DEF data, more, held, length
      <4> QED
        BY <4>4, <4>6
    <3> QED
      BY <3>1, <3>2, <2>8, <2>10
  <2>13. CopyInv'
    <3>1. Count' = Count /\ headers' = headers /\ off' = off
      BY <2>1 DEF Count
    <3>2. Chained(headers', off') /\ Named' /\ Len(headers') = IF Count' < 0 THEN 0 ELSE Count'
      BY <2>1, <2>10, <3>1 DEF CopyInv, Named
    <3>3. i' = Len(copied') /\ i' <= Len(headers') /\ i' + 1 = i + 2
      BY <1>0, <2>1, <2>8, <2>10, <3>1 DEF HostType
    <3>4. Addressable(image') => DIR + Len(image'.data) = Begins(headers', off', i' + 1)
      BY <2>11, <3>1, <3>3
    <3>5. ~image'.whole /\ image'.count = Count' /\ image'.headers = headers'
      BY <2>5, <2>10, <3>1 DEF CopyInv
    <3> QED
      BY <2>12, <3>2, <3>3, <3>4, <3>5 DEF CopyInv
  <2> QED
    BY <2>1, <2>5, <2>9, <2>10, <2>13 DEF MeasureInv, DoneInv
<1> QED
  BY <1>1, <1>2

LEMMA CloseIInv ==
  ASSUME IInv, Close
  PROVE  IInv'
<1>1. /\ image'.count = image.count /\ image'.headers = image.headers /\ image'.data = image.data
      /\ image' \in [count: Int, whole: BOOLEAN, data: Seq(Nat \cup {Junk}), headers: Seq(Header)]
      /\ stored' = copied /\ pc' = "idle" /\ UNCHANGED <<hostVars, args, i, off, headers, copied>>
  BY DEF IInv, HostType, Close
<1>2. HostType'
  BY <1>1 DEF IInv, HostType, hostVars
<1>3. pc = "copy" /\ i >= Count /\ i \in Nat /\ Len(headers) \in Nat /\ Count \in Int
  BY CountIs DEF IInv, HostType, CopyInv, Close
<1>4. Len(headers) = Len(copied) /\ (Count >= 0 => Count = Len(copied))
  BY <1>3 DEF IInv, CopyInv
<1>5. \A n \in DOMAIN copied : Kept(image', n, copied[n])
  BY <1>1, <1>3 DEF IInv, CopyInv, Kept, Addressable
<1>6. Linked(headers)
  <2>1. Chained(headers, off) /\ Len(headers) \in Nat
    BY <1>3 DEF IInv, CopyInv
  <2> SUFFICES ASSUME NEW n \in 1..Len(headers)
               PROVE  headers[n].offset =
                        IF n = 1 THEN DIR ELSE (headers[n - 1].offset + headers[n - 1].length) % WORD
    BY DEF Linked
  <2>2. CASE n = 1
    BY <2>1, <2>2 DEF Chained, Begins
  <2>3. CASE n # 1
    <3>1. n - 1 \in 1..Len(headers) /\ (n - 1) + 1 = n
      BY <2>1, <2>3
    <3>2. Begins(headers, off, (n - 1) + 1) = (headers[n - 1].offset + headers[n - 1].length) % WORD
      BY <2>1, <3>1 DEF Chained
    <3> QED
      BY <2>3, <3>1, <3>2 DEF Begins
  <2> QED
    BY <2>2, <2>3
<1>7. image'.headers = headers /\ Linked(image'.headers)
  BY <1>1, <1>3, <1>6 DEF IInv, CopyInv
<1>8. DoneInv'
  BY <1>1, <1>3, <1>4, <1>5, <1>7 DEF DoneInv, IInv, CopyInv, Count
<1> QED
  BY <1>1, <1>2, <1>8 DEF IInv, MeasureInv, CopyInv

LEMMA NextIInv ==
  ASSUME IInv, [Next]_vars
  PROVE  IInv'
<1>1. ASSUME NEW c \in Calls, Start(c) PROVE IInv'
  BY <1>1, StartIInv
<1>2. CASE Measure
  BY <1>2, MeasureIInv
<1>3. CASE Open
  BY <1>3, OpenIInv
<1>4. CASE Copy
  BY <1>4, CopyIInv
<1>5. CASE Close
  BY <1>5, CloseIInv
<1>6. ASSUME NEW p \in Paths, Edit(p) PROVE IInv'
  <2>1. files' \in [Paths -> Contents \cup {Absent}]
    BY <1>6 DEF IInv, HostType, Edit
  <2> QED
    BY <1>6, <2>1, OthersIInv DEF Edit
<1>7. CASE ReadDisk \/ List \/ ListUnread \/ Overrun \/ Return \/ TurnOff \/ UNCHANGED vars
  <2>1. UNCHANGED <<hostVars, creatorVars>>
    BY <1>7 DEF ReadDisk, List, ListUnread, Overrun, Return, TurnOff, vars
  <2>2. files' \in [Paths -> Contents \cup {Absent}]
    BY <2>1 DEF IInv, HostType, hostVars
  <2> QED
    BY <2>1, <2>2, OthersIInv
<1> QED
  BY <1>1, <1>2, <1>3, <1>4, <1>5, <1>6, <1>7 DEF Next

LEMMA IInvHolds ==
  ASSUME IInv
  PROVE  OffsetsPointHome
<1>1. Len(args) < SLOTS => Count = Len(args)
  BY CountIs DEF IInv
<1>2. ASSUME NEW n \in DOMAIN stored, Kept(image, n, stored[n]), image.headers[n] \in Header
      PROVE  Addressable(image) => Found(image, n, stored[n])
  <2>1. \A m \in 1..image.headers[n].length :
          m <= Len(stored[n].held) => Piece(stored[n].held, image.headers[n].length)[m] = stored[n].held[m]
    BY DEF Piece
  <2> QED
    BY <1>2, <2>1 DEF Found, Kept
<1>3. image.whole => \A n \in DOMAIN stored : image.headers[n] \in Header
  <2>1. image.headers \in Seq(Header) /\ stored \in Seq(Copied)
    BY DEF IInv, HostType
  <2> QED
    BY <2>1, ElementOfSeq DEF IInv, DoneInv
<1> QED
  BY <1>1, <1>2, <1>3 DEF IInv, DoneInv, OffsetsPointHome

\* Whatever other programs do to the files between the two passes, for any
\* files, contents and command lines: each file that a finished image counts is
\* found where its header says, as far as a header can say it; and it counts
\* all that were asked for, if they are fewer than 64.
THEOREM OffsetsAreRight == Spec => []OffsetsPointHome
<1>1. Init => IInv
  BY InitIInv
<1>2. IInv /\ [Next]_vars => IInv'
  BY NextIInv
<1>3. IInv => OffsetsPointHome
  BY IInvHolds
<1> QED
  BY <1>1, <1>2, <1>3, PTL DEF Spec

----------------------------------------------------------------------------
(* What the kernel lists. *)

\* monitor_write shows what lies in front of the first 0.
LEMMA TextFact ==
  ASSUME NEW S, NEW s \in Seq(S)
  PROVE  \E e \in 0..Len(s) : /\ Text(s) \in Seq(S) /\ Len(Text(s)) = e
                              /\ \A m \in 1..e : Text(s)[m] = s[m] /\ s[m] # 0
                              /\ e < Len(s) => s[e + 1] = 0
<1>1. PICK len \in Nat : len = Len(s) /\ DOMAIN s = 1..len
  OBVIOUS
<1> DEFINE Ends == {n \in DOMAIN s : s[n] = 0}
<1>2. CASE Ends = {}
  <2>1. Text(s) = s
    BY <1>2 DEF Text
  <2>2. \A m \in 1..len : s[m] # 0
    BY <1>1, <1>2
  <2>3. len \in 0..Len(s) /\ ~(len < Len(s))
    BY <1>1
  <2> QED
    BY <1>1, <2>1, <2>2, <2>3
<1>3. CASE Ends # {}
  <2>1. Ends \subseteq Nat
    BY <1>1
  <2>2. \E n \in Ends : \A m \in Ends : n <= m
    <3> HIDE DEF Ends
    <3>1. PICK n \in Ends : \A m \in Ends : ~(<<m, n>> \in OpToRel(<, Nat))
      BY <1>3, <2>1, WFMin, NatLessThanWellFounded
    <3>2. \A m \in Ends : ~(m < n)
      BY <2>1, <3>1 DEF OpToRel
    <3>3. n \in Nat /\ \A m \in Ends : m \in Nat
      BY <2>1
    <3> QED
      BY <3>2, <3>3
  <2>3. PICK n : n = CHOOSE m \in Ends : \A j \in Ends : m <= j
    OBVIOUS
  <2>4. n \in Ends /\ \A j \in Ends : n <= j
    BY <2>2, <2>3
  <2>5. n \in 1..len /\ s[n] = 0 /\ \A m \in 1..len : s[m] = 0 => n <= m
    BY <1>1, <2>4
  <2>6. Text(s) = SubSeq(s, 1, n - 1)
    BY <1>3, <2>3 DEF Text
  <2>7. PICK e \in Nat : e = n - 1 /\ e \in 0..len /\ e + 1 = n
    BY <2>5
  <2>8. \A m \in 1..e : m \in 1..len /\ s[m] # 0
    BY <2>5, <2>7
  <2>9. \A m \in 1..e : s[m] \in S
    BY <1>1, <2>8, ElementOfSeq
  <2>10. SubSeq(s, 1, e) = [m \in 1..e |-> s[m]]
    BY <1>1, <2>7
  <2>11. [m \in 1..e |-> s[m]] \in [1..e -> S]
    BY <2>9
  <2>12. /\ SubSeq(s, 1, e) \in Seq(S) /\ Len(SubSeq(s, 1, e)) = e
         /\ \A m \in 1..e : SubSeq(s, 1, e)[m] = s[m]
    BY <2>10, <2>11, SeqDef
  <2> QED
    BY <1>1, <2>5, <2>6, <2>7, <2>8, <2>12
<1> QED
  BY <1>2, <1>3

\* An array that begins with another is shown as a text that begins with the
\* other's.
LEMMA TextPrefix ==
  ASSUME NEW S, NEW p \in Seq(S), NEW q \in Seq(S), Len(p) <= Len(q),
         \A m \in 1..Len(p) : q[m] = p[m]
  PROVE  IsPrefix(Text(p), Text(q))
<1>1. PICK a \in Nat, b \in Nat : a = Len(p) /\ b = Len(q) /\ a <= b
  OBVIOUS
<1>2. PICK e \in 0..a : /\ Text(p) \in Seq(S) /\ Len(Text(p)) = e
                        /\ \A m \in 1..e : Text(p)[m] = p[m] /\ p[m] # 0
                        /\ e < a => p[e + 1] = 0
  BY <1>1, TextFact
<1>3. PICK f \in 0..b : /\ Text(q) \in Seq(S) /\ Len(Text(q)) = f
                        /\ \A m \in 1..f : Text(q)[m] = q[m] /\ q[m] # 0
                        /\ f < b => q[f + 1] = 0
  BY <1>1, TextFact
<1>4. e <= f
  <2> SUFFICES ASSUME f < e PROVE FALSE
    BY <1>1
  <2>1. f < b /\ f + 1 \in 1..e /\ f + 1 \in 1..Len(p)
    BY <1>1
  <2> QED
    BY <1>2, <1>3, <2>1
<1>5. \A m \in 1..e : Text(p)[m] = Text(q)[m]
  <2> SUFFICES ASSUME NEW m \in 1..e PROVE Text(p)[m] = Text(q)[m]
    OBVIOUS
  <2>1. m \in 1..f /\ m \in 1..Len(p)
    BY <1>1, <1>4
  <2> QED
    BY <1>2, <1>3, <2>1
<1>6. SubSeq(Text(p), 1, e) = [m \in 1..e |-> Text(p)[m]]
  BY <1>2
<1>7. SubSeq(Text(q), 1, e) = [m \in 1..e |-> Text(q)[m]]
  BY <1>3, <1>4
<1>8. SubSeq(Text(p), 1, e) = SubSeq(Text(q), 1, e)
  BY <1>5, <1>6, <1>7
<1> QED
  BY <1>2, <1>3, <1>4, <1>8 DEF IsPrefix

\* What is listed so far, while the kernel's main runs, is the image's files in
\* their order, and the index does not run past them.
Shows(n) ==
  HeaderRead(n) =>
    /\ n <= Len(stored) /\ shown[n].name = stored[n].name
    /\ n <= 2 => BeginsWithFile(n)
Listing == [name: Names \cup {Unread}, text: Seq(Nat \cup {Junk})]
MainInv ==
  kpc # "off" =>
    /\ pc = "idle" /\ image.whole /\ disk = image /\ sectors \in 0..SECTORS
    /\ content \in [1..CONTENT -> Nat \cup {Junk}]
    /\ k \in Nat /\ (k = 0 \/ k <= Result)
    /\ shown \in Seq(Listing) /\ Len(shown) = k
    /\ \A n \in 1..k : Shows(n)
DiskInv ==
  /\ kpc \in {"off", "list", "returned", "wild", "overrun"}
  /\ kpc = "off" => shown = << >>
  /\ MainInv
  /\ kpc \in {"returned", "wild"} => ~MoreFiles

\* The result is a number, and the image's count when it is above 0.
LEMMA ResultIs ==
  ASSUME IInv, MainInv, kpc # "off"
  PROVE  Result \in Int /\ (Result > 0 => sectors > 0 /\ Result = image.count /\ disk = image)
<1>1. disk = image /\ image.count \in Int /\ sectors \in 0..SECTORS
  BY DEF IInv, HostType, MainInv
<1> QED
  BY <1>1 DEF Result, SECTORS

\* As long as there is a next file, its header is there, and so is what it
\* holds.
LEMMA NextFile ==
  ASSUME IInv, MainInv, kpc # "off", MoreFiles
  PROVE  /\ k + 1 \in 1..Len(stored) /\ Len(stored) = Result /\ sectors > 0
         /\ k + 1 \in 1..Len(disk.headers) /\ Len(disk.headers) = Len(stored)
         /\ disk.headers[k + 1] \in Header /\ stored[k + 1] \in Copied
         /\ disk.headers[k + 1].name = stored[k + 1].name
         /\ Kept(disk, k + 1, stored[k + 1]) /\ Linked(disk.headers)
<1>1. k \in Nat /\ disk = image /\ image.whole
  BY DEF MainInv
<1>2. Result > 0 /\ Result \in Int /\ k + 1 <= Result
  BY <1>1, ResultIs DEF MoreFiles
<1>3. image.count = Result /\ image.count >= 0 /\ sectors > 0
  BY <1>2, ResultIs
<1>4. /\ image.count = Len(stored) /\ Len(image.headers) = Len(stored)
      /\ Linked(image.headers) /\ \A n \in DOMAIN stored : Kept(image, n, stored[n])
  BY <1>1, <1>3 DEF IInv, DoneInv
<1>5. image.headers \in Seq(Header) /\ stored \in Seq(Copied)
  BY DEF IInv, HostType
<1>6. k + 1 \in 1..Len(stored) /\ k + 1 \in 1..Len(image.headers)
  BY <1>1, <1>2, <1>3, <1>4
<1>7. k + 1 \in DOMAIN stored
  BY <1>5, <1>6
<1>8. image.headers[k + 1] \in Header /\ stored[k + 1] \in Copied
  BY <1>5, <1>6, ElementOfSeq
<1>9. Kept(image, k + 1, stored[k + 1])
  BY <1>4, <1>7
<1>10. image.headers[k + 1].name = stored[k + 1].name
  BY <1>9 DEF Kept
<1> QED
  BY <1>1, <1>3, <1>4, <1>6, <1>8, <1>9, <1>10

\* What main reads from the image is bytes, or what nobody has set.
LEMMA ByteIs ==
  ASSUME IInv, MainInv, kpc # "off", NEW n \in Nat \ {0}
  PROVE  /\ DataByte(n) \in Nat \cup {Junk}
         /\ sectors = SECTORS /\ n <= Room /\ n <= Len(disk.data) => DataByte(n) = disk.data[n]
<1>1. disk = image /\ sectors \in 0..SECTORS /\ Room \in Nat
  BY AfsAssumption DEF MainInv
<1>2. image.data \in Seq(Nat \cup {Junk})
  BY DEF IInv, HostType
<1>3. disk.data \in Seq(Nat \cup {Junk})
  BY <1>1, <1>2
<1>4. n <= Len(disk.data) => disk.data[n] \in Nat \cup {Junk}
  BY <1>3, ElementOfSeq
<1> QED
  BY <1>1, <1>4 DEF DataByte, SECTORS

\* The first two files are looked for where they are.
LEMMA FirstTwo ==
  ASSUME IInv, MainInv, kpc # "off", MoreFiles, k + 1 <= 2, Addressable(disk)
  PROVE  disk.headers[k + 1].offset = DIR + ContentsAt(k) /\ ContentsAt(k) \in Nat
<1>1. k \in Nat
  BY DEF MainInv
<1>2. Linked(disk.headers) /\ k + 1 \in 1..Len(disk.headers)
  BY NextFile
<1>3. CASE k = 0
  BY <1>2, <1>3, DirIs DEF Linked, ContentsAt
<1>4. CASE k = 1
  <2>1. 1 \in 1..Len(disk.headers) /\ 2 \in 1..Len(disk.headers)
    BY <1>2, <1>4
  <2>2. disk.headers[1].offset = DIR
    BY <1>2, <2>1 DEF Linked
  <2>3. disk.headers[2].offset = (disk.headers[2 - 1].offset + disk.headers[2 - 1].length) % WORD
    BY <1>2, <2>1 DEF Linked
  <2>4. disk.headers \in Seq(Header)
    <3>1. disk = image
      BY DEF MainInv
    <3> QED
      BY <3>1 DEF IInv, HostType
  <2>5. disk.headers[1].length \in Nat
    <3>1. disk.headers[1] \in Header
      BY <2>1, <2>4, ElementOfSeq
    <3> QED
      BY <3>1 DEF Header
  <2>6. 2 - 1 = 1 /\ k + 1 = 2
    BY <1>4
  <2>7. DIR + disk.headers[1].length < WORD
    <3> DEFINE len == disk.headers[1].length
               end == Len(disk.data)
    <3>1. disk = image /\ Len(stored) = Len(disk.headers) /\ stored \in Seq(Copied)
      BY NextFile DEF MainInv, IInv, HostType
    <3>2. 1 \in DOMAIN stored
      BY <2>1, <3>1
    <3>3. Kept(disk, 1, stored[1])
      BY <3>1, <3>2 DEF MainInv, IInv, DoneInv
    <3>4. (disk.headers[1].offset - DIR) + len <= end
      BY <3>3 DEF Kept
    <3>5. end \in Nat /\ DIR + end < WORD
      BY <3>1 DEF IInv, HostType, Addressable
    <3>6. len \in Nat
      BY <2>5
    <3> HIDE DEF len, end
    <3>7. len <= end
      BY <2>2, <3>4, <3>5, <3>6, DirIs
    <3>8. DIR + len < WORD
      BY <3>5, <3>6, <3>7, DirIs
    <3> QED
      BY <3>8 DEF len
  <2>8. PICK e \in Nat : e = DIR + disk.headers[1].length /\ e < WORD
    BY <2>5, <2>7, DirIs
  <2>9. e % WORD = e
    BY <2>8, WordIs
  <2>10. disk.headers[2].offset = DIR + disk.headers[1].length
    BY <2>2, <2>3, <2>6, <2>8, <2>9
  <2> QED
    BY <1>4, <2>5, <2>6, <2>10 DEF ContentsAt
<1> QED
  BY <1>1, <1>3, <1>4

\* Where the contents of a file are looked for is a number.
LEMMA AtIs ==
  ASSUME IInv, MainInv, kpc # "off", MoreFiles
  PROVE  ContentsAt(k) \in Nat
<1>1. k \in Nat /\ disk = image
  BY DEF MainInv
<1>2. CASE k = 0
  BY <1>2 DEF ContentsAt
<1>3. CASE k # 0
  <2>1. disk.headers \in Seq(Header)
    BY <1>1 DEF IInv, HostType
  <2>2. k \in 1..Len(disk.headers)
    BY <1>1, <1>3, <2>1, NextFile
  <2>3. disk.headers[k] \in Header
    BY <2>1, <2>2, ElementOfSeq
  <2>4. disk.headers[k].length \in Nat
    BY <1>1, <2>3 DEF Header
  <2> QED
    BY <1>3, <2>4 DEF ContentsAt
<1> QED
  BY <1>2, <1>3

LEMMA ListMain ==
  ASSUME IInv, MainInv, List
  PROVE  MainInv'
<1> DEFINE h == disk.headers[k + 1]
           at == ContentsAt(k)
           was == stored[k + 1]
           now == [n \in 1..CONTENT |-> IF n <= h.length THEN DataByte(at + n) ELSE content[n]]
           line == [name |-> h.name, text |-> Text(now)]
<1>1. /\ kpc = "list" /\ kpc # "off" /\ MoreFiles
      /\ h.length <= CONTENT
      /\ content' = now /\ shown' = Append(shown, line) /\ k' = k + 1
      /\ UNCHANGED <<hostVars, creatorVars, kpc, sectors, disk>>
  BY DEF List
<1>2. UNCHANGED <<pc, image, stored, kpc, sectors, disk>>
  BY <1>1 DEF creatorVars
<1>3. CONTENT \in Nat /\ Room \in Nat /\ k \in Nat /\ Len(shown) = k /\ shown \in Seq(Listing)
  BY <1>1, AfsAssumption DEF MainInv
<1>4. /\ k + 1 \in 1..Len(stored) /\ Len(stored) = Result /\ k + 1 \in 1..Len(disk.headers)
      /\ h \in Header /\ was \in Copied /\ h.name = was.name
      /\ Kept(disk, k + 1, was)
  BY <1>1, NextFile
<1>5. at \in Nat /\ h.length \in 0..CONTENT /\ h.length \in Nat /\ h.name \in Names /\ h.offset \in Nat
  <2>1. h.length \in Nat /\ h.name \in Names /\ h.offset \in Nat
    BY <1>4 DEF Header
  <2>2. at \in Nat
    BY <1>1, AtIs
  <2> HIDE DEF h, at
  <2> QED
    BY <1>1, <1>3, <2>1, <2>2
<1>6. was.held \in Seq(Nat)
  BY <1>4, AfsAssumption DEF Copied
<1>7. now \in [1..CONTENT -> Nat \cup {Junk}]
  <2> SUFFICES ASSUME NEW n \in 1..CONTENT
               PROVE  (IF n <= h.length THEN DataByte(at + n) ELSE content[n]) \in Nat \cup {Junk}
    OBVIOUS
  <2>1. at + n \in Nat \ {0}
    BY <1>3, <1>5
  <2>2. DataByte(at + n) \in Nat \cup {Junk}
    BY <1>1, <2>1, ByteIs
  <2>3. content[n] \in Nat \cup {Junk}
    BY <1>1 DEF MainInv
  <2> QED
    BY <2>2, <2>3
<1>8. now \in Seq(Nat \cup {Junk}) /\ Len(now) = CONTENT
  <2> HIDE DEF now
  <2> QED
    BY <1>3, <1>7
<1>9. Text(now) \in Seq(Nat \cup {Junk})
  <2> HIDE DEF now
  <2> QED
    BY <1>8, TextFact
<1>10. line \in Listing
  BY <1>5, <1>9 DEF Listing
<1>11. /\ shown' \in Seq(Listing) /\ Len(shown') = k + 1 /\ shown'[k + 1] = line
       /\ \A n \in 1..k : shown'[n] = shown[n]
  <2> HIDE DEF line
  <2> QED
    BY <1>1, <1>3, <1>10, AppendProperties
<1>12. Result' = Result
  BY <1>2 DEF Result
<1>13. ASSUME k + 1 <= 2, sectors = SECTORS, Addressable(disk), h.offset + h.length <= DIR + Room
       PROVE  IsPrefix(Text(Piece(was.held, h.length)), Text(now))
  <2>1. h.offset = DIR + at
    BY <1>1, <1>13, FirstTwo
  <2> DEFINE piece == Piece(was.held, h.length)
  <2>2. piece \in Seq(Nat \cup {Junk}) /\ Len(piece) = h.length
    BY <1>5, <1>6, PieceIs
  <2>3. DIR \in Nat /\ h.offset - DIR = at
    BY <1>5, <2>1, DirIs
  <2>4. at + h.length <= Room
    <3> DEFINE len == h.length
               begin == h.offset
    <3>1. len \in Nat /\ at \in Nat /\ begin = DIR + at /\ begin + len <= DIR + Room
      BY <1>5, <1>13, <2>1
    <3> HIDE DEF len, begin, at
    <3>2. (DIR + at) + len <= DIR + Room
      BY <3>1
    <3>3. at + len <= Room
      BY <3>1, <3>2, <2>3, <1>3
    <3> QED
      BY <3>3 DEF len
  <2>5. /\ (h.offset - DIR) + h.length <= Len(disk.data)
        /\ \A m \in 1..h.length : disk.data[(h.offset - DIR) + m] = Piece(was.held, h.length)[m]
    BY <1>4, <1>13 DEF Kept
  <2>6. /\ at + h.length <= Len(disk.data)
        /\ \A m \in 1..h.length : disk.data[at + m] = piece[m]
    BY <2>3, <2>5
  <2>7. disk.data \in Seq(Nat \cup {Junk})
    <3>1. disk = image
      BY <1>1 DEF MainInv
    <3> QED
      BY <3>1 DEF IInv, HostType
  <2>8. ASSUME NEW m \in 1..h.length PROVE now[m] = piece[m]
    <3>1. m \in 1..CONTENT /\ at + m \in Nat \ {0} /\ at + m <= Room /\ at + m <= Len(disk.data)
      <4> DEFINE len == h.length
      <4>1. at \in Nat /\ len \in 0..CONTENT /\ m \in 1..len /\ at + len <= Room /\ at + len <= Len(disk.data)
        BY <1>5, <2>4, <2>6, <2>8
      <4>2. Len(disk.data) \in Nat
        BY <2>7
      <4> HIDE DEF len, at
      <4> QED
        BY <4>1, <4>2, <1>3
    <3>2. DataByte(at + m) = disk.data[at + m]
      BY <1>1, <1>13, <3>1, ByteIs
    <3>3. now[m] = DataByte(at + m)
      BY <3>1, <2>8, <1>5
    <3> QED
      BY <2>6, <2>8, <3>2, <3>3
  <2> HIDE DEF piece, now
  <2>9. Len(piece) <= Len(now) /\ \A m \in 1..Len(piece) : now[m] = piece[m]
    BY <1>3, <1>5, <1>8, <2>2, <2>8
  <2>10. IsPrefix(Text(piece), Text(now))
    BY <1>8, <2>2, <2>9, TextPrefix
  <2> QED
    BY <2>10 DEF piece
<1>14. ASSUME NEW n \in 1..k + 1 PROVE Shows(n)'
  <2>1. CASE n = k + 1
    <3>1. stored' = stored /\ disk' = disk /\ sectors' = sectors
          /\ shown'[n].name = h.name /\ shown'[n].text = Text(now)
      <4> HIDE DEF now
      <4>1. line.name = h.name /\ line.text = Text(now)
        OBVIOUS
      <4> HIDE DEF line
      <4> QED
        BY <1>2, <1>11, <2>1, <4>1
    <3>2. n <= Len(stored) /\ shown'[n].name = stored[n].name
      BY <1>4, <2>1, <3>1
    <3>3. n <= 2 => BeginsWithFile(n)'
      <4> HIDE DEF now
      <4> QED
        BY <1>13, <2>1, <3>1 DEF BeginsWithFile, Addressable
    <3> QED
      BY <3>1, <3>2, <3>3 DEF Shows
  <2>2. CASE n \in 1..k
    <3>1. Shows(n) /\ shown'[n] = shown[n]
      BY <1>1, <1>11, <2>2 DEF MainInv
    <3>2. stored' = stored /\ disk' = disk /\ sectors' = sectors
      BY <1>2
    <3> QED
      BY <3>1, <3>2 DEF Shows, BeginsWithFile, HeaderRead
  <2> QED
    BY <1>3, <2>1, <2>2
<1>15. k' \in Nat /\ k' <= Result' /\ k' = k + 1
  BY <1>1, <1>3, <1>4, <1>12
<1>16. content' \in [1..CONTENT -> Nat \cup {Junk}]
  BY <1>1, <1>7
<1>17. pc' = "idle" /\ image'.whole /\ disk' = image' /\ sectors' \in 0..SECTORS
  BY <1>1, <1>2 DEF MainInv
<1> HIDE DEF now, line
<1> QED
  BY <1>11, <1>14, <1>15, <1>16, <1>17 DEF MainInv

\* A line for a header that was not read says nothing, and goes with none of
\* the lines that have to be right.
LEMMA ListUnreadMain ==
  ASSUME IInv, MainInv, ListUnread
  PROVE  MainInv'
<1> DEFINE line == [name |-> Unread, text |-> <<Junk>>]
<1>1. /\ kpc # "off" /\ MoreFiles /\ ~HeaderRead(k + 1)
      /\ content' = [n \in 1..CONTENT |-> Junk] /\ shown' = Append(shown, line) /\ k' = k + 1
      /\ UNCHANGED <<pc, image, stored, kpc, sectors, disk>>
  BY DEF ListUnread, creatorVars
<1>2. k \in Nat /\ Len(shown) = k /\ shown \in Seq(Listing)
  BY <1>1 DEF MainInv
<1>3. line \in Listing
  BY DEF Listing
<1>4. /\ shown' \in Seq(Listing) /\ Len(shown') = k + 1
      /\ \A n \in 1..k : shown'[n] = shown[n]
  <2> HIDE DEF line
  <2> QED
    BY <1>1, <1>2, <1>3, AppendProperties
<1>5. Result' = Result /\ k + 1 <= Result
  <2>1. Result \in Int /\ k < Result
    BY <1>1, ResultIs DEF MoreFiles
  <2> QED
    BY <1>1, <1>2, <2>1 DEF Result
<1>6. ASSUME NEW n \in 1..k + 1 PROVE Shows(n)'
  <2>1. CASE n = k + 1
    BY <1>1, <2>1 DEF Shows, HeaderRead
  <2>2. CASE n \in 1..k
    <3>1. Shows(n) /\ shown'[n] = shown[n]
      BY <1>1, <1>4, <2>2 DEF MainInv
    <3> QED
      BY <1>1, <3>1 DEF Shows, BeginsWithFile, HeaderRead
  <2> QED
    BY <1>2, <2>1, <2>2
<1>7. content' \in [1..CONTENT -> Nat \cup {Junk}]
  BY <1>1
<1>8. pc' = "idle" /\ image'.whole /\ disk' = image' /\ sectors' \in 0..SECTORS
  BY <1>1 DEF MainInv
<1> HIDE DEF line
<1> QED
  BY <1>1, <1>2, <1>4, <1>5, <1>6, <1>7, <1>8 DEF MainInv

\* What leaves the image, the drive and the listing alone keeps the invariant.
LEMMA IdleDisk ==
  ASSUME DiskInv, UNCHANGED kernelVars,
         kpc = "off" \/ UNCHANGED <<pc, image, stored>>
  PROVE  DiskInv'
<1>1. UNCHANGED <<kpc, sectors, disk, content, k, shown>>
  BY DEF kernelVars
<1>2. Result' = Result /\ MoreFiles' = MoreFiles
  BY <1>1 DEF Result, MoreFiles
<1>3. CASE kpc = "off"
  BY <1>1, <1>2, <1>3 DEF DiskInv, MainInv
<1>4. CASE kpc # "off"
  <2>1. pc' = pc /\ image' = image /\ stored' = stored
    BY <1>4
  <2>2. \A n : Shows(n)' = Shows(n)
    BY <1>1, <2>1 DEF Shows, BeginsWithFile, HeaderRead
  <2> QED
    BY <1>1, <1>2, <2>1, <2>2 DEF DiskInv, MainInv
<1> QED
  BY <1>3, <1>4

LEMMA NextDisk ==
  ASSUME IInv, DiskInv, [Next]_vars
  PROVE  DiskInv'
<1>1. CASE (\E c \in Calls : Start(c)) \/ (\E p \in Paths : Edit(p))
  <2>1. kpc = "off" /\ UNCHANGED kernelVars
    BY <1>1 DEF Start, Edit
  <2> QED
    BY <2>1, IdleDisk
<1>2. CASE Measure \/ Open \/ Copy \/ Close
  <2>1. pc # "idle" /\ UNCHANGED kernelVars
    BY <1>2 DEF Measure, Open, Copy, Close
  <2>2. kpc = "off"
    BY <2>1 DEF DiskInv, MainInv
  <2> QED
    BY <2>1, <2>2, IdleDisk
<1>3. CASE UNCHANGED vars
  BY <1>3, IdleDisk DEF vars, creatorVars
<1>4. CASE ReadDisk
  <2>1. /\ pc = "idle" /\ image.whole /\ disk' = image /\ sectors' \in 0..SECTORS
        /\ kpc' = "list" /\ k' = 0 /\ shown' = << >> /\ content' = [n \in 1..CONTENT |-> Junk]
        /\ pc' = pc /\ image' = image
    BY <1>4 DEF ReadDisk, creatorVars
  <2>2. content' \in [1..CONTENT -> Nat \cup {Junk}]
    BY <2>1
  <2>3. shown' \in Seq(Listing) /\ Len(shown') = 0 /\ \A n \in 1..0 : Shows(n)'
    BY <2>1
  <2> QED
    BY <2>1, <2>2, <2>3 DEF DiskInv, MainInv
<1>5. CASE List
  <2>1. MainInv' /\ kpc' = "list"
    BY <1>5, ListMain DEF DiskInv, List
  <2> QED
    BY <2>1 DEF DiskInv
<1>8. CASE ListUnread
  <2>1. MainInv' /\ kpc' = "list"
    BY <1>8, ListUnreadMain DEF DiskInv, ListUnread
  <2> QED
    BY <2>1 DEF DiskInv
<1>6. CASE Return \/ Overrun
  <2>1. /\ kpc = "list" /\ kpc' \in {"returned", "wild", "overrun"}
        /\ kpc' \in {"returned", "wild"} => ~MoreFiles
        /\ UNCHANGED <<pc, image, stored, sectors, disk, content, k, shown>>
    BY <1>6 DEF Return, Overrun, creatorVars
  <2>2. Result' = Result /\ MoreFiles' = MoreFiles
    BY <2>1 DEF Result, MoreFiles
  <2>3. \A n : Shows(n)' = Shows(n)
    BY <2>1 DEF Shows, BeginsWithFile, HeaderRead
  <2> QED
    BY <2>1, <2>2, <2>3 DEF DiskInv, MainInv
<1>7. CASE TurnOff
  BY <1>7 DEF TurnOff, DiskInv, MainInv
<1> QED
  BY <1>1, <1>2, <1>3, <1>4, <1>5, <1>6, <1>7, <1>8 DEF Next

LEMMA DiskHolds ==
  ASSUME IInv, DiskInv
  PROVE  Listed
<1>1. CASE kpc = "off"
  BY <1>1 DEF DiskInv, Listed
<1>2. CASE kpc # "off"
  <2>1. /\ shown \in Seq(Listing) /\ Len(shown) = k /\ k \in Nat /\ (k = 0 \/ k <= Result)
        /\ \A n \in 1..k : Shows(n)
    BY <1>2 DEF DiskInv, MainInv
  <2>2. DOMAIN shown = 1..k
    BY <2>1
  <2>3. ASSUME kpc \in {"returned", "wild"}, sectors > 0, Verdict = "SUCCESS"
        PROVE  Len(shown) = Len(stored)
    <3>1. Result = image.count /\ image.whole
      BY <1>2, <2>3 DEF DiskInv, MainInv, Result, SECTORS
    <3>2. Result \in Int /\ Result >= 0
      BY <1>2, <2>3, ResultIs DEF DiskInv, Verdict
    <3>3. Result = Len(stored)
      BY <3>1, <3>2 DEF IInv, DoneInv
    <3>4. ~(k < Result)
      BY <2>3 DEF DiskInv, MoreFiles
    <3> QED
      BY <2>1, <3>2, <3>3, <3>4
  <2> QED
    BY <2>1, <2>2, <2>3 DEF Listed, Shows
<1> QED
  BY <1>1, <1>2

\* Whatever the files and the command lines, and however many of its sectors
\* the drive gives before it stops: as far as the headers came main lists the
\* image's own files, under their names and in their order, the first two with
\* what was copied of them; and when it comes to its end it has gone through
\* all of them.
THEOREM ListingIsRight == Spec => []Listed
<1>1. Init => IInv /\ DiskInv
  BY InitIInv DEF Init, DiskInv, MainInv
<1>2. IInv /\ DiskInv /\ [Next]_vars => (IInv /\ DiskInv)'
  BY NextIInv, NextDisk
<1>3. IInv /\ DiskInv => Listed
  BY DiskHolds
<1> QED
  BY <1>1, <1>2, <1>3, PTL DEF Spec
=============================================================================
