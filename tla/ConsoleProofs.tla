---------------------------- MODULE ConsoleProofs ----------------------------
(***************************************************************************)
(* Proofs about Console, for a screen of any size that uint8 cursors can   *)
(* reach, any strings and anything left on the screen at boot.             *)
(***************************************************************************)
EXTENDS Console, SequenceTheorems, TLAPS

----------------------------------------------------------------------------
(* Arithmetic of locations. *)

\* The cell of a row and a column is inside video memory.
LEMMA CellInside ==
  ASSUME NEW x \in 0..(WIDTH - 1), NEW y \in 0..(HEIGHT - 1)
  PROVE  y * WIDTH + x \in Locations /\ LocationOf(x, y) = y * WIDTH + x
<1>1. WIDTH \in Nat \ {0} /\ HEIGHT \in Nat \ {0} /\ WIDTH <= 255 /\ HEIGHT <= 255
  BY ScreenAssumption
<1>2. y * WIDTH >= 0 /\ y * WIDTH <= (HEIGHT - 1) * WIDTH
  BY <1>1
<1>3. (HEIGHT - 1) * WIDTH = WIDTH * HEIGHT - WIDTH
  BY <1>1
<1>4. WIDTH * HEIGHT <= 65025
  BY <1>1
<1>5. y * WIDTH + x \in Nat /\ y * WIDTH + x < WIDTH * HEIGHT
  BY <1>1, <1>2, <1>3
<1>6. (y * WIDTH + x) % 65536 = y * WIDTH + x
  <2> DEFINE n == y * WIDTH + x
  <2>1. n \in Nat /\ n < 65536
    BY <1>1, <1>4, <1>5
  <2> HIDE DEF n
  <2>2. n % 65536 = n
    BY <2>1
  <2> QED BY <2>2 DEF n
<1> QED BY <1>1, <1>5, <1>6 DEF Locations, LocationOf

----------------------------------------------------------------------------
(* The invariant: the types, what BlankBelow says, and that nothing is put  *)
(* before the screen is cleared.                                           *)

ClearedFirst == todo # << >> => cleared
Inv == TypeOK /\ BlankBelow /\ ClearedFirst

LEMMA InitInv == Init => Inv
<1> SUFFICES ASSUME Init PROVE Inv
  OBVIOUS
<1>1. 0 \in 0..(WIDTH - 1) /\ 0 \in 0..(HEIGHT - 1)
  BY ScreenAssumption
<1>2. PICK cell \in Leftover : video_memory = [l \in Locations |-> cell]
  BY DEF Init
<1>3. video_memory \in [Locations -> Cells \cup {Blank}]
  BY <1>2 DEF Cells
<1>4. todo \in Seq(Chars \ {0})
  BY DEF Init
<1> QED BY <1>1, <1>3, <1>4 DEF Init, Inv, TypeOK, BlankBelow, ClearedFirst

\* monitor_clear blanks everything.
LEMMA ClearInv == Inv /\ monitor_clear => Inv'
<1> SUFFICES ASSUME Inv, monitor_clear PROVE Inv'
  OBVIOUS
<1>1. 0 \in 0..(WIDTH - 1) /\ 0 \in 0..(HEIGHT - 1)
  BY ScreenAssumption
<1>2. LocationOf(0, 0) \in Locations
  BY <1>1, CellInside
<1> QED BY <1>1, <1>2 DEF monitor_clear, Cleared, Inv, TypeOK, BlankBelow, ClearedFirst

LEMMA WriteInv == Inv /\ (\E s \in Strings : monitor_write(s)) => Inv'
  BY StringsAssumption DEF monitor_write, Inv, TypeOK, BlankBelow, ClearedFirst

\* Where monitor_put leaves the cursor: on the screen, and in the next row at
\* most.
LEMMA CursorMoves ==
  ASSUME NEW c \in Chars, NEW x \in 0..(WIDTH - 1), NEW y \in 0..(HEIGHT - 1)
  PROVE  /\ MovedX(c, x) \in Nat
         /\ MovedY(c, y) \in {y, y + 1}
         /\ Wraps(MovedX(c, x)) => MovedY(c, y) = y
<1>1. WIDTH \in Nat \ {0} /\ HEIGHT \in Nat \ {0} /\ TAB \in Nat \ {0} /\ WIDTH <= 255
  BY ScreenAssumption
<1>2. (x + TAB) - ((x + TAB) % TAB) \in Nat
  <2> DEFINE n == x + TAB
  <2>1. n \in Nat /\ n >= TAB
    BY <1>1
  <2> HIDE DEF n
  <2>2. n % TAB \in 0..(TAB - 1)
    BY <1>1, <2>1
  <2>3. n - (n % TAB) \in Nat
    BY <1>1, <2>1, <2>2
  <2> QED BY <2>3 DEF n
<1>3. MovedX(c, x) \in Nat
  BY <1>1, <1>2 DEF MovedX, BACKSPACE, HTAB, NEWLINE, RETURN, SPACE
<1>4. c = NEWLINE => MovedX(c, x) = 0
  BY DEF MovedX, BACKSPACE, HTAB, NEWLINE, RETURN, SPACE
<1> QED BY <1>1, <1>3, <1>4 DEF MovedY, Wraps

\* monitor_put of any character.
LEMMA PutInv == Inv /\ monitor_put => Inv'
<1> SUFFICES ASSUME Inv, monitor_put PROVE Inv'
  OBVIOUS
<1> DEFINE c    == Head(todo)
           x    == MovedX(c, cursor_x)
           down == MovedY(c, cursor_y) + (IF Wraps(x) THEN 1 ELSE 0)
<1>1. WIDTH \in Nat \ {0} /\ HEIGHT \in Nat \ {0}
  BY ScreenAssumption
<1>2. c \in Chars \ {0} /\ todo' \in Seq(Chars \ {0}) /\ cleared' \in BOOLEAN
  BY DEF Inv, TypeOK, monitor_put
<1>3. cursor_x \in 0..(WIDTH - 1) /\ cursor_y \in 0..(HEIGHT - 1)
  BY DEF Inv, TypeOK
<1>4. x \in Nat /\ down \in {cursor_y, cursor_y + 1}
  BY <1>1, <1>2, <1>3, CursorMoves
<1>5. /\ cursor_x' = IF Wraps(x) THEN 0 ELSE x
      /\ cursor_y' = IF Scrolls(down) THEN HEIGHT - 1 ELSE down
      /\ video_memory' = IF Scrolls(down) THEN Scrolled(Written(c)) ELSE Written(c)
      /\ board' = LocationOf(cursor_x', cursor_y')
  BY DEF monitor_put, Put
<1> HIDE DEF x, down
<1>6. cursor_x' \in 0..(WIDTH - 1) /\ cursor_y' \in 0..(HEIGHT - 1)
  BY <1>1, <1>3, <1>4, <1>5 DEF Wraps, Scrolls
<1>7. board' \in Locations
  BY <1>5, <1>6, CellInside
<1>8. Written(c) \in [Locations -> Cells \cup {Blank}]
  <2>1. Printable(c) => Cell(c) \in Cells
    BY DEF Cells, Printable
  <2>2. video_memory \in [Locations -> Cells \cup {Blank}]
    BY DEF Inv, TypeOK
  <2> QED BY <2>1, <2>2 DEF Written
<1>9. video_memory' \in [Locations -> Cells \cup {Blank}]
  <2>1. Scrolled(Written(c)) \in [Locations -> Cells \cup {Blank}]
    <3>1. ASSUME NEW l \in Locations, l < (HEIGHT - 1) * WIDTH
          PROVE  l + WIDTH \in Locations
      <4>1. (HEIGHT - 1) * WIDTH = WIDTH * HEIGHT - WIDTH
        BY <1>1
      <4> QED BY <1>1, <3>1, <4>1 DEF Locations
    <3> QED BY <1>8, <3>1 DEF Scrolled
  <2> QED BY <1>5, <1>8, <2>1
<1>10. BlankBelow'
  <2> SUFFICES ASSUME cleared', NEW l \in Locations, l >= (cursor_y' + 1) * WIDTH
               PROVE  video_memory'[l] = Blank
    BY DEF BlankBelow
  <2>1. CASE Scrolls(down)
    <3>1. cursor_y' = HEIGHT - 1 /\ (HEIGHT - 1 + 1) * WIDTH = WIDTH * HEIGHT
      BY <1>1, <1>5, <2>1
    <3> QED BY <1>1, <3>1 DEF Locations
  <2>2. CASE ~Scrolls(down)
    <3>1. cursor_y' = down /\ video_memory' = Written(c)
      BY <1>5, <2>2
    <3>2. (cursor_y + 1 + 1) * WIDTH = (cursor_y + 1) * WIDTH + WIDTH
      BY <1>1, <1>3
    <3>3. l >= (cursor_y + 1) * WIDTH
      BY <1>1, <1>3, <1>4, <3>1, <3>2 DEF Locations
    <3>4. (cursor_y + 1) * WIDTH = cursor_y * WIDTH + WIDTH
      BY <1>1, <1>3
    <3>5. l # cursor_y * WIDTH + cursor_x
      BY <1>1, <1>3, <3>3, <3>4 DEF Locations
    <3>6. cleared /\ video_memory[l] = Blank
      BY <3>3 DEF monitor_put, Inv, BlankBelow
    <3> QED BY <3>1, <3>5, <3>6 DEF Written, Inv, TypeOK
  <2> QED BY <2>1, <2>2
<1>11. ClearedFirst'
  BY DEF Inv, ClearedFirst, monitor_put
<1> QED BY <1>2, <1>6, <1>7, <1>9, <1>10, <1>11 DEF Inv, TypeOK

LEMMA Inductive == Spec => []Inv
<1>1. Inv /\ [Next]_vars => Inv'
  <2> SUFFICES ASSUME Inv, [Next]_vars PROVE Inv'
    OBVIOUS
  <2>1. CASE monitor_clear
    BY <2>1, ClearInv
  <2>2. CASE \E s \in Strings : monitor_write(s)
    BY <2>2, WriteInv
  <2>3. CASE monitor_put
    BY <2>3, PutInv
  <2>4. CASE UNCHANGED vars
    BY <2>4 DEF vars, Inv, TypeOK, BlankBelow, ClearedFirst
  <2> QED BY <2>1, <2>2, <2>3, <2>4 DEF Next
<1> QED BY InitInv, <1>1, PTL DEF Spec

\* Between two calls of monitor_put the cursor is on the screen, so that the
\* next one writes inside video memory.
THEOREM TypeCorrect == Spec => []TypeOK
<1>1. Inv => TypeOK
  BY DEF Inv
<1> QED BY Inductive, <1>1, PTL

\* Below the cursor's row the screen is always blank, however it was scrolled.
THEOREM NothingBelow == Spec => []BlankBelow
<1>1. Inv => BlankBelow
  BY DEF Inv
<1> QED BY Inductive, <1>1, PTL

----------------------------------------------------------------------------
(* The console is a teletype. *)

\* A location is a cell of one row and one column only.
LEMMA CellsApart ==
  ASSUME NEW x \in 0..(WIDTH - 1), NEW y \in Nat, NEW u \in 0..(WIDTH - 1), NEW v \in Nat,
         y * WIDTH + x = v * WIDTH + u
  PROVE  y = v /\ x = u
<1>1. WIDTH \in Nat \ {0}
  BY ScreenAssumption
<1>2. CASE y < v
  <2>1. (v - y) * WIDTH >= WIDTH
    BY <1>1, <1>2
  <2> QED BY <1>1, <2>1
<1>3. CASE y > v
  <2>1. (y - v) * WIDTH >= WIDTH
    BY <1>1, <1>3
  <2> QED BY <1>1, <2>1
<1>4. CASE y = v
  BY <1>1, <1>4
<1> QED BY <1>2, <1>3, <1>4

\* (x + 8) & ~(8 - 1) is the next tab stop.
LEMMA NextStop ==
  ASSUME NEW x \in Nat
  PROVE  (x + TAB) - ((x + TAB) % TAB) = TAB * ((x \div TAB) + 1)
<1>1. TAB \in Nat \ {0}
  BY ScreenAssumption
<1>2. (x + TAB) \div TAB = (x \div TAB) + 1
  BY <1>1
<1>3. x + TAB = TAB * ((x + TAB) \div TAB) + ((x + TAB) % TAB)
  <2> DEFINE n == x + TAB
  <2>1. n \in Nat
    BY <1>1
  <2> HIDE DEF n
  <2>2. n = TAB * (n \div TAB) + (n % TAB)
    BY <1>1, <2>1
  <2> QED BY <2>2 DEF n
<1>4. (x + TAB) % TAB \in Int /\ x \div TAB \in Int
  BY <1>1
<1> QED BY <1>1, <1>2, <1>3, <1>4

\* Writing a glyph in the cursor's row changes that cell of what is shown.
LEMMA GlyphShown ==
  ASSUME Inv, NEW c \in Chars
  PROVE  Rows(Written(c), cursor_y) =
           IF Printable(c)
           THEN [Rows(video_memory, cursor_y) EXCEPT ![cursor_y + 1][cursor_x] = Cell(c)]
           ELSE Rows(video_memory, cursor_y)
<1>1. WIDTH \in Nat \ {0} /\ HEIGHT \in Nat \ {0}
  BY ScreenAssumption
<1>2. /\ cursor_x \in 0..(WIDTH - 1) /\ cursor_y \in 0..(HEIGHT - 1)
      /\ video_memory \in [Locations -> Cells \cup {Blank}]
  BY DEF Inv, TypeOK
<1>3. CASE ~Printable(c)
  BY <1>3 DEF Written
<1>4. CASE Printable(c)
  <2> DEFINE old == Rows(video_memory, cursor_y)
             new == [old EXCEPT ![cursor_y + 1][cursor_x] = Cell(c)]
  <2>1. ASSUME NEW k \in 1..(cursor_y + 1)
        PROVE  Row(Written(c), k - 1) = new[k]
    <3>1. ASSUME NEW x \in 0..(WIDTH - 1)
          PROVE  Row(Written(c), k - 1)[x] = new[k][x]
      <4>1. k - 1 \in 0..(HEIGHT - 1)
        BY <1>1, <1>2
      <4>2. (k - 1) * WIDTH + x \in Locations
        BY <4>1, CellInside
      <4>3. Written(c)[(k - 1) * WIDTH + x] =
              IF (k - 1) * WIDTH + x = cursor_y * WIDTH + cursor_x
              THEN Cell(c) ELSE video_memory[(k - 1) * WIDTH + x]
        BY <1>2, <1>4, <4>2 DEF Written
      <4>4. ((k - 1) * WIDTH + x = cursor_y * WIDTH + cursor_x) <=>
              (k = cursor_y + 1 /\ x = cursor_x)
        <5>1. k - 1 \in Nat /\ cursor_y \in Nat
          BY <1>2
        <5>2. ((k - 1) * WIDTH + x = cursor_y * WIDTH + cursor_x) =>
                (k - 1 = cursor_y /\ x = cursor_x)
          BY <1>2, <5>1, CellsApart
        <5>3. k = cursor_y + 1 <=> k - 1 = cursor_y
          BY <1>2
        <5> QED BY <5>2, <5>3
      <4>5. Row(Written(c), k - 1)[x] = Written(c)[(k - 1) * WIDTH + x]
        BY DEF Row
      <4>6. old[k] = Row(video_memory, k - 1) /\ old[k][x] = video_memory[(k - 1) * WIDTH + x]
        BY DEF Rows, Row
      <4>7. new[k][x] = IF k = cursor_y + 1 /\ x = cursor_x THEN Cell(c) ELSE old[k][x]
        <5>1. old \in [1..(cursor_y + 1) -> {Row(video_memory, j - 1) : j \in 1..(cursor_y + 1)}]
          BY DEF Rows
        <5>2. old[cursor_y + 1] = [i \in 0..(WIDTH - 1) |->
                                     video_memory[(cursor_y + 1 - 1) * WIDTH + i]]
          BY <1>2 DEF Rows, Row
        <5> QED BY <1>2, <5>1, <5>2
      <4> QED BY <4>3, <4>4, <4>5, <4>6, <4>7
    <3>2. new[k] = [x \in 0..(WIDTH - 1) |-> new[k][x]]
      BY <1>2 DEF Rows, Row
    <3>3. Row(Written(c), k - 1) = [x \in 0..(WIDTH - 1) |-> Row(Written(c), k - 1)[x]]
      BY DEF Row
    <3> QED BY <3>1, <3>2, <3>3
  <2>2. new = [k \in 1..(cursor_y + 1) |-> new[k]]
    BY DEF Rows
  <2> QED BY <1>4, <2>1, <2>2 DEF Rows
<1> QED BY <1>3, <1>4

\* What is shown is a sequence of lines.
Lines == [0..(WIDTH - 1) -> Cells \cup {Blank}]

LEMMA RowsAreLines ==
  ASSUME NEW video \in [Locations -> Cells \cup {Blank}], NEW y \in 0..(HEIGHT - 1)
  PROVE  /\ Rows(video, y) \in Seq(Lines)
         /\ Len(Rows(video, y)) = y + 1
         /\ \A k \in 1..(y + 1) : Rows(video, y)[k] = Row(video, k - 1)
<1>1. HEIGHT \in Nat \ {0}
  BY ScreenAssumption
<1>2. ASSUME NEW k \in 1..(y + 1)
      PROVE  Row(video, k - 1) \in Lines
  <2>1. k - 1 \in 0..(HEIGHT - 1)
    BY <1>1
  <2>2. \A x \in 0..(WIDTH - 1) : (k - 1) * WIDTH + x \in Locations
    BY <2>1, CellInside
  <2> QED BY <2>2 DEF Row, Lines
<1>3. Rows(video, y) \in [1..(y + 1) -> Lines]
  BY <1>2 DEF Rows
<1>4. y + 1 \in Nat
  BY <1>1
<1> QED BY <1>3, <1>4 DEF Rows

LEMMA Appended ==
  ASSUME NEW S, NEW seq \in Seq(S), NEW e \in S
  PROVE  /\ Append(seq, e) \in Seq(S) /\ Append(seq, e) # << >>
         /\ Len(Append(seq, e)) = Len(seq) + 1
         /\ \A k \in 1..(Len(seq) + 1) :
              Append(seq, e)[k] = IF k = Len(seq) + 1 THEN e ELSE seq[k]
<1>1. Append(seq, e) \in Seq(S) /\ Len(Append(seq, e)) = Len(seq) + 1 /\ Len(seq) \in Nat
  OBVIOUS
<1>2. Append(seq, e) # << >>
  BY <1>1, EmptySeq
<1>3. Append(seq, e)[Len(seq) + 1] = e
  OBVIOUS
<1>4. ASSUME NEW k \in 1..Len(seq) PROVE Append(seq, e)[k] = seq[k]
  OBVIOUS
<1>5. ASSUME NEW k \in 1..(Len(seq) + 1), k # Len(seq) + 1 PROVE k \in 1..Len(seq)
  BY <1>1, <1>5
<1> QED BY <1>1, <1>2, <1>3, <1>4, <1>5

\* The blank row below the cursor, in a framebuffer that was written to.
LEMMA RowBelow ==
  ASSUME Inv, cleared, NEW c \in Chars, cursor_y + 1 < HEIGHT
  PROVE  Row(Written(c), cursor_y + 1) = Machine!BlankLine
<1>1. WIDTH \in Nat \ {0} /\ HEIGHT \in Nat \ {0}
  BY ScreenAssumption
<1>2. /\ cursor_x \in 0..(WIDTH - 1) /\ cursor_y \in 0..(HEIGHT - 1)
      /\ video_memory \in [Locations -> Cells \cup {Blank}]
  BY DEF Inv, TypeOK
<1>3. ASSUME NEW x \in 0..(WIDTH - 1)
      PROVE  Written(c)[(cursor_y + 1) * WIDTH + x] = Blank
  <2>1. cursor_y + 1 \in 0..(HEIGHT - 1) /\ cursor_y + 1 \in Nat /\ cursor_y \in Nat
    BY <1>1, <1>2
  <2>2. (cursor_y + 1) * WIDTH + x \in Locations
    BY <2>1, CellInside
  <2>3. (cursor_y + 1) * WIDTH + x # cursor_y * WIDTH + cursor_x
    <3>1. cursor_y + 1 # cursor_y
      BY <1>2
    <3> QED BY <1>2, <2>1, <3>1, CellsApart
  <2>4. (cursor_y + 1) * WIDTH + x >= (cursor_y + 1) * WIDTH
    BY <1>1, <1>2
  <2>5. video_memory[(cursor_y + 1) * WIDTH + x] = Blank
    BY <2>2, <2>4 DEF Inv, BlankBelow
  <2> QED BY <1>2, <2>2, <2>3, <2>5 DEF Written
<1> QED BY <1>3 DEF Row, Machine!BlankLine, Machine!Columns

\* A row of a framebuffer that was scrolled.
LEMMA RowScrolled ==
  ASSUME NEW video \in [Locations -> Cells \cup {Blank}], NEW y \in 0..(HEIGHT - 1)
  PROVE  Row(Scrolled(video), y) =
           IF y = HEIGHT - 1 THEN Machine!BlankLine ELSE Row(video, y + 1)
<1>1. WIDTH \in Nat \ {0} /\ HEIGHT \in Nat \ {0}
  BY ScreenAssumption
<1>2. ASSUME NEW x \in 0..(WIDTH - 1)
      PROVE  Scrolled(video)[y * WIDTH + x] =
               IF y = HEIGHT - 1 THEN Blank ELSE video[(y + 1) * WIDTH + x]
  <2>1. y * WIDTH + x \in Locations
    BY CellInside
  <2>2. (y + 1) * WIDTH + x = y * WIDTH + x + WIDTH
    BY <1>1
  <2>3. CASE y = HEIGHT - 1
    <3>1. ~(y * WIDTH + x < (HEIGHT - 1) * WIDTH)
      BY <1>1, <2>3
    <3> QED BY <2>1, <2>3, <3>1 DEF Scrolled
  <2>4. CASE y # HEIGHT - 1
    <3>1. (HEIGHT - 1 - (y + 1)) * WIDTH >= 0
      BY <1>1, <2>4
    <3>2. (y + 1) * WIDTH <= (HEIGHT - 1) * WIDTH
      BY <1>1, <3>1
    <3>3. y * WIDTH + x < (HEIGHT - 1) * WIDTH
      BY <1>1, <2>2, <3>2
    <3> QED BY <2>1, <2>2, <2>4, <3>3 DEF Scrolled
  <2> QED BY <2>3, <2>4
<1>3. CASE y = HEIGHT - 1
  BY <1>2, <1>3 DEF Row, Machine!BlankLine, Machine!Columns
<1>4. CASE y # HEIGHT - 1
  BY <1>2, <1>4 DEF Row
<1> QED BY <1>3, <1>4

\* What monitor_put leaves on the screen: the lines with the glyph in them, and
\* a blank line below them if the cursor went down.
LEMMA PutShows ==
  ASSUME Inv, monitor_put
  PROVE  LET c     == Head(todo)
             lines == Rows(Written(c), cursor_y)
         IN  Rows(video_memory, cursor_y)' =
               IF MovedY(c, cursor_y) = cursor_y /\ ~Wraps(MovedX(c, cursor_x))
               THEN lines ELSE Machine!Fed(lines)
<1> DEFINE c     == Head(todo)
           x     == MovedX(c, cursor_x)
           lines == Rows(Written(c), cursor_y)
           down  == MovedY(c, cursor_y) + (IF Wraps(x) THEN 1 ELSE 0)
           more  == Append(lines, Machine!BlankLine)
<1>1. WIDTH \in Nat \ {0} /\ HEIGHT \in Nat \ {0}
  BY ScreenAssumption
<1>2. c \in Chars /\ cleared
  BY DEF Inv, TypeOK, ClearedFirst, monitor_put
<1>3. /\ cursor_x \in 0..(WIDTH - 1) /\ cursor_y \in 0..(HEIGHT - 1)
      /\ video_memory \in [Locations -> Cells \cup {Blank}]
  BY DEF Inv, TypeOK
<1>4. /\ x \in Nat /\ down \in {cursor_y, cursor_y + 1}
      /\ (down = cursor_y) = (MovedY(c, cursor_y) = cursor_y /\ ~Wraps(x))
  BY <1>1, <1>2, <1>3, CursorMoves
<1>5. /\ cursor_y' = IF Scrolls(down) THEN HEIGHT - 1 ELSE down
      /\ video_memory' = IF Scrolls(down) THEN Scrolled(Written(c)) ELSE Written(c)
  BY DEF monitor_put, Put
<1>6. Written(c) \in [Locations -> Cells \cup {Blank}]
  BY <1>2, <1>3 DEF Written, Cells, Printable
<1>7. Rows(video_memory, cursor_y)' = Rows(video_memory', cursor_y')
  BY DEF Rows, Row
<1>8. lines \in Seq(Lines) /\ Len(lines) = cursor_y + 1
      /\ \A k \in 1..(cursor_y + 1) : lines[k] = Row(Written(c), k - 1)
  BY <1>3, <1>6, RowsAreLines
<1>9. Machine!BlankLine \in Lines
  BY DEF Machine!BlankLine, Machine!Columns, Lines
<1>10. /\ more \in Seq(Lines) /\ more # << >> /\ Len(more) = cursor_y + 2
       /\ \A k \in 1..(cursor_y + 2) :
            more[k] = IF k = cursor_y + 2 THEN Machine!BlankLine ELSE lines[k]
  <2> HIDE DEF lines
  <2> QED BY <1>3, <1>8, <1>9, Appended
<1> HIDE DEF c, x, lines, down
<1>11. CASE down = cursor_y
  BY <1>1, <1>3, <1>4, <1>5, <1>7, <1>11 DEF Scrolls, c, x, lines
<1>12. CASE down = cursor_y + 1 /\ ~Scrolls(down)
  <2>1. cursor_y' = cursor_y + 1 /\ video_memory' = Written(c) /\ cursor_y + 1 < HEIGHT
    BY <1>1, <1>3, <1>5, <1>12 DEF Scrolls
  <2>2. /\ Rows(video_memory', cursor_y') \in Seq(Lines)
        /\ Len(Rows(video_memory', cursor_y')) = cursor_y + 2
        /\ \A k \in 1..(cursor_y + 2) :
             Rows(video_memory', cursor_y')[k] = Row(Written(c), k - 1)
    <3>1. cursor_y + 1 \in 0..(HEIGHT - 1) /\ cursor_y + 1 + 1 = cursor_y + 2
      BY <1>1, <1>3, <2>1
    <3> QED BY <1>6, <2>1, <3>1, RowsAreLines
  <2>3. Row(Written(c), cursor_y + 1) = Machine!BlankLine
    BY <1>2, <2>1, RowBelow
  <2>4. ASSUME NEW k \in 1..(cursor_y + 2)
        PROVE  Rows(video_memory', cursor_y')[k] = more[k]
    <3>1. CASE k = cursor_y + 2
      <4>1. k - 1 = cursor_y + 1
        BY <1>3, <3>1
      <4> QED BY <1>10, <2>2, <2>3, <3>1, <4>1
    <3>2. CASE k # cursor_y + 2
      <4>1. k \in 1..(cursor_y + 1)
        BY <1>3, <3>2
      <4> QED BY <1>8, <1>10, <2>2, <3>2, <4>1
    <3> QED BY <3>1, <3>2
  <2>5. Rows(video_memory', cursor_y') = more
    <3> HIDE DEF more
    <3> QED BY <1>10, <2>2, <2>4, SeqEqual
  <2>6. Machine!Fed(lines) = more
    BY <1>1, <1>3, <1>10, <2>1 DEF Machine!Fed
  <2>7. down # cursor_y
    BY <1>3, <1>12
  <2> QED BY <1>4, <1>7, <2>5, <2>6, <2>7 DEF c, x, lines
<1>13. CASE down = cursor_y + 1 /\ Scrolls(down)
  <2>1. /\ cursor_y + 1 = HEIGHT /\ cursor_y' = cursor_y
        /\ video_memory' = Scrolled(Written(c))
    BY <1>1, <1>3, <1>5, <1>13 DEF Scrolls
  <2>2. Scrolled(Written(c)) \in [Locations -> Cells \cup {Blank}]
    BY <2>1, PutInv DEF Inv, TypeOK
  <2>3. /\ Rows(video_memory', cursor_y') \in Seq(Lines)
        /\ Len(Rows(video_memory', cursor_y')) = cursor_y + 1
        /\ \A k \in 1..(cursor_y + 1) :
             Rows(video_memory', cursor_y')[k] = Row(Scrolled(Written(c)), k - 1)
    BY <1>3, <2>1, <2>2, RowsAreLines
  <2>4. /\ Tail(more) \in Seq(Lines) /\ Len(Tail(more)) = cursor_y + 1
        /\ \A k \in 1..(cursor_y + 1) : Tail(more)[k] = more[k + 1]
    <3>1. cursor_y + 2 - 1 = cursor_y + 1
      BY <1>3
    <3> HIDE DEF more
    <3>2. /\ Tail(more) \in Seq(Lines) /\ Len(Tail(more)) = Len(more) - 1
          /\ \A k \in 1..Len(Tail(more)) : Tail(more)[k] = more[k + 1]
      BY <1>10, HeadTailProperties
    <3>3. Len(Tail(more)) = cursor_y + 1
      <4>1. Len(more) - 1 = cursor_y + 1
        BY <1>3, <1>10
      <4>2. Len(Tail(more)) = Len(more) - 1
        BY <3>2
      <4> QED BY <4>1, <4>2, Zenon
    <3> DEFINE rest == Tail(more)
    <3> HIDE DEF rest
    <3>4. ASSUME NEW k \in 1..(cursor_y + 1) PROVE rest[k] = more[k + 1]
      <4>1. k \in 1..Len(Tail(more))
        BY <3>3
      <4> QED BY <3>2, <4>1 DEF rest
    <3> QED BY <3>2, <3>3, <3>4 DEF rest
  <2>5. ASSUME NEW k \in 1..(cursor_y + 1)
        PROVE  Rows(video_memory', cursor_y')[k] = Tail(more)[k]
    <3>1. /\ k - 1 \in 0..(HEIGHT - 1) /\ k + 1 \in 1..(cursor_y + 2) /\ k - 1 + 1 = k
          /\ (k - 1 = HEIGHT - 1) = (k = cursor_y + 1)
          /\ (k + 1 = cursor_y + 2) = (k = cursor_y + 1)
          /\ k # cursor_y + 1 => k + 1 \in 1..(cursor_y + 1) /\ k + 1 - 1 = k
      BY <1>1, <1>3, <2>1
    <3>2. Row(Scrolled(Written(c)), k - 1) =
            IF k - 1 = HEIGHT - 1 THEN Machine!BlankLine ELSE Row(Written(c), k - 1 + 1)
      BY <1>6, <3>1, RowScrolled
    <3>3. more[k + 1] = IF k = cursor_y + 1 THEN Machine!BlankLine ELSE lines[k + 1]
      BY <1>10, <3>1
    <3>4. k # cursor_y + 1 => lines[k + 1] = Row(Written(c), k)
      BY <1>8, <3>1
    <3> QED BY <2>3, <2>4, <3>1, <3>2, <3>3, <3>4
  <2>6. Rows(video_memory', cursor_y') = Tail(more)
    <3> HIDE DEF more
    <3> QED BY <2>3, <2>4, <2>5, SeqEqual
  <2>7. Machine!Fed(lines) = Tail(more)
    BY <1>1, <1>3, <1>10, <2>1 DEF Machine!Fed
  <2>8. down # cursor_y
    BY <1>3, <1>13
  <2> QED BY <1>4, <1>7, <2>6, <2>7, <2>8 DEF c, x, lines
<1> QED BY <1>4, <1>11, <1>12, <1>13

\* Every character is one of the teletype's, or does nothing.
LEMMA PutTypes ==
  ASSUME Inv, monitor_put
  PROVE  Machine!Next \/ UNCHANGED <<Rows(video_memory, cursor_y), cursor_x>>
<1> DEFINE c == Head(todo)
           x == MovedX(c, cursor_x)
           shown == Rows(video_memory, cursor_y)
           lines == Rows(Written(c), cursor_y)
<1>1. WIDTH \in Nat \ {0} /\ HEIGHT \in Nat \ {0} /\ TAB \in Nat \ {0}
  BY ScreenAssumption
<1>2. /\ c \in Chars /\ cursor_x \in 0..(WIDTH - 1) /\ cursor_y \in 0..(HEIGHT - 1)
      /\ video_memory \in [Locations -> Cells \cup {Blank}]
  BY DEF Inv, TypeOK, monitor_put
<1>3. cursor_x' = IF x < WIDTH THEN x ELSE 0
  BY <1>1, <1>2, CursorMoves DEF monitor_put, Put, Wraps
<1>4. shown' = IF MovedY(c, cursor_y) = cursor_y /\ x < WIDTH THEN lines ELSE Machine!Fed(lines)
  BY <1>1, <1>2, PutShows, CursorMoves DEF Wraps
<1>5. lines = IF Printable(c)
              THEN [shown EXCEPT ![Len(shown)][cursor_x] = Cell(c)] ELSE shown
  BY <1>2, GlyphShown, RowsAreLines
<1>6. c # NEWLINE => MovedY(c, cursor_y) = cursor_y
  BY DEF MovedY
<1> HIDE DEF c, x, shown, lines
<1>7. CASE c = BACKSPACE /\ cursor_x # 0
  <2>1. x = cursor_x - 1 /\ lines = shown
    BY <1>5, <1>7 DEF x, MovedX, Printable, BACKSPACE, SPACE
  <2>2. shown' = shown /\ cursor_x' = cursor_x - 1 /\ cursor_x - 1 < WIDTH /\ cursor_x > 0
    BY <1>1, <1>2, <1>3, <1>4, <1>6, <1>7, <2>1 DEF BACKSPACE, NEWLINE
  <2>3. Machine!Backspace
    BY <2>2 DEF Machine!Backspace, Machine!GoTo, shown
  <2> QED BY <2>3 DEF Machine!Next
<1>8. CASE c = HTAB
  <2>1. x = TAB * ((cursor_x \div TAB) + 1) /\ lines = shown
    BY <1>2, <1>5, <1>8, NextStop DEF x, MovedX, Printable, BACKSPACE, HTAB, SPACE
  <2>2. shown' = IF x < WIDTH THEN shown ELSE Machine!Fed(shown)
    BY <1>4, <1>6, <1>8, <2>1 DEF HTAB, NEWLINE
  <2>3. Machine!Tabulate
    BY <1>3, <2>1, <2>2 DEF Machine!Tabulate, Machine!GoTo, shown
  <2> QED BY <2>3 DEF Machine!Next
<1>9. CASE c = RETURN
  <2>1. x = 0 /\ lines = shown
    BY <1>5, <1>9 DEF x, MovedX, Printable, BACKSPACE, HTAB, RETURN, SPACE
  <2>2. shown' = shown /\ cursor_x' = 0 /\ 0 < WIDTH
    BY <1>1, <1>3, <1>4, <1>6, <1>9, <2>1 DEF RETURN, NEWLINE
  <2>3. Machine!CarriageReturn
    BY <2>2 DEF Machine!CarriageReturn, Machine!GoTo, shown
  <2> QED BY <2>3 DEF Machine!Next
<1>10. CASE c = NEWLINE
  <2>1. x = 0 /\ lines = shown /\ MovedY(c, cursor_y) # cursor_y
    BY <1>2, <1>5, <1>10 DEF x, MovedX, MovedY, Printable, BACKSPACE, HTAB, NEWLINE, SPACE
  <2>2. shown' = Machine!Fed(shown) /\ cursor_x' = 0 /\ ~(WIDTH < WIDTH)
    BY <1>1, <1>3, <1>4, <2>1
  <2>3. Machine!LineFeed
    BY <2>2 DEF Machine!LineFeed, Machine!GoTo, shown
  <2> QED BY <2>3 DEF Machine!Next
<1>11. CASE Printable(c)
  <2>1. c \notin {BACKSPACE, HTAB, NEWLINE, RETURN}
    BY <1>11 DEF Printable, BACKSPACE, HTAB, NEWLINE, RETURN, SPACE
  <2>2. x = cursor_x + 1
    BY <1>11, <2>1 DEF x, MovedX
  <2>3. shown' = IF x < WIDTH THEN lines ELSE Machine!Fed(lines)
    BY <1>4, <1>6, <2>1
  <2>4. Cell(c) \in Cells
    BY <1>11 DEF Cells, Printable
  <2>5. Machine!TypeGlyph(Cell(c))
    BY <1>3, <1>5, <1>11, <2>2, <2>3 DEF Machine!TypeGlyph, Machine!GoTo, shown
  <2> QED BY <2>4, <2>5 DEF Machine!Next
<1>12. CASE /\ ~(c = BACKSPACE /\ cursor_x # 0) /\ c \notin {HTAB, NEWLINE, RETURN}
            /\ ~Printable(c)
  <2>1. x = cursor_x /\ lines = shown
    BY <1>5, <1>12 DEF x, MovedX
  <2>2. shown' = shown /\ cursor_x' = cursor_x
    BY <1>1, <1>2, <1>3, <1>4, <1>6, <1>12, <2>1
  <2> QED BY <2>2 DEF shown
<1> QED BY <1>7, <1>8, <1>9, <1>10, <1>11, <1>12

\* The framebuffer, from its first row to the cursor's, behaves like a teletype
\* of WIDTH columns that shows its last HEIGHT lines.
THEOREM Refinement == Spec => ImplementsTeletype
<1>1. ASSUME Init PROVE Machine!Init
  <2>1. PICK cell \in Leftover : video_memory = [l \in Locations |-> cell]
    BY <1>1 DEF Init
  <2>2. WIDTH \in Nat \ {0} /\ HEIGHT \in Nat \ {0}
    BY ScreenAssumption
  <2>3. Rows(video_memory, cursor_y) = <<Row(video_memory, 0)>>
    <3>1. cursor_y = 0
      BY <1>1 DEF Init
    <3> QED BY <3>1 DEF Rows
  <2>4. Row(video_memory, 0) \in [0..(WIDTH - 1) -> Cells \cup {Blank}]
    <3>1. video_memory \in [Locations -> Cells \cup {Blank}] /\ 0 \in 0..(HEIGHT - 1)
      BY <2>1, <2>2 DEF Cells
    <3>2. \A x \in 0..(WIDTH - 1) : 0 * WIDTH + x \in Locations
      BY <3>1, CellInside
    <3> QED BY <3>1, <3>2 DEF Row
  <2> QED BY <1>1, <2>3, <2>4 DEF Init, Machine!Init, Machine!Columns
<1>2. ASSUME Inv, [Next]_vars
      PROVE  [Machine!Next]_<<Rows(video_memory, cursor_y), cursor_x>>
  <2>1. CASE monitor_clear
    <3>1. /\ video_memory' = [l \in Locations |-> Blank] /\ cursor_x' = 0 /\ cursor_y' = 0
      BY <2>1 DEF monitor_clear, Cleared
    <3>2. Row(video_memory', 0) = Machine!BlankLine
      <4>1. 0 \in 0..(HEIGHT - 1)
        BY ScreenAssumption
      <4>2. \A x \in 0..(WIDTH - 1) : 0 * WIDTH + x \in Locations
        BY <4>1, CellInside
      <4> QED BY <3>1, <4>2 DEF Row, Machine!BlankLine, Machine!Columns
    <3>3. Rows(video_memory', cursor_y') = <<Row(video_memory', 0)>>
      BY <3>1 DEF Rows
    <3>4. Rows(video_memory, cursor_y)' = Rows(video_memory', cursor_y')
      BY DEF Rows, Row
    <3>5. Machine!FormFeed
      BY <3>1, <3>2, <3>3, <3>4 DEF Machine!FormFeed
    <3> QED BY <3>5 DEF Machine!Next
  <2>2. CASE \E s \in Strings : monitor_write(s)
    BY <2>2 DEF monitor_write, Rows, Row
  <2>3. CASE monitor_put
    BY <1>2, <2>3, PutTypes
  <2>4. CASE UNCHANGED vars
    BY <2>4 DEF vars, Rows, Row
  <2> QED BY <1>2, <2>1, <2>2, <2>3, <2>4 DEF Next
<1> QED BY <1>1, <1>2, Inductive, PTL DEF Spec, ImplementsTeletype, Machine!Spec
=============================================================================
