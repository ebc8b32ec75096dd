------------------------------- MODULE Console -------------------------------
(***************************************************************************)
(* The console of monitor.c: a framebuffer of HEIGHT rows of WIDTH cells,  *)
(* one behind the other, the cursor in two uint8 variables, and the        *)
(* cursor of the VGA board.  A call of monitor_put is a step, the scroll   *)
(* and the move_cursor at its end included; monitor_write is one step per  *)
(* character.  main turns no interrupts on and registers no handler, so    *)
(* that the characters of different writers do not mix.                    *)
(***************************************************************************)
EXTENDS Integers, Sequences

LOCAL INSTANCE SequencesExt

CONSTANTS
  WIDTH,     \* 80
  HEIGHT,    \* 25
  TAB,       \* 8
  DIGITS,    \* how many hexadecimal digits a u32int has: 8
  Strings,   \* what the kernel writes
  Leftover   \* the cells a boot loader leaves on the screen

BACKSPACE == 8
HTAB      == 9
NEWLINE   == 10
RETURN    == 13
SPACE     == 32

Chars     == 0..255
Locations == 0..(WIDTH * HEIGHT - 1)

\* The cursor's uint8 variables do not overflow.
ASSUME ScreenAssumption ==
  /\ WIDTH \in Nat \ {0} /\ HEIGHT \in Nat \ {0} /\ TAB \in Nat \ {0} /\ DIGITS \in Nat \ {0}
  /\ WIDTH + TAB <= 256 /\ HEIGHT < 256
ASSUME StringsAssumption == Strings \subseteq Seq(Chars \ {0})

VARIABLES
  video_memory,   \* [location -> cell], a cell the glyph and 256 times its colours
  cursor_x,
  cursor_y,
  board,          \* the location the VGA board shows its cursor at
  todo,           \* what monitor_write has still to put
  cleared         \* has main called monitor_clear?

vars == <<video_memory, cursor_x, cursor_y, board, todo, cleared>>

\* White on black: attributeByte in the high half of the cell.
Cell(c) == c + 256 * 15
Blank   == Cell(SPACE)
Cells   == {Cell(c) : c \in SPACE..127} \cup Leftover

----------------------------------------------------------------------------
(* monitor_put, by parts. *)

\* c >= ' ', where a char from 128 on is negative.
Printable(c) == c \in SPACE..127

\* What the character does to the cursor.  The parts are tried in this order,
\* so that a backspace in column 0 is no character at all.
MovedX(c, x) ==
  IF c = BACKSPACE /\ x # 0 THEN x - 1
  ELSE IF c = HTAB THEN (x + TAB) - ((x + TAB) % TAB)
  ELSE IF c \in {RETURN, NEWLINE} THEN 0
  ELSE IF Printable(c) THEN x + 1
  ELSE x
MovedY(c, y) == IF c = NEWLINE THEN y + 1 ELSE y

Written(c) ==
  IF Printable(c) THEN [video_memory EXCEPT ![cursor_y * WIDTH + cursor_x] = Cell(c)]
  ELSE video_memory

\* The end of a row.  Mutant: a row too long by one.
WrapsLate(x) == x > WIDTH
Wraps(x) == x >= WIDTH

\* scroll, when the cursor has left the last row.  Mutant: the first row is
\* kept.
Scrolls(y) == y >= HEIGHT
ScrolledBelow(video) ==
  [l \in Locations |-> IF l < WIDTH THEN video[l]
                       ELSE IF l < (HEIGHT - 1) * WIDTH THEN video[l + WIDTH] ELSE Blank]
Scrolled(video) ==
  [l \in Locations |-> IF l < (HEIGHT - 1) * WIDTH THEN video[l + WIDTH] ELSE Blank]

\* move_cursor: both halves of a uint16 go to the board.
LocationOf(x, y) == (y * WIDTH + x) % 65536

Put(c) ==
  LET x    == MovedX(c, cursor_x)
      nx   == IF Wraps(x) THEN 0 ELSE x
      down == MovedY(c, cursor_y) + (IF Wraps(x) THEN 1 ELSE 0)
      ny   == IF Scrolls(down) THEN HEIGHT - 1 ELSE down
  IN  /\ cursor_x' = nx
      /\ cursor_y' = ny
      /\ video_memory' = IF Scrolls(down) THEN Scrolled(Written(c)) ELSE Written(c)
      /\ board' = LocationOf(nx, ny)

----------------------------------------------------------------------------
(* monitor_write_dec and monitor_write_hex: what they put. *)

\* acc is signed: nothing is put for 2^31 and above.  c has the digits from the
\* lowest, c2 the other way round.
SignedAcc(n) == IF n < 16^DIGITS \div 2 THEN n ELSE n - 16^DIGITS
LowestFirst[acc \in Nat] ==
  IF acc = 0 THEN << >> ELSE <<acc % 10>> \o LowestFirst[acc \div 10]
Decimal(n) ==
  IF n = 0 THEN <<0>> ELSE IF SignedAcc(n) < 0 THEN << >> ELSE Reverse(LowestFirst[SignedAcc(n)])

\* Zeroes are skipped until noZeroes is cleared; the last digit is always put.
Nibble(n, k) == (n \div 16^k) % 16
Hex(n) ==
  LET first == IF \E k \in 1..(DIGITS - 1) : Nibble(n, k) # 0
               THEN CHOOSE k \in 1..(DIGITS - 1) :
                      Nibble(n, k) # 0 /\ \A j \in (k + 1)..(DIGITS - 1) : Nibble(n, j) = 0
               ELSE 0
  IN  [k \in 1..first |-> Nibble(n, first + 1 - k)] \o <<n % 16>>

----------------------------------------------------------------------------
Init ==
  /\ \E cell \in Leftover : video_memory = [l \in Locations |-> cell]
  /\ cursor_x = 0 /\ cursor_y = 0
  /\ board \in Locations
  /\ todo = << >> /\ cleared = FALSE

\* monitor_clear, the first call that main makes.  Mutant: a row too few.
ClearedShort == [l \in Locations |-> IF l < (HEIGHT - 1) * WIDTH THEN Blank ELSE video_memory[l]]
Cleared      == [l \in Locations |-> Blank]
monitor_clear ==
  /\ ~cleared /\ cleared' = TRUE
  /\ video_memory' = Cleared
  /\ cursor_x' = 0 /\ cursor_y' = 0 /\ board' = LocationOf(0, 0)
  /\ UNCHANGED todo

monitor_write(s) ==
  /\ cleared /\ todo = << >> /\ todo' = s
  /\ UNCHANGED <<video_memory, cursor_x, cursor_y, board, cleared>>

monitor_put ==
  /\ todo # << >>
  /\ Put(Head(todo))
  /\ todo' = Tail(todo) /\ UNCHANGED cleared

Next == monitor_clear \/ (\E s \in Strings : monitor_write(s)) \/ monitor_put

Spec == Init /\ [][Next]_vars

----------------------------------------------------------------------------
(* Properties. *)

\* Every variable holds what its C variable can; between two calls the cursor
\* is on the screen, so that no character is written outside video memory, and
\* the board shows it on the screen too.
TypeOK ==
  /\ video_memory \in [Locations -> Cells \cup {Blank}]
  /\ cursor_x \in 0..(WIDTH - 1) /\ cursor_y \in 0..(HEIGHT - 1)
  /\ board \in Locations
  /\ todo \in Seq(Chars \ {0}) /\ cleared \in BOOLEAN

\* All below the cursor's row is blank, whatever the boot loader left there and
\* whatever was put: a line feed, or a row that is full, comes to an empty row.
BlankBelow ==
  cleared => \A l \in Locations : l >= (cursor_y + 1) * WIDTH => video_memory[l] = Blank

\* The framebuffer, read row by row from the top to the cursor, is a teletype:
\* scroll loses the top line only, and tabs and long lines wrap like a line feed.
Row(video, y)  == [x \in 0..(WIDTH - 1) |-> video[y * WIDTH + x]]
Rows(video, y)  == [k \in 1..(y + 1) |-> Row(video, k - 1)]
Machine == INSTANCE Teletype WITH
  Glyphs <- Cells,
  shown  <- Rows(video_memory, cursor_y),
  column <- cursor_x
ImplementsTeletype == Machine!Spec

\* monitor_write_dec puts the decimal of every number below 2^31, without a
\* leading zero, and monitor_write_hex the hexadecimal of every number.
Value(digits, base) == FoldLeft(LAMBDA v, d : base * v + d, 0, digits)
Shortest(digits) == Len(digits) = 1 \/ (digits # << >> /\ Head(digits) # 0)
DecimalIsRight ==
  \A n \in 0..(16^DIGITS \div 2 - 1) : Value(Decimal(n), 10) = n /\ Shortest(Decimal(n))
HexIsRight ==
  \A n \in 0..(16^DIGITS - 1) : Value(Hex(n), 16) = n /\ Shortest(Hex(n))
=============================================================================
