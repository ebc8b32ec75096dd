------------------------------ MODULE Teletype ------------------------------
(***************************************************************************)
(* What the callers of monitor.c are promised: a teletype of which the     *)
(* last HEIGHT lines can be seen.  It knows nothing of a framebuffer: a    *)
(* line feed makes a blank line below the last one, whatever was on the    *)
(* screen there before.                                                    *)
(***************************************************************************)
EXTENDS Integers, Sequences

CONSTANTS WIDTH, HEIGHT, TAB, Blank, Glyphs

VARIABLES
  shown,     \* the lines from the top of the screen to the cursor's
  column     \* where the next glyph goes in the last of them

Columns   == 0..(WIDTH - 1)
BlankLine == [x \in Columns |-> Blank]

Fed(lines) ==
  LET more == Append(lines, BlankLine)
  IN  IF Len(more) > HEIGHT THEN Tail(more) ELSE more

\* The cursor comes to column x of the last line, or to the next line.
GoTo(lines, x) ==
  /\ shown'  = IF x < WIDTH THEN lines ELSE Fed(lines)
  /\ column' = IF x < WIDTH THEN x ELSE 0

TypeGlyph(g)   == GoTo([shown EXCEPT ![Len(shown)][column] = g], column + 1)
Tabulate       == GoTo(shown, TAB * (column \div TAB + 1))
Backspace      == column > 0 /\ GoTo(shown, column - 1)
CarriageReturn == GoTo(shown, 0)
LineFeed       == GoTo(shown, WIDTH)
FormFeed       == shown' = <<BlankLine>> /\ column' = 0

\* Switched on, it may show anything in its first line.
Init == /\ \E line \in [Columns -> Glyphs \cup {Blank}] : shown = <<line>>
        /\ column = 0
Next ==
  \/ \E g \in Glyphs \cup {Blank} : TypeGlyph(g)
  \/ Tabulate \/ Backspace \/ CarriageReturn \/ LineFeed \/ FormFeed

Spec == Init /\ [][Next]_<<shown, column>>
=============================================================================
