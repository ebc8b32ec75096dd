------------------------------ MODULE MCConsole ------------------------------
(***************************************************************************)
(* A screen of three rows of four cells with a tab stop at every second  *)
(* one, and numbers of three hexadecimal digits.                           *)
(***************************************************************************)
EXTENDS Console

\* A glyph, a space, each control character, one that does nothing (BEL), one
\* that gcc takes for negative, and two strings of several characters.
MCStrings  == {<<c>> : c \in {65, SPACE, BACKSPACE, HTAB, NEWLINE, RETURN, 7, 233}}
                \cup {<<65, HTAB, 65>>, <<65, 65, 65, 65, NEWLINE>>}
MCLeftover == {1824}

\* Facts about constants, which TLC evaluates once before a run.
ASSUME NumbersAreRight == DecimalIsRight /\ HexIsRight
=============================================================================
