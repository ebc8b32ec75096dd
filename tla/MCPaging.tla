------------------------------ MODULE MCPaging ------------------------------
(***************************************************************************)
(* Instances of Paging for TLC: 64 frames of 64 bytes, tables of 12 pages, *)
(* a kernel that ends in the second page, a heap that starts with three    *)
(* pages at page 24.  The two bytes cleared of the bitmap cover 16 frames. *)
(***************************************************************************)
EXTENDS Paging

\* What the six bytes behind them hold: so much that few frames remain, behind
\* the cleared ones, at the end and in between.
MCLeftovers == {17..63, 16..57, (16..63) \ {18, 40, 41, 60}}
=============================================================================
