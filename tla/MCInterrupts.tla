----------------------------- MODULE MCInterrupts -----------------------------
(***************************************************************************)
(* An instance of Interrupts for TLC: the timer, a device on the last line *)
(* of the master, whose vector is also that of its spurious interrupts,    *)
(* and one on the first line of the slave.  Divisions by zero and invalid  *)
(* opcodes (no error code) and page faults (with one) stand for the        *)
(* exceptions.                                                             *)
(***************************************************************************)
EXTENDS Interrupts

\* Beyond 64 kB, where an address needs both halves.
MCStubs == [n \in 0..47 |-> 1048608 + 16 * n]
MCLines == {0, 7, 8}
MCExceptions == {0, 6, 14}
=============================================================================
