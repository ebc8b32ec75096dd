--------------------------- MODULE MCOrderedArray ---------------------------
(***************************************************************************)
(* An instance of OrderedArray for TLC: four items, of which two have the  *)
(* same key, and an owner who changes between two assignments of keys.     *)
(***************************************************************************)
EXTENDS OrderedArray

MCItems == 1..4
MCKeys  == {<<2, 1, 2, 3>>, <<1, 2, 2, 1>>}
=============================================================================
