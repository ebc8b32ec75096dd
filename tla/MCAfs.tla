--------------------------------- MODULE MCAfs ---------------------------------
(***************************************************************************)
(* Instances of Afs for TLC: two files, which now and then are longer than *)
(* main's array, and images of two of them, of three, one of them twice,   *)
(* and of seven, whose last header lies behind the first sector; and       *)
(* command lines whose argc a char does not hold, of 64 files, counted     *)
(* -64, and of 130, counted 2.  The data area that main reads has room for *)
(* two files and not for three, and an unsigned int for four.              *)
(***************************************************************************)
EXTENDS Afs

MCWord == DIR + 9
MCContents == {<<1>>, <<2, 3>>, <<1, 2, 3, 4>>}
MCFileA == [path |-> "a.txt", name |-> "a"]
MCFileB == [path |-> "b.txt", name |-> "b"]
OfA(n) == [m \in 1..n |-> MCFileA]
MCCalls == {<<MCFileA, MCFileB>>, <<MCFileB, MCFileA, MCFileB>>, OfA(7), OfA(SLOTS), OfA(130)}
=============================================================================
