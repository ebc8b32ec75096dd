---------------------------- MODULE MCKernelHeap ----------------------------
(***************************************************************************)
(* Instances of KernelHeap for TLC.  Pages of 128 bytes, a heap of three   *)
(* pages that may not shrink below two, instead of pages of 4096 bytes and *)
(* 128 and 112 of them.                                                    *)
(***************************************************************************)
EXTENDS KernelHeap

Plain(sizes, most, frees) == [calls |-> [size: sizes, align: {FALSE}], most |-> most, frees |-> frees]

\* Small blocks that go back newest first; blocks of odd sizes that stay.
MCGoodPrograms == {Plain({4, 28}, 4, "newest"), Plain({5, 201}, 8, "never")}

ASSUME GoodServed == \A p \in MCGoodPrograms : Served(p)

\* Programs that meet one of the heap's defects each.
MCSame    == {Plain({13}, 4, "any")}
MCEven    == {Plain({80}, 6, "never")}
MCFit     == {Plain({28, 316}, 3, "newest")}
MCEndmost == {Plain({28, 316}, 3, "oldest")}
MCBig     == {Plain({4, 150, 220}, 3, "newest")}
MCMixed   == {Plain({4, 28}, 3, "any")}
MCHuge    == {Plain({5, 65525}, 3, "never")}    \* Need passes 2^16: 9 bytes
MCLarge   == {Plain({5, 65301}, 3, "never")}    \* old + Need does
MCAligned == {[calls |-> [size: {4}, align: BOOLEAN], most |-> 3, frees |-> "never"]}
=============================================================================
