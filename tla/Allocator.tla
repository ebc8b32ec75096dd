----------------------------- MODULE Allocator -----------------------------
(***************************************************************************)
(* What the users of alloc and free (kheap.h) are promised: a contiguous   *)
(* region of the size asked for, theirs until they free it.                *)
(***************************************************************************)
EXTENDS Integers

CONSTANTS Low, High     \* where the regions may lie

VARIABLE regions        \* [at, size]: the regions that are in use

Apart(r, s) == r.at + r.size <= s.at \/ s.at + s.size <= r.at

Init == regions = {}

\* A region is handed out; it lies clear of all the others.
Take(r) ==
  /\ Low <= r.at /\ r.at + r.size <= High
  /\ \A s \in regions : Apart(r, s)
  /\ regions' = regions \cup {r}

Release(r) == r \in regions /\ regions' = regions \ {r}

Next ==
  \/ \E r \in regions' \ regions : Take(r)
  \/ \E r \in regions : Release(r)

Spec == Init /\ [][Next]_regions
=============================================================================
