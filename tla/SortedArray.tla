---------------------------- MODULE SortedArray ----------------------------
(***************************************************************************)
(* What the users of ordered_array.c are promised: an array into which an  *)
(* item goes in front of the first one that is not less, and from which    *)
(* the item at an index goes without a trace of it.  The less_than         *)
(* predicate of an array compares two items by a key: the item itself      *)
(* (standard_lessthan_predicate) or, in the heap's index, the size found   *)
(* in the header the item points to (header_t_less_than), which the heap   *)
(* changes while the item is in the array.                                 *)
(***************************************************************************)
EXTENDS Integers, Sequences, SequencesExt

CONSTANTS
  Items,       \* what is put into the array
  Keys,        \* what less_than may see of the items: a set of [Items -> Int]
  MaxSize      \* the most items the owner keeps in it

VARIABLES
  array,       \* the items, first to last
  key          \* what less_than sees now

Less(k, a, b) == k[a] < k[b]

\* Where a new item belongs: at the first item that is not less.
Position(s, k, x) ==
  CHOOSE p \in 1..(Len(s) + 1) :
    /\ \A j \in 1..(p - 1) : Less(k, s[j], x)
    /\ p <= Len(s) => ~Less(k, s[p], x)

Inserted(s, k, x) == InsertAt(s, Position(s, k, x), x)
Removed(s, i)     == RemoveAt(s, i + 1)

Init == array = << >> /\ key \in Keys

InsertItem(x) ==
  Len(array) < MaxSize /\ array' = Inserted(array, key, x) /\ UNCHANGED key
RemoveItem(i) ==
  i < Len(array) /\ array' = Removed(array, i) /\ UNCHANGED key
Rekey == key' \in Keys /\ UNCHANGED array

Next ==
  \/ \E x \in Items : InsertItem(x)
  \/ \E i \in 0..(MaxSize - 1) : RemoveItem(i)
  \/ Rekey

Spec == Init /\ [][Next]_<<array, key>>
=============================================================================
