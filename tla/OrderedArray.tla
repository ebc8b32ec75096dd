---------------------------- MODULE OrderedArray ----------------------------
(***************************************************************************)
(* The insertion-sorted array of ordered_array.c, one step per turn of its *)
(* loops: the search for the place of a new item, and the two loops that   *)
(* shift items up and down in place.  Indices count from 0.                *)
(***************************************************************************)
EXTENDS Integers, Sequences

CONSTANTS
  Items,       \* what is put into the array
  Keys,        \* what less_than may see of the items: a set of [Items -> Int]
  MaxSize,     \* max_size; insert does not look at it, the owner does
  Blank        \* what memset leaves in a word

ASSUME ItemAssumption == Keys \subseteq [Items -> Int] /\ MaxSize \in Nat

VARIABLES
  array,       \* array->array, and the word behind it
  count,       \* array->size
  key,         \* what less_than sees now
  pc,          \* "idle", or the loop that runs: "search", "up" or "down"
  iterator,    \* iterator of an insertion, i of a removal
  item, tmp    \* of an insertion

arrayVars == <<array, count, key, pc, iterator, item, tmp>>

\* Mutant: the wrong way round.
LessThanSwapped(a, b) == key[b] < key[a]
LessThan(a, b) == key[a] < key[b]

----------------------------------------------------------------------------
\* place_ordered_array.  What lies behind the array is not cleared.
ArrayInit ==
  /\ \E behind \in Items \cup {Blank} :
       array = [i \in 0..MaxSize |-> IF i < MaxSize THEN Blank ELSE behind]
  /\ count = 0 /\ key \in Keys /\ pc = "idle"
  /\ iterator = 0 /\ item = Blank /\ tmp = Blank

\* Between two calls the owner may change what the items point to.
Rekey ==
  /\ pc = "idle" /\ key' \in Keys
  /\ UNCHANGED <<array, count, pc, iterator, item, tmp>>

----------------------------------------------------------------------------
(* insert_ordered_array. *)

InsertItem(x) ==
  /\ pc = "idle" /\ count < MaxSize
  /\ pc' = "search" /\ iterator' = 0 /\ item' = x
  /\ UNCHANGED <<array, count, key, tmp>>

\* The first loop passes the items that are less.
Search ==
  /\ pc = "search" /\ iterator < count /\ LessThan(array[iterator], item)
  /\ iterator' = iterator + 1
  /\ UNCHANGED <<array, count, key, pc, item, tmp>>

AddAtEnd ==
  /\ pc = "search" /\ iterator = count
  /\ array' = [array EXCEPT ![count] = item] /\ count' = count + 1
  /\ pc' = "idle"
  /\ UNCHANGED <<key, iterator, item, tmp>>

Displace ==
  /\ pc = "search" /\ iterator < count /\ ~LessThan(array[iterator], item)
  /\ tmp' = array[iterator] /\ array' = [array EXCEPT ![iterator] = item]
  /\ pc' = "up"
  /\ UNCHANGED <<count, key, iterator, item>>

\* One turn of the second loop: tmp moves up, what lay there becomes tmp.
\* Mutant: the loop loses its tmp2.
ShiftUpOne ==
  /\ pc = "up" /\ iterator < count
  /\ iterator' = iterator + 1
  /\ array' = [array EXCEPT ![iterator + 1] = tmp]
  /\ UNCHANGED <<count, key, pc, item, tmp>>
ShiftUp ==
  /\ pc = "up" /\ iterator < count
  /\ iterator' = iterator + 1
  /\ tmp' = array[iterator + 1] /\ array' = [array EXCEPT ![iterator + 1] = tmp]
  /\ UNCHANGED <<count, key, pc, item>>

ShiftedUp ==
  /\ pc = "up" /\ iterator = count
  /\ count' = count + 1 /\ pc' = "idle"
  /\ UNCHANGED <<array, key, iterator, item, tmp>>

----------------------------------------------------------------------------
(* remove_ordered_array(i), of an item that is there. *)

RemoveItem(i) ==
  /\ pc = "idle" /\ i < count
  /\ pc' = "down" /\ iterator' = i
  /\ UNCHANGED <<array, count, key, item, tmp>>

\* Its last turn reads the word behind the items, in a full array the one
\* behind the array.
ShiftDown ==
  /\ pc = "down" /\ iterator < count
  /\ array' = [array EXCEPT ![iterator] = array[iterator + 1]]
  /\ iterator' = iterator + 1
  /\ UNCHANGED <<count, key, pc, item, tmp>>

ShiftedDown ==
  /\ pc = "down" /\ iterator = count
  /\ count' = count - 1 /\ pc' = "idle"
  /\ UNCHANGED <<array, key, iterator, item, tmp>>

----------------------------------------------------------------------------
ArrayNext ==
  \/ Rekey
  \/ \E x \in Items : InsertItem(x)
  \/ Search \/ AddAtEnd \/ Displace \/ ShiftUp \/ ShiftedUp
  \/ \E i \in 0..(MaxSize - 1) : RemoveItem(i)
  \/ ShiftDown \/ ShiftedDown

ArraySpec == ArrayInit /\ [][ArrayNext]_arrayVars

----------------------------------------------------------------------------
(* Properties. *)

\* The items as they would stand if the call in progress were over: an item
\* that is being put in is there once it is written, with the displaced one
\* behind the iterator; one that is being taken out is gone from the start.
Contents ==
  CASE pc \in {"idle", "search"} -> [j \in 1..count |-> array[j - 1]]
    [] pc = "up"   -> [j \in 1..(count + 1) |->
                         IF j <= iterator + 1 THEN array[j - 1]
                         ELSE IF j = iterator + 2 THEN tmp ELSE array[j - 2]]
    [] pc = "down" -> [j \in 1..(count - 1) |->
                         IF j <= iterator THEN array[j - 1] ELSE array[j]]

\* The loops shift the items they should and no other: an insertion puts its
\* item in front of the first one that is not less, a removal takes out the one
\* at its index, and nothing else is lost, doubled or reordered, whatever the
\* owner does to the keys between the calls.
Promised == INSTANCE SortedArray WITH array <- Contents
ImplementsSortedArray == Promised!Spec

InOrder ==
  \A j, m \in 1..Len(Contents) : j < m => key[Contents[j]] <= key[Contents[m]]
KeepsOrder == key' = key /\ InOrder => InOrder'

\* "This array is insertion sorted - it always remains in a sorted state
\* (between calls)": so it does as long as the keys stay what they are.  No
\* call, and no turn of a loop, takes sorted contents out of their order.
Sorted == [][KeepsOrder]_arrayVars
=============================================================================
