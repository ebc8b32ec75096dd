----------------------------- MODULE BlockDevice -----------------------------
(***************************************************************************)
(* What a caller of ide_read_sectors and ide_write_sectors may rely on: a  *)
(* disk is an array of sectors, a call that returns 0 has moved all of its *)
(* sectors in order and touched no other, and a call for sectors that are  *)
(* not there is refused and moves nothing.  One thing he may not rely on:  *)
(* a write during which the disk reported a fault has stored its first     *)
(* sectors, however many, and may return 0 all the same.                   *)
(***************************************************************************)
EXTENDS Integers, Sequences

CONSTANTS
  Places,       \* the sectors there are
  Data,         \* what a sector can hold
  Factory,      \* [Places -> Data]: what they hold at first
  Requests,     \* the calls a program may make
  PlaceOf(_, _) \* PlaceOf(r, k): the place of the k-th sector of call r

NoCall == [none |-> TRUE]

VARIABLES
  contents,     \* [Places -> Data]
  call,         \* the call being served, or NoCall
  moved,        \* how many sectors of it have been moved
  got,          \* what a read has put into the caller's buffer
  result,       \* what the last call returned
  broken        \* the disk reports a fault; it comes and goes as the disk likes

absVars == <<contents, call, moved, got, result>>

Valid(r) == \A k \in 1..r.n : PlaceOf(r, k) \in Places

Init ==
  /\ contents = Factory
  /\ call = NoCall /\ moved = 0 /\ got = << >> /\ result = 0

\* The call is taken; its arguments are good.
Begin(r) ==
  /\ call = NoCall /\ Valid(r)
  /\ call' = r /\ moved' = 0 /\ got' = << >>
  /\ UNCHANGED <<contents, result>>

\* The call is refused.
Refuse(r) ==
  /\ call = NoCall /\ ~Valid(r)
  /\ moved' = 0 /\ got' = << >>
  /\ result' # 0
  /\ UNCHANGED <<contents, call>>

Fetch ==
  /\ call # NoCall /\ call.dir = "read" /\ moved < call.n
  /\ got' = Append(got, contents[PlaceOf(call, moved + 1)])
  /\ moved' = moved + 1
  /\ UNCHANGED <<contents, call, result>>

Put ==
  /\ call # NoCall /\ call.dir = "write" /\ moved < call.n
  /\ contents' = [contents EXCEPT ![PlaceOf(call, moved + 1)] = call.data[moved + 1]]
  /\ moved' = moved + 1
  /\ UNCHANGED <<call, got, result>>

\* The disk reports a fault in the middle of a write, and takes no more of it.
Lose ==
  /\ call # NoCall /\ call.dir = "write" /\ broken'
  /\ moved' = call.n
  /\ UNCHANGED <<contents, call, got, result>>

\* The call returns; 0 says that all of it was done.
Return ==
  /\ call # NoCall
  /\ result' = 0 => moved = call.n
  /\ call' = NoCall /\ moved' = 0
  /\ UNCHANGED <<contents, got>>

Next ==
  \/ \E r \in Requests : Begin(r) \/ Refuse(r)
  \/ Fetch \/ Put \/ Lose \/ Return

Spec == Init /\ [][Next]_absVars
=============================================================================
