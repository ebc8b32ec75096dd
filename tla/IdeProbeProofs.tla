--------------------------- MODULE IdeProbeProofs ---------------------------
(***************************************************************************)
(* What ide_init finds, for whatever stands in the four slots, any models  *)
(* and any drive that takes its time: the table has no holes, has every    *)
(* ATA disk with its own identification and nothing else as one.           *)
(***************************************************************************)
EXTENDS IdeProbe, NaturalsInduction, WellFoundedInduction, TLAPS

----------------------------------------------------------------------------
(* The inductive invariant. *)

\* The entries in use are the first ones, for slots that were probed, in order.
TableInv ==
  /\ count < turn
  /\ TableIsCompact
  /\ \A d \in 0..(count - 1) : Position(table[d].slot) < turn

\* What was entered is what is in the slot, and no disk was passed over.
EnteredInv ==
  /\ \A d \in 0..(count - 1) : attached[table[d].slot] = table[d].type
  /\ AtaIdentified
  /\ \A s \in SlotSet : Position(s) < turn /\ attached[s] = "ata" =>
       \E d \in 0..(count - 1) : table[d].slot = s

\* A drive has answered the command it supports and aborted the other; the
\* identification of a disk is read only when it is there.
AnswerInv ==
  /\ answer = "data" => Supports(attached[Slot], command)
  /\ answer = "error" => ~Supports(attached[Slot], command)
  /\ pc \in {"status", "poll", "signature"} => command = "IDENTIFY" /\ type = "ata"
  /\ pc = "signature" => answer = "error"
  /\ pc = "read" /\ type = "ata" => command = "IDENTIFY" /\ answer = "data"
  /\ pc = "read" /\ type = "atapi" => attached[Slot] = "atapi"

IInv == TypeOK /\ TableInv /\ EnteredInv /\ AnswerInv

----------------------------------------------------------------------------
(* Slots and their turns. *)

LEMMA PositionFact ==
  /\ \A k \in 1..4 : SlotOrder[k] \in SlotSet /\ Position(SlotOrder[k]) = k
  /\ \A s \in SlotSet : Position(s) \in 1..4 /\ SlotOrder[Position(s)] = s
<1>1. \A k, j \in 1..4 : SlotOrder[k] = SlotOrder[j] => k = j
  BY DEF SlotOrder
<1>2. \A k \in 1..4 : SlotOrder[k] \in SlotSet
  BY DEF SlotOrder, SlotSet
<1>3. \A s \in SlotSet : \E k \in 1..4 : SlotOrder[k] = s
  BY DEF SlotOrder, SlotSet
<1>4. \A s \in SlotSet : Position(s) \in 1..4 /\ SlotOrder[Position(s)] = s
  BY <1>3 DEF Position
<1>5. \A k \in 1..4 : Position(SlotOrder[k]) = k
  BY <1>1, <1>2, <1>4
<1> QED
  BY <1>2, <1>4, <1>5

LEMMA InitInv == Init => IInv
<1> SUFFICES ASSUME Init PROVE IInv
  OBVIOUS
<1> Empty \in Entries /\ Empty.reserved = 0
  BY DEF Empty, Entries, SlotSet
<1> table = [d \in Indices |-> Empty] /\ count = 0 /\ turn = 1
  BY DEF Init
<1>1. TypeOK
  <2>1. table \in [Indices -> Entries]
    OBVIOUS
  <2> QED
    BY <2>1 DEF Init, TypeOK
<1>2. TableInv
  <2>1. \A d \in Indices : table[d].reserved # 1 /\ ~(d < count)
    BY DEF Indices
  <2> QED
    BY <2>1 DEF TableInv, TableIsCompact
<1>3. EnteredInv
  BY PositionFact DEF Init, EnteredInv, AtaIdentified
<1>4. AnswerInv
  BY DEF Init, AnswerInv
<1> QED
  BY <1>1, <1>2, <1>3, <1>4 DEF IInv

----------------------------------------------------------------------------
(* The end of a turn without an entry. *)

LEMMA SkipInv ==
  ASSUME IInv, turn \in 1..4, attached[Slot] # "ata", NextTurn,
         UNCHANGED <<attached, type, count, table>>
  PROVE  IInv'
<1>1. /\ turn' = turn + 1 /\ pc' = (IF turn = 4 THEN "done" ELSE "select")
      /\ answer' = "rest" /\ command' = "none"
  BY DEF NextTurn
<1>2. TypeOK'
  BY <1>1 DEF IInv, TypeOK
<1>3. TableInv'
  <2>1. count < turn' /\ \A d \in 0..(count - 1) : Position(table[d].slot) < turn'
    <3>1. \A d \in 0..(count - 1) : d \in Indices
      BY DEF IInv, TypeOK, Indices
    <3>2. \A d \in Indices : table[d].slot \in SlotSet
      BY DEF IInv, TypeOK, Entries
    <3> QED
      BY <1>1, <3>1, <3>2, PositionFact DEF IInv, TableInv, TypeOK
  <2> QED
    BY <2>1 DEF IInv, TableInv, TableIsCompact
<1>4. EnteredInv'
  <2>1. \A s \in SlotSet : Position(s) < turn' /\ attached[s] = "ata" => Position(s) < turn
    BY <1>1, PositionFact DEF Slot
  <2> QED
    BY <2>1 DEF IInv, EnteredInv, AtaIdentified
<1>5. AnswerInv'
  BY <1>1 DEF AnswerInv
<1> QED
  BY <1>2, <1>3, <1>4, <1>5 DEF IInv

----------------------------------------------------------------------------
(* One lemma for each action. *)

LEMMA DriveInv == IInv /\ Drive => IInv'
<1> SUFFICES ASSUME IInv, Drive PROVE IInv'
  OBVIOUS
<1>1. /\ UNCHANGED <<attached, command, pc, turn, type, count, table>>
      /\ answer \in {"starting", "busy"}
      /\ answer' \in {"busy", "data", "error"}
      /\ answer' = "data" => Supports(attached[Slot], command)
      /\ answer' = "error" => ~Supports(attached[Slot], command)
  BY DEF Drive, Begins, Answers
<1>2. TypeOK'
  BY <1>1 DEF IInv, TypeOK
<1>3. TableInv' /\ EnteredInv'
  BY <1>1 DEF IInv, TableInv, TableIsCompact, EnteredInv, AtaIdentified
<1>4. AnswerInv'
  BY <1>1 DEF IInv, AnswerInv, Slot
<1> QED
  BY <1>2, <1>3, <1>4 DEF IInv

LEMMA SelectInv == IInv /\ Select => IInv'
<1> SUFFICES ASSUME IInv, Select PROVE IInv'
  OBVIOUS
<1>1. /\ pc = "select" /\ pc' = "status" /\ type' = "ata"
      /\ answer' = "starting" /\ command' = "IDENTIFY"
      /\ UNCHANGED <<attached, turn, count>>
      /\ table' = [table EXCEPT ![count].reserved = 0]
  BY DEF Select
<1>2. count \in Indices /\ table \in [Indices -> Entries]
  BY DEF IInv, TypeOK, Indices
<1>3. /\ table' \in [Indices -> Entries]
      /\ table'[count].reserved = 0
      /\ \A d \in Indices : d # count => table'[d] = table[d]
  BY <1>1, <1>2 DEF Entries
<1>4. TypeOK'
  BY <1>1, <1>3 DEF IInv, TypeOK
<1>5. \A d \in 0..(count - 1) : d \in Indices /\ table'[d] = table[d]
  BY <1>2, <1>3 DEF Indices
<1>6. TableInv'
  <2>1. TableIsCompact'
    <3> SUFFICES ASSUME NEW d \in Indices, NEW f \in Indices
                 PROVE  /\ table'[d].reserved = 1 <=> d < count
                        /\ d < f /\ f < count => Position(table'[d].slot) < Position(table'[f].slot)
      BY <1>1 DEF TableIsCompact
    <3>1. table'[d].reserved = 1 <=> d < count
      <4>1. CASE d = count
        BY <1>2, <1>3, <4>1 DEF Indices
      <4>2. CASE d # count
        BY <1>3, <4>2 DEF IInv, TableInv, TableIsCompact
      <4> QED
        BY <4>1, <4>2
    <3>2. ASSUME d < f, f < count
          PROVE  Position(table'[d].slot) < Position(table'[f].slot)
      <4>1. d # count /\ f # count
        BY <1>2, <3>2 DEF Indices
      <4> QED
        BY <1>3, <3>2, <4>1 DEF IInv, TableInv, TableIsCompact
    <3> QED
      BY <3>1, <3>2
  <2> QED
    BY <1>1, <1>5, <2>1 DEF IInv, TableInv
<1>7. EnteredInv'
  BY <1>1, <1>5 DEF IInv, EnteredInv, AtaIdentified
<1>8. AnswerInv'
  BY <1>1 DEF AnswerInv
<1> QED
  BY <1>4, <1>6, <1>7, <1>8 DEF IInv

LEMMA FirstStatusInv == IInv /\ FirstStatus => IInv'
<1> SUFFICES ASSUME IInv, FirstStatus PROVE IInv'
  OBVIOUS
<1>1. pc = "status" /\ turn \in 1..4
  BY DEF FirstStatus, IInv, TypeOK
<1>2. CASE StatusIsZero
  <2>1. attached[Slot] # "ata"
    BY <1>2 DEF StatusIsZero
  <2>2. NextTurn /\ UNCHANGED <<attached, type, count, table>>
    BY <1>2 DEF FirstStatus
  <2> QED
    BY <1>1, <2>1, <2>2, SkipInv
<1>3. CASE ~StatusIsZero
  <2>1. pc' = "poll" /\ UNCHANGED <<attached, answer, command, turn, type, count, table>>
    BY <1>3 DEF FirstStatus
  <2>2. TypeOK'
    BY <1>1, <2>1 DEF IInv, TypeOK
  <2>3. TableInv' /\ EnteredInv'
    BY <2>1 DEF IInv, TableInv, TableIsCompact, EnteredInv, AtaIdentified
  <2>4. AnswerInv'
    BY <1>1, <2>1 DEF IInv, AnswerInv, Slot
  <2> QED
    BY <2>2, <2>3, <2>4 DEF IInv
<1> QED
  BY <1>2, <1>3

LEMMA PollInv == IInv /\ Poll => IInv'
<1> SUFFICES ASSUME IInv, Poll PROVE IInv'
  OBVIOUS
<1>1. /\ pc = "poll" /\ (ERR \/ DRQ) /\ pc' = (IF ERR THEN "signature" ELSE "read")
      /\ UNCHANGED <<attached, answer, command, turn, type, count, table>>
  BY DEF Poll, PollEnds
<1>2. TypeOK'
  BY <1>1 DEF IInv, TypeOK
<1>3. TableInv' /\ EnteredInv'
  BY <1>1 DEF IInv, TableInv, TableIsCompact, EnteredInv, AtaIdentified
<1>4. AnswerInv'
  BY <1>1 DEF IInv, AnswerInv, Slot, ERR, DRQ
<1> QED
  BY <1>2, <1>3, <1>4 DEF IInv

LEMMA SignatureInv == IInv /\ Signature => IInv'
<1> SUFFICES ASSUME IInv, Signature PROVE IInv'
  OBVIOUS
<1>1. pc = "signature" /\ turn \in 1..4
  BY DEF Signature, IInv, TypeOK
<1>2. CASE attached[Slot] = "atapi"
  <2>1. /\ type' = "atapi" /\ answer' = "starting" /\ command' = "IDENTIFY_PACKET"
        /\ pc' = "read" /\ UNCHANGED <<attached, turn, count, table>>
    BY <1>2 DEF Signature
  <2>2. TypeOK'
    BY <1>1, <2>1 DEF IInv, TypeOK
  <2>3. TableInv' /\ EnteredInv'
    BY <2>1 DEF IInv, TableInv, TableIsCompact, EnteredInv, AtaIdentified
  <2>4. AnswerInv'
    BY <1>2, <2>1 DEF AnswerInv, Slot
  <2> QED
    BY <2>2, <2>3, <2>4 DEF IInv
<1>3. CASE attached[Slot] # "atapi"
  <2>1. attached[Slot] # "ata"
    BY <1>1 DEF IInv, AnswerInv, Supports
  <2>2. NextTurn /\ UNCHANGED <<attached, type, count, table>>
    BY <1>3 DEF Signature
  <2> QED
    BY <1>1, <2>1, <2>2, SkipInv
<1> QED
  BY <1>2, <1>3

\* The entry is made behind the others, for a slot later than theirs.
LEMMA ReadInv == IInv /\ ReadIdentification => IInv'
<1> SUFFICES ASSUME IInv, ReadIdentification PROVE IInv'
  OBVIOUS
<1> DEFINE new == [reserved |-> 1, type |-> type, slot |-> Slot, model |-> Identification]
<1>1. /\ pc = "read" /\ table' = [table EXCEPT ![count] = new] /\ count' = count + 1
      /\ UNCHANGED <<attached, type>>
      /\ turn' = turn + 1 /\ pc' = (IF turn = 4 THEN "done" ELSE "select")
      /\ answer' = "rest" /\ command' = "none"
  BY DEF ReadIdentification, NewEntry, NextTurn
<1>2. /\ turn \in 1..4 /\ count \in 0..3 /\ count \in Indices
      /\ table \in [Indices -> Entries] /\ type \in {"ata", "atapi"}
  BY <1>1 DEF IInv, TypeOK, TableInv, Indices
<1>3. Slot \in SlotSet /\ Position(Slot) = turn
  BY <1>2, PositionFact DEF Slot
<1>4. attached[Slot] = type /\ (type = "ata" => Identification = ModelOf(Slot))
  BY <1>1, <1>2 DEF IInv, AnswerInv, Supports, Identification, DRQ
<1>5. new \in Entries
  BY <1>2, <1>3, ModelAssumption DEF Entries, Identification
<1>6. /\ table' \in [Indices -> Entries] /\ table'[count] = new
      /\ \A d \in Indices : d # count => table'[d] = table[d]
  <2> HIDE DEF new
  <2> QED
    BY <1>1, <1>2, <1>5
<1>7. \A d \in 0..(count - 1) :
        d \in Indices /\ table'[d] = table[d] /\ table[d].slot \in SlotSet
  <2>1. \A d \in Indices : table[d].slot \in SlotSet
    BY <1>2 DEF Entries
  <2>2. \A d \in 0..(count - 1) : d \in Indices /\ d # count
    BY <1>2 DEF Indices
  <2> QED
    BY <1>6, <2>1, <2>2
<1>8. \A d \in 0..count : d = count \/ d \in 0..(count - 1)
  BY <1>2
<1>9. TypeOK'
  BY <1>1, <1>2, <1>6 DEF IInv, TypeOK
<1>10. TableInv'
  <2>1. \A d \in 0..(count' - 1) : Position(table'[d].slot) < turn'
    <3>1. \A d \in 0..(count - 1) : Position(table[d].slot) < turn
      BY DEF IInv, TableInv
    <3>2. Position(table'[count].slot) = turn
      BY <1>3, <1>6
    <3>3. \A d \in 0..(count - 1) : Position(table'[d].slot) < turn + 1
      BY <1>2, <1>7, <3>1, PositionFact
    <3>4. 0..(count' - 1) = 0..count
      BY <1>1, <1>2
    <3> QED
      BY <1>1, <1>2, <1>8, <3>2, <3>3, <3>4
  <2>2. TableIsCompact'
    <3> SUFFICES ASSUME NEW d \in Indices, NEW f \in Indices
                 PROVE  /\ table'[d].reserved = 1 <=> d < count + 1
                        /\ d < f /\ f < count + 1 => Position(table'[d].slot) < Position(table'[f].slot)
      BY <1>1 DEF TableIsCompact
    <3>1. table'[d].reserved = 1 <=> d < count + 1
      <4>1. CASE d = count
        BY <1>2, <1>6, <4>1
      <4>2. CASE d # count
        <5>1. table[d].reserved = 1 <=> d < count
          BY DEF IInv, TableInv, TableIsCompact
        <5> QED
          BY <1>2, <1>6, <4>2, <5>1 DEF Indices
      <4> QED
        BY <4>1, <4>2
    <3>2. ASSUME d < f, f < count + 1
          PROVE  Position(table'[d].slot) < Position(table'[f].slot)
      <4>1. d \in 0..(count - 1)
        BY <1>2, <3>2 DEF Indices
      <4>2. CASE f = count
        <5>1. Position(table[d].slot) < turn
          BY <4>1 DEF IInv, TableInv
        <5> QED
          BY <1>3, <1>6, <1>7, <4>1, <4>2, <5>1
      <4>3. CASE f # count
        <5>1. f \in 0..(count - 1)
          BY <1>2, <3>2, <4>3 DEF Indices
        <5>2. Position(table[d].slot) < Position(table[f].slot)
          BY <1>2, <3>2, <5>1 DEF IInv, TableInv, TableIsCompact
        <5> QED
          BY <1>7, <4>1, <5>1, <5>2
      <4> QED
        BY <4>2, <4>3
    <3> QED
      BY <3>1, <3>2
  <2>3. count' < turn'
    BY <1>1, <1>2 DEF IInv, TableInv
  <2> QED
    BY <2>1, <2>2, <2>3 DEF TableInv
<1>11. EnteredInv'
  <2>1. 0..(count' - 1) = 0..count
    BY <1>1, <1>2
  <2>2. \A d \in 0..count : attached[table'[d].slot] = table'[d].type
    BY <1>4, <1>6, <1>7, <1>8 DEF IInv, EnteredInv
  <2>3. \A d \in 0..count : table'[d].type = "ata" => table'[d].model = ModelOf(table'[d].slot)
    BY <1>4, <1>6, <1>7, <1>8 DEF IInv, EnteredInv, AtaIdentified
  <2>4. ASSUME NEW s \in SlotSet, Position(s) < turn + 1, attached[s] = "ata"
        PROVE  \E d \in 0..count : table'[d].slot = s
    <3>1. CASE s = Slot
      BY <1>2, <1>6, <3>1
    <3>2. CASE s # Slot
      <4>1. Position(s) < turn
        BY <1>2, <2>4, <3>2, PositionFact DEF Slot
      <4>2. PICK d \in 0..(count - 1) : table[d].slot = s
        BY <2>4, <4>1 DEF IInv, EnteredInv
      <4>3. d \in 0..count
        BY <1>2
      <4> QED
        BY <1>7, <4>2, <4>3
    <3> QED
      BY <3>1, <3>2
  <2> QED
    BY <1>1, <2>1, <2>2, <2>3, <2>4 DEF EnteredInv, AtaIdentified
<1>12. AnswerInv'
  BY <1>1 DEF AnswerInv
<1> QED
  BY <1>9, <1>10, <1>11, <1>12 DEF IInv

LEMMA NextInv == IInv /\ [Next]_vars => IInv'
<1> SUFFICES ASSUME IInv, [Next]_vars PROVE IInv'
  OBVIOUS
<1>1. CASE UNCHANGED vars
  BY <1>1 DEF vars, IInv, TypeOK, TableInv, TableIsCompact, EnteredInv, AtaIdentified, AnswerInv, Slot
<1>2. CASE Next
  BY <1>2, DriveInv, SelectInv, FirstStatusInv, PollInv, SignatureInv, ReadInv DEF Next, Probe
<1> QED
  BY <1>1, <1>2

LEMMA Invariant == Spec => []IInv
BY InitInv, NextInv, PTL DEF Spec

----------------------------------------------------------------------------
(* The results. *)

\* The table, the counter and the drives' answers keep their ranges, whatever
\* is in the slots.
THEOREM TypeCorrect == Spec => []TypeOK
BY Invariant, PTL DEF IInv

\* Whatever stands in the four slots, and however slow it is, the table of
\* ide_init has no hole at any time and never has a drive twice.
THEOREM NoHoles == Spec => []TableIsCompact
<1>1. IInv => TableIsCompact
  BY DEF IInv, TableInv
<1> QED
  BY <1>1, Invariant, PTL

\* An entry of an ATA drive never holds what another drive said, nor what a
\* data port says that has no data.
THEOREM DisksIdentified == Spec => []AtaIdentified
<1>1. IInv => AtaIdentified
  BY DEF IInv, EnteredInv
<1> QED
  BY <1>1, Invariant, PTL

\* When ide_init is done, it has found the ATA disks and no other as one.
LEMMA AllFound == IInv => AtaDrivesFound
<1> SUFFICES ASSUME IInv, pc = "done"
             PROVE  Found("ata") = {s \in SlotSet : attached[s] = "ata"}
  BY DEF AtaDrivesFound
<1>1. turn = 5 /\ count \in 0..4 /\ table \in [Indices -> Entries]
  BY DEF IInv, TypeOK
<1>2. \A d \in Indices : table[d].reserved = 1 <=> d \in 0..(count - 1)
  BY <1>1 DEF IInv, TableInv, TableIsCompact, Indices
<1>3. ASSUME NEW s \in Found("ata")
      PROVE  s \in SlotSet /\ attached[s] = "ata"
  BY <1>1, <1>2 DEF Found, Entries, IInv, EnteredInv
<1>4. ASSUME NEW s \in SlotSet, attached[s] = "ata"
      PROVE  s \in Found("ata")
  <2>1. Position(s) < turn
    BY <1>1, PositionFact
  <2>2. PICK d \in 0..(count - 1) : table[d].slot = s
    BY <1>4, <2>1 DEF IInv, EnteredInv
  <2>3. d \in Indices /\ table[d].reserved = 1 /\ table[d].type = "ata"
    BY <1>1, <1>2, <1>4, <2>2 DEF Indices, IInv, EnteredInv
  <2> QED
    BY <2>2, <2>3 DEF Found
<1> QED
  BY <1>3, <1>4

\* In the end every ATA drive is in the table, and nothing else as one, for
\* every choice of what stands in the slots.
THEOREM DisksFound == Spec => []AtaDrivesFound
BY AllFound, Invariant, PTL

\* A nonempty set of indices has a first one.
LEMMA FirstIndex ==
  ASSUME NEW W, W \subseteq Indices, NEW e \in W
  PROVE  \E d \in W : \A f \in W : d <= f
<1>1. W \subseteq Nat
  BY DEF Indices
<1>2. PICK d \in W : \A f \in W : ~(<<f, d>> \in OpToRel(<, Nat))
  BY <1>1, WFMin, NatLessThanWellFounded
<1>3. \A f \in W : ~(f < d)
  BY <1>1, <1>2 DEF OpToRel
<1> QED
  BY <1>1, <1>3

\* Looking the model of a disk up gives an entry in use, of that model, and no
\* later than the disk, even when two drives are of the same model.
THEOREM ModelsFound == Spec => []FoundByModel
<1>1. ASSUME IInv, pc = "done", NEW s \in Found("ata"), NEW d, d = DriveByModel(ModelOf(s))
      PROVE  /\ d >= 0 /\ table[d].reserved = 1 /\ Position(table[d].slot) <= Position(s)
             /\ table[d].model = ModelOf(s)
  <2> DEFINE with == {f \in Indices : table[f].model = ModelOf(s)}
  <2>1. count \in 0..4 /\ table \in [Indices -> Entries]
    BY <1>1 DEF IInv, TypeOK
  <2>2. PICK e \in Indices : table[e].reserved = 1 /\ table[e].type = "ata" /\ table[e].slot = s
    BY DEF Found
  <2>3. e < count /\ e \in 0..(count - 1)
    BY <1>1, <2>1, <2>2 DEF IInv, TableInv, TableIsCompact, Indices
  <2>4. e \in with
    BY <1>1, <2>2, <2>3 DEF IInv, EnteredInv, AtaIdentified
  <2>5. d \in with /\ \A f \in with : d <= f
    <3>1. d = CHOOSE g \in with : \A f \in with : g <= f
      BY <1>1, <2>4 DEF DriveByModel
    <3>2. \E g \in with : \A f \in with : g <= f
      <4> HIDE DEF with
      <4>1. with \subseteq Indices
        BY DEF with
      <4> QED
        BY <2>4, <4>1, FirstIndex
    <3> HIDE DEF with
    <3> QED
      BY <3>1, <3>2
  <2>6. d \in Indices /\ d <= e /\ table[d].model = ModelOf(s)
    BY <2>4, <2>5
  <2>7. table[d].reserved = 1
    BY <1>1, <2>1, <2>3, <2>6 DEF IInv, TableInv, TableIsCompact, Indices
  <2>8. Position(table[d].slot) <= Position(s)
    <3>1. table[d].slot \in SlotSet /\ s \in SlotSet
      BY <2>1, <2>2, <2>6 DEF Entries
    <3>2. CASE d = e
      BY <2>2, <3>1, <3>2, PositionFact
    <3>3. CASE d # e
      <4>1. d < e
        BY <2>6, <3>3 DEF Indices
      <4>2. Position(table[d].slot) < Position(table[e].slot)
        BY <1>1, <2>3, <2>6, <4>1 DEF IInv, TableInv, TableIsCompact
      <4> QED
        BY <2>2, <3>1, <4>2, PositionFact
    <3> QED
      BY <3>2, <3>3
  <2> QED
    BY <2>6, <2>7, <2>8 DEF Indices
<1>2. IInv => FoundByModel
  BY <1>1 DEF FoundByModel
<1> QED
  BY <1>2, Invariant, PTL
=============================================================================
