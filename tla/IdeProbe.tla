------------------------------ MODULE IdeProbe ------------------------------
(***************************************************************************)
(* ide_init: finding the drives, and ata_get_drive_by_model.               *)
(*                                                                         *)
(* The four slots <<channel, slave bit>> are probed in turn.  What answers *)
(* in a slot is one of                                                     *)
(*   "none"     nothing: STATUS reads 0                                    *)
(*   "ata"      answers IDENTIFY with its identification                   *)
(*   "atapi"    aborts IDENTIFY, shows the packet signature, answers       *)
(*              IDENTIFY PACKET                                            *)
(*   "unknown"  aborts IDENTIFY with another signature; an empty bus that  *)
(*              reads 0xFF does the same                                   *)
(* and it moves on its own, as in IdeDevice.                               *)
(***************************************************************************)
EXTENDS Integers

CONSTANTS
  Layouts,     \* the sets of drives probed: functions from slot to kind
  Models,      \* model strings
  ModelOf(_),  \* the model of the drive in a slot
  Garbage      \* the model that a data port without data spells

SlotOrder == <<<<0, 0>>, <<0, 1>>, <<1, 0>>, <<1, 1>>>>       \* i, j of the two loops
SlotSet   == {<<0, 0>>, <<0, 1>>, <<1, 0>>, <<1, 1>>}
Kinds     == {"none", "ata", "atapi", "unknown"}
Indices   == 0..4                                             \* MAXIMUM_IDE_DEVICES

ASSUME LayoutAssumption == Layouts \subseteq [SlotSet -> Kinds]
ASSUME ModelAssumption ==
  Garbage \in Models /\ \A s \in SlotSet : ModelOf(s) \in Models \ {Garbage}

VARIABLES
  attached,    \* what is in the slots
  answer,      \* the drive selected: "rest", "starting", "busy", "data" or "error"
  command,     \* the command it was given last
  pc,          \* where ide_init is
  turn,        \* which slot it probes: 1..4, 5 when it is done
  type,        \* IDE_ATA or IDE_ATAPI
  count,       \* the drives found so far
  table        \* g_ide_devices

vars == <<attached, answer, command, pc, turn, type, count, table>>

Slot == SlotOrder[turn]
Empty == [reserved |-> 0, type |-> "ata", slot |-> <<0, 0>>, model |-> ""]
Entries == [reserved: {0, 1}, type: {"ata", "atapi"}, slot: SlotSet, model: Models \cup {""}]

TypeOK ==
  /\ attached \in Layouts
  /\ answer \in {"rest", "starting", "busy", "data", "error"}
  /\ command \in {"none", "IDENTIFY", "IDENTIFY_PACKET"}
  /\ pc \in {"select", "status", "poll", "signature", "read", "done"}
  /\ turn \in 1..5 /\ (turn = 5 <=> pc = "done")
  /\ type \in {"ata", "atapi"}
  /\ count \in 0..4
  /\ table \in [Indices -> Entries]

Init ==
  /\ attached \in Layouts
  /\ answer = "rest" /\ command = "none"
  /\ pc = "select" /\ turn = 1 /\ type = "ata" /\ count = 0
  /\ table = [d \in Indices |-> Empty]

----------------------------------------------------------------------------
(* The drive that is selected (external). *)

\* The bits of its STATUS.  400ns have to pass before a command shows: until
\* then a disk shows that it is ready and a packet drive, which does not say
\* so before its first command, shows 0.
StatusIsZero ==
  \/ attached[Slot] = "none"
  \/ attached[Slot] = "atapi" /\ answer = "starting" /\ command = "IDENTIFY"
ERR == answer = "error"
DRQ == answer = "data"

Supports(kind, cmd) ==
  (kind = "ata" /\ cmd = "IDENTIFY") \/ (kind = "atapi" /\ cmd = "IDENTIFY_PACKET")

Begins ==
  /\ answer = "starting" /\ attached[Slot] # "none"
  /\ answer' = "busy"
  /\ UNCHANGED <<attached, command, pc, turn, type, count, table>>

Answers ==
  /\ answer = "busy"
  /\ answer' = IF Supports(attached[Slot], command) THEN "data" ELSE "error"
  /\ UNCHANGED <<attached, command, pc, turn, type, count, table>>

Drive == turn <= 4 /\ (Begins \/ Answers)

----------------------------------------------------------------------------
(* ide_init. *)

\* The end of a turn of the loops, after a drive was found or by "continue".
NextTurn ==
  /\ turn' = turn + 1
  /\ pc' = IF turn = 4 THEN "done" ELSE "select"
  /\ answer' = "rest" /\ command' = "none"

\* (I), (II): assume no drive, select it, send IDENTIFY.
Select ==
  /\ pc = "select"
  /\ table' = [table EXCEPT ![count].reserved = 0]
  /\ type' = "ata"
  /\ answer' = "starting" /\ command' = "IDENTIFY"
  /\ pc' = "status"
  /\ UNCHANGED <<attached, turn, count>>

\* (III): if STATUS is 0, no device.
FirstStatus ==
  /\ pc = "status"
  /\ IF StatusIsZero
     THEN NextTurn /\ UNCHANGED <<attached, type, count, table>>
     ELSE pc' = "poll" /\ UNCHANGED <<attached, answer, command, turn, type, count, table>>

\* The loop ends on ERR or on BSY = 0 with DRQ = 1.  Mutants: on BSY = 0 alone;
\* on DRQ alone.
PollEndsReady == answer # "busy"
PollEndsDrq   == DRQ
PollEnds == ERR \/ DRQ

Poll ==
  /\ pc = "poll"
  /\ PollEnds
  /\ pc' = IF ERR THEN "signature" ELSE "read"
  /\ UNCHANGED <<attached, answer, command, turn, type, count, table>>

\* (IV): a drive that is no ATA drive shows its signature in LBA1, LBA2.
Signature ==
  /\ pc = "signature"
  /\ IF attached[Slot] = "atapi"
     THEN /\ type' = "atapi"
          /\ answer' = "starting" /\ command' = "IDENTIFY_PACKET"
          /\ pc' = "read"
          /\ UNCHANGED <<attached, turn, count, table>>
     ELSE NextTurn /\ UNCHANGED <<attached, type, count, table>>

\* (V) - (VIII): read the identification, without another look at STATUS, and
\* enter it.
Identification == IF DRQ THEN ModelOf(Slot) ELSE Garbage

\* Mutant: the entry is made at the slot's own index.
NewEntryBySlot(e) == [table EXCEPT ![turn - 1] = e]
NewEntry(e) == [table EXCEPT ![count] = e]

ReadIdentification ==
  /\ pc = "read"
  /\ table' = NewEntry([reserved |-> 1, type |-> type, slot |-> Slot, model |-> Identification])
  /\ count' = count + 1
  /\ NextTurn
  /\ UNCHANGED <<attached, type>>

Probe == Select \/ FirstStatus \/ Poll \/ Signature \/ ReadIdentification
Next == Drive \/ Probe

\* The CPU runs on and a drive ends what it has begun.
Spec == Init /\ [][Next]_vars /\ WF_vars(Probe) /\ WF_vars(Drive)

----------------------------------------------------------------------------
(* ata_get_drive_by_model: the first entry of the table with that model. *)

\* Mutant: the last one.
LastWithModel(m) ==
  LET with == {d \in Indices : table[d].model = m}
  IN  IF with = {} THEN -1 ELSE CHOOSE d \in with : \A f \in with : f <= d
DriveByModel(m) ==
  LET with == {d \in Indices : table[d].model = m}
  IN  IF with = {} THEN -1 ELSE CHOOSE d \in with : \A f \in with : d <= f

----------------------------------------------------------------------------
(* Properties. *)

Found(t) == {table[d].slot : d \in {f \in Indices : table[f].reserved = 1 /\ table[f].type = t}}
Position(s) == CHOOSE k \in 1..4 : SlotOrder[k] = s

\* At any time the entries in use are the first ones, each for a slot of its
\* own and in the order of the probing: an index, once given out, is a drive.
TableIsCompact ==
  \A d, f \in Indices :
    /\ table[d].reserved = 1 <=> d < count
    /\ d < f /\ f < count => Position(table[d].slot) < Position(table[f].slot)

\* In the end every ATA drive is in the table, and nothing but an ATA drive is
\* there as one, whatever stands in the other slots and however slow it is.
AtaDrivesFound ==
  pc = "done" => Found("ata") = {s \in SlotSet : attached[s] = "ata"}

\* The entry of an ATA drive holds what that very drive said.
AtaIdentified ==
  \A d \in 0..(count - 1) : table[d].type = "ata" => table[d].model = ModelOf(table[d].slot)

\* Looking a model up gives the first slot that holds such a disk.
FoundByModel ==
  pc = "done" =>
    \A s \in Found("ata") :
      LET d == DriveByModel(ModelOf(s))
      IN  d >= 0 /\ table[d].reserved = 1 /\ Position(table[d].slot) <= Position(s)
            /\ table[d].model = ModelOf(s)

\* ide_init comes to its end: no slot keeps it polling.
Terminates == <>(pc = "done")

\* What the comment "(V) Read Identification Space of the Device" says: each
\* entry holds the identification of its drive, that of a packet drive too.
AllIdentified == \A d \in 0..(count - 1) : table[d].model = ModelOf(table[d].slot)

\* What the comment "If Status = 0, No Device" says: a slot passed over that
\* way is empty.
AtapiDrivesFound ==
  pc = "done" => Found("atapi") = {s \in SlotSet : attached[s] = "atapi"}
=============================================================================
