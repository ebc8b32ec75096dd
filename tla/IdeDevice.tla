------------------------------ MODULE IdeDevice ------------------------------
(***************************************************************************)
(* The drives behind the two ATA channels, as ide.c meets them: a status   *)
(* that changes on its own, a command register, a data port and a write    *)
(* cache.  The drives are hardware, so this whole module is external to    *)
(* the repository; it says what ide.c's loops and waits are written        *)
(* against, and no more.                                                   *)
(*                                                                         *)
(* The phase of a channel stands for its status register:                  *)
(*   "idle"      BSY = 0, DRQ = 0; ERR or DF tell how the last command went *)
(*   "starting"  a command was written and its 400ns have not passed: the  *)
(*               status still shows BSY = 0, DRQ = 0 and the old ERR, DF   *)
(*   "busy"      BSY = 1                                                   *)
(*   "data"      BSY = 0, DRQ = 1                                          *)
(*   "gap"       a sector went through and its 400ns have not passed: the  *)
(*               status still shows DRQ = 1                                *)
(***************************************************************************)
EXTENDS Integers, Sequences

CONSTANTS
  Capacity,    \* [<<channel, slave bit>> -> number of sectors] of the drives that are there
  Data,        \* what a sector can hold
  Factory,     \* [<<drive, sector>> -> Data]: what the drives hold at first
  Floating,    \* what the data port reads as when no drive offers data
  Outcomes     \* [{"read", "write", "flush"} -> SUBSET faults]: how a command may go;
               \* {} is success, {"DF"} a device fault, other sets are ERROR registers

VARIABLES
  phase,       \* [channel -> phase]
  fault,       \* [channel -> ERROR bits and "DF"] of the last command
  job,         \* [channel -> the command being served]
  latch,       \* [channel -> << >> or <<sector data>>]: sector sent and not yet stored
  seen,        \* [<<drive, sector>> -> Data]: what a read finds, the cache included
  media        \* [<<drive, sector>> -> Data]: what survives a power loss

deviceVars == <<phase, fault, job, latch, seen, media>>

Channels  == {0, 1}
Drives    == DOMAIN Capacity
ErrorBits == {"AMNF", "TK0NF", "ABRT", "MCR", "IDNF", "MC", "UNC", "BBK"}
Faults    == SUBSET (ErrorBits \cup {"DF"})
Phases    == {"idle", "starting", "busy", "data", "gap"}
Places    == UNION {{d} \X (0..(Capacity[d] - 1)) : d \in Drives}      \* <<drive, sector>>
Jobs      == [op: {"none", "read", "write", "flush"}, dev: Channels \X {0, 1}, at: Nat, left: Nat]

ASSUME CapacityAssumption ==
  /\ Drives \subseteq Channels \X {0, 1}
  /\ \A d \in Drives : Capacity[d] \in Nat
ASSUME DataAssumption == Floating \in Data /\ Factory \in [Places -> Data]
ASSUME OutcomesAssumption ==
  /\ Outcomes \in [{"read", "write", "flush"} -> SUBSET Faults]
  /\ \A op \in DOMAIN Outcomes : {} \in Outcomes[op]

DeviceTypeOK ==
  /\ phase \in [Channels -> Phases]
  /\ fault \in [Channels -> Faults]
  /\ job \in [Channels -> Jobs]
  /\ latch \in [Channels -> {<< >>} \cup {<<v>> : v \in Data}]
  /\ seen \in [Places -> Data]
  /\ media \in [Places -> Data]

DeviceInit ==
  /\ phase = [c \in Channels |-> "idle"]
  /\ fault = [c \in Channels |-> {}]
  /\ job = [c \in Channels |-> [op |-> "none", dev |-> <<c, 0>>, at |-> 0, left |-> 0]]
  /\ latch = [c \in Channels |-> << >>]
  /\ seen = Factory
  /\ media = Factory

----------------------------------------------------------------------------
(* What the status register shows. *)

BSY(c) == phase[c] = "busy"
DRQ(c) == phase[c] \in {"data", "gap"}
DF(c)  == "DF" \in fault[c]
ERR(c) == fault[c] \cap ErrorBits # {}

\* The place the channel's command is at.
Target(c) == <<job[c].dev, job[c].at>>

----------------------------------------------------------------------------
(* What the CPU does to a channel. *)

\* A command is taken only by an idle channel; written to any other it is lost.
Command(c, j) ==
  IF phase[c] = "idle"
  THEN /\ phase' = [phase EXCEPT ![c] = "starting"]
       /\ job' = [job EXCEPT ![c] = j]
       /\ latch' = [latch EXCEPT ![c] = << >>]
       /\ UNCHANGED <<fault, seen, media>>
  ELSE UNCHANGED deviceVars

\* One more sector of a command is done.
Advanced(j) == [op |-> j.op, dev |-> j.dev, at |-> j.at + 1, left |-> j.left - 1]

\* One sector read from the data port: what the CPU gets, and what it does.
PortValue(c) ==
  IF phase[c] = "data" /\ job[c].op = "read" THEN seen[Target(c)] ELSE Floating
DataIn(c) ==
  IF phase[c] = "data" /\ job[c].op = "read"
  THEN /\ phase' = [phase EXCEPT ![c] = IF job[c].left = 1 THEN "idle" ELSE "gap"]
       /\ job' = [job EXCEPT ![c] = Advanced(@)]
       /\ UNCHANGED <<fault, latch, seen, media>>
  ELSE UNCHANGED deviceVars

\* One sector written to the data port; without a request for data it is lost.
DataOut(c, v) ==
  IF phase[c] = "data" /\ job[c].op = "write"
  THEN /\ latch' = [latch EXCEPT ![c] = <<v>>]
       /\ phase' = [phase EXCEPT ![c] = "gap"]
       /\ UNCHANGED <<fault, job, seen, media>>
  ELSE UNCHANGED deviceVars

----------------------------------------------------------------------------
(* What a drive does on its own. *)

\* The 400ns are over.
RaiseBusy(c) ==
  /\ phase[c] \in {"starting", "gap"}
  /\ phase' = [phase EXCEPT ![c] = "busy"]
  /\ fault' = [fault EXCEPT ![c] = {}]
  /\ UNCHANGED <<job, latch, seen, media>>

\* The command ends in an error: an address past the end always does.
Fail(c) ==
  /\ phase[c] = "busy"
  /\ \E f \in Outcomes[job[c].op] \cup {{"IDNF"}} :
       /\ f # {}
       /\ f = {"IDNF"} =>
            \/ f \in Outcomes[job[c].op]
            \/ job[c].op # "flush" /\ Target(c) \notin Places
       /\ fault' = [fault EXCEPT ![c] = f]
  /\ phase' = [phase EXCEPT ![c] = "idle"]
  /\ UNCHANGED <<job, latch, seen, media>>

\* The sector to be read is in the drive's buffer, or the next one to be
\* written may come.
Offer(c) ==
  /\ phase[c] = "busy" /\ latch[c] = << >>
  /\ job[c].op \in {"read", "write"}
  /\ Target(c) \in Places
  /\ phase' = [phase EXCEPT ![c] = "data"]
  /\ UNCHANGED <<fault, job, latch, seen, media>>

\* A sector that was sent reaches the cache.
Store(c) ==
  /\ phase[c] = "busy" /\ latch[c] # << >>
  /\ Target(c) \in Places
  /\ seen' = [seen EXCEPT ![Target(c)] = latch[c][1]]
  /\ latch' = [latch EXCEPT ![c] = << >>]
  /\ job' = [job EXCEPT ![c] = Advanced(@)]
  /\ phase' = [phase EXCEPT ![c] = IF job[c].left = 1 THEN "idle" ELSE "busy"]
  /\ UNCHANGED <<fault, media>>

\* The cache reaches the media.
Flushed(c) ==
  /\ phase[c] = "busy" /\ job[c].op = "flush"
  /\ media' = [p \in Places |-> IF p[1] = job[c].dev THEN seen[p] ELSE media[p]]
  /\ phase' = [phase EXCEPT ![c] = "idle"]
  /\ UNCHANGED <<fault, job, latch, seen>>

DeviceStep(c) == RaiseBusy(c) \/ Fail(c) \/ Offer(c) \/ Store(c) \/ Flushed(c)
=============================================================================
