---------------------------------- MODULE Pic ----------------------------------
(***************************************************************************)
(* The two 8259A interrupt controllers of a PC, as descriptor_tables.c     *)
(* programs them and isr.c acknowledges them.  They are hardware, so this  *)
(* whole module is external to the repository; it has what those writes    *)
(* reach: initialisation, masks, fixed priorities, the cascade, end of     *)
(* interrupt, and requests that go away before they are acknowledged.      *)
(***************************************************************************)
EXTENDS Integers

CONSTANT Lines       \* the interrupt lines that have a device

ASSUME LinesAssumption == Lines \subseteq 0..15 \ {2}

VARIABLES
  step,        \* [controller -> the word it expects: "icw2", "icw3", "icw4", or "ready"]
  base,        \* [controller -> the vector of its level 0]
  wired,       \* [controller -> ICW3: where the slave is, who the slave is]
  mask,        \* [controller -> levels that are masked]
  irr,         \* [controller -> levels that ask for service]
  isr          \* [controller -> levels in service]

picVars == <<step, base, wired, mask, irr, isr>>

Pics   == {"master", "slave"}
Levels == 0..7

PicOf(line)   == IF line < 8 THEN "master" ELSE "slave"
LevelOf(line) == line % 8

PicTypeOK ==
  /\ step \in [Pics -> {"icw2", "icw3", "icw4", "ready"}]
  /\ base \in [Pics -> 0..255] /\ wired \in [Pics -> 0..255]
  /\ mask \in [Pics -> SUBSET Levels]
  /\ irr \in [Pics -> SUBSET Levels] /\ isr \in [Pics -> SUBSET Levels]

\* As a BIOS leaves them: initialised, with some lines masked.
PicInit ==
  /\ step = [p \in Pics |-> "ready"]
  /\ base = [p \in Pics |-> IF p = "master" THEN 8 ELSE 112]
  /\ wired = [p \in Pics |-> IF p = "master" THEN 4 ELSE 2]
  /\ \E m \in {{}, Levels} : mask = [p \in Pics |-> m]
  /\ irr = [p \in Pics |-> {}] /\ isr = [p \in Pics |-> {}]

----------------------------------------------------------------------------
(* What is asked of the processor.  A level is held back by those in       *)
(* service that are as urgent or more; the lower the more urgent.          *)

Highest(S) == {n \in S : \A m \in S : n <= m}

Asking(p, requests) ==
  {n \in requests \ mask[p] : step[p] = "ready" /\ \A m \in isr[p] : n < m}
SlaveAsks  == Asking("slave", irr["slave"])
MasterAsks == Asking("master", irr["master"] \cup (IF SlaveAsks = {} THEN {} ELSE {2}))
INTR       == MasterAsks # {}

\* The slave's place on the master is level 2, where both know it to be.
FromSlave == 2 \in Highest(MasterAsks)
Cascaded  == wired["master"] = 4 /\ wired["slave"] = 2

\* The controller that answers the processor, and with which level: level 7
\* if the request has gone away meanwhile.
Asked        == IF FromSlave THEN "slave" ELSE "master"
AskedLevel   == CHOOSE n \in Highest(IF FromSlave THEN SlaveAsks ELSE MasterAsks) : TRUE
AskedLine    == AskedLevel + (IF FromSlave THEN 8 ELSE 0)
Vector(gone) ==
  IF FromSlave /\ ~Cascaded THEN 255
  ELSE base[Asked] + (IF gone THEN 7 ELSE AskedLevel)

Acknowledge(gone) ==
  /\ INTR
  /\ irr' = [irr EXCEPT ![Asked] = @ \ {AskedLevel}]
  /\ isr' = [p \in Pics |-> isr[p] \cup (IF p = Asked THEN (IF gone THEN {} ELSE {AskedLevel})
                                        ELSE IF FromSlave THEN {2} ELSE {})]
  /\ UNCHANGED <<step, base, wired, mask>>

----------------------------------------------------------------------------
(* What the processor writes. *)

ICW1(v) == (v \div 16) % 2 = 1
Bits(v) == {n \in Levels : (v \div 2^n) % 2 = 1}

\* The command port: ICW1, or the end of the most urgent interrupt in service.
Command(p, v) ==
  IF ICW1(v)
  THEN /\ step' = [step EXCEPT ![p] = "icw2"]
       /\ mask' = [mask EXCEPT ![p] = {}]
       /\ irr' = [irr EXCEPT ![p] = {}] /\ isr' = [isr EXCEPT ![p] = {}]
       /\ UNCHANGED <<base, wired>>
  ELSE /\ isr' = IF v = 32 THEN [isr EXCEPT ![p] = @ \ Highest(@)] ELSE isr
       /\ UNCHANGED <<step, base, wired, mask, irr>>

\* The data port: ICW2 to ICW4 in their order, afterwards the mask.
Data(p, v) ==
  /\ step' = [step EXCEPT ![p] = CASE @ = "icw2" -> "icw3" [] @ = "icw3" -> "icw4"
                                   [] OTHER -> "ready"]
  /\ base' = IF step[p] = "icw2" THEN [base EXCEPT ![p] = v - (v % 8)] ELSE base
  /\ wired' = IF step[p] = "icw3" THEN [wired EXCEPT ![p] = v] ELSE wired
  /\ mask' = IF step[p] = "ready" THEN [mask EXCEPT ![p] = Bits(v)] ELSE mask
  /\ UNCHANGED <<irr, isr>>

\* A device raises its line.
Raise(line) ==
  /\ irr' = [irr EXCEPT ![PicOf(line)] = @ \cup {LevelOf(line)}]
  /\ UNCHANGED <<step, base, wired, mask, isr>>
=============================================================================
