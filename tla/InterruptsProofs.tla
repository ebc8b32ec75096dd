--------------------------- MODULE InterruptsProofs ---------------------------
(***************************************************************************)
(* Proofs about Interrupts and Descriptors: what goes into the tables is   *)
(* what the processor reads from them, and handlers are not interrupted,   *)
(* get the right number, end their own interrupt and lose no tick, for any *)
(* addresses of the stubs, any devices, exceptions and frequencies.        *)
(***************************************************************************)
EXTENDS Interrupts, SequenceTheorems, TLAPS

USE DEF IRQ0

----------------------------------------------------------------------------
(* The tables. *)

\* The processor finds in an entry of the IDT the address that idt_set_gate
\* was given, whatever 32-bit address it is.
THEOREM GateRoundTrip ==
  ASSUME NEW address \in Nat, address \div WORD16 < WORD16, NEW sel, NEW flags
  PROVE  Target(IdtEntry(address, sel, flags)) = address
<1>1. (address \div WORD16) % WORD16 = address \div WORD16
  BY DEF WORD16
<1>2. address = (address % WORD16) + WORD16 * (address \div WORD16)
  BY DEF WORD16
<1> QED
  BY <1>1, <1>2 DEF Target, IdtEntry

\* The processor finds in an entry of the GDT the base that gdt_set_gate was
\* given, and the low twenty bits of the limit.
THEOREM SegmentRoundTrip ==
  ASSUME NEW b \in Nat, b < WORD32, NEW limit \in Nat, NEW access, NEW gran \in 0..255
  PROVE  /\ Base(GdtEntry(b, limit, access, gran)) = b
         /\ Limit(GdtEntry(b, limit, access, gran)) = limit % (16 * WORD16)
         /\ Paged(GdtEntry(b, limit, access, gran)) <=> gran >= 128
<1> DEFINE high == gran - (gran % 16)
           nibble == (limit \div WORD16) % 16
<1>1. Base(GdtEntry(b, limit, access, gran)) = b
  BY DEF Base, GdtEntry, WORD16, WORD32
<1>2. nibble \in 0..15 /\ high \in 0..240 /\ high % 16 = 0 /\ (high >= 128 <=> gran >= 128)
  BY DEF WORD16
<1>3. (nibble + high) % 16 = nibble /\ ((nibble + high) \div 128 = 1 <=> high >= 128)
  <2> HIDE DEF nibble, high
  <2> QED
    BY <1>2
<1>4. (limit % WORD16) + WORD16 * nibble = limit % (16 * WORD16)
  BY DEF WORD16
<1> QED
  BY <1>1, <1>2, <1>3, <1>4 DEF Limit, Paged, GdtEntry

\* init_gdt's four segments are all of memory.
THEOREM GdtFlat ==
  ASSUME NEW k \in 1..4
  PROVE  Base(Segment(k)) = 0 /\ Size(Segment(k)) = WORD32
<1>1. \A n \in {154, 146, 250, 242} :
        LET s == GdtEntry(0, WORD32 - 1, n, 207)
        IN  Base(s) = 0 /\ Limit(s) = 16 * WORD16 - 1 /\ Paged(s)
  BY DEF GdtEntry, Base, Limit, Paged, WORD16, WORD32
<1>2. \E n \in {154, 146, 250, 242} : Segment(k) = GdtEntry(0, WORD32 - 1, n, 207)
  <2>1. k = 1 \/ k = 2 \/ k = 3 \/ k = 4
    OBVIOUS
  <2> QED
    BY <2>1 DEF Segment
<1> QED
  BY <1>1, <1>2 DEF Size, WORD16, WORD32

\* From 19 Hz on the timer gets the divisor that init_timer computed; below,
\* it does not fit into the two bytes.
THEOREM DivisorSent ==
  ASSUME NEW f \in Nat, f >= 19
  PROVE  LowByte(Divisor(f)) + 256 * HighByte(Divisor(f)) = Divisor(f)
<1> DEFINE q == 1193180 \div f
<1>1. q \in Nat /\ q * f <= 1193180
  OBVIOUS
<1>2. q * 19 <= q * f
  BY <1>1
<1>3. q < 65536
  BY <1>1, <1>2
<1> HIDE DEF q
<1>4. (q % 256) + 256 * ((q \div 256) % 256) = q
  BY <1>1, <1>3
<1> QED
  BY <1>4 DEF q, Divisor, LowByte, HighByte

\* Every gate of the table leads to the stub of its number, keeps interrupts
\* out, and no other vector has one.
LEMMA Gates ==
  ASSUME NEW v \in Stubs
  PROVE  StubThrough[v] = v /\ KeepsOut(Idt[v])
<1>1. Idt[v] = IdtEntry(StubAddress[v], 8, 142)
  BY DEF Idt, Stubs, Vectors
<1>2. Target(Idt[v]) = StubAddress[v]
  BY <1>1, GateRoundTrip, StubsAssumption DEF Stubs
<1>3. Present(Idt[v]) /\ KeepsOut(Idt[v])
  BY <1>1 DEF IdtEntry, Present, KeepsOut
<1>4. {n \in Stubs : Present(Idt[v]) /\ StubAddress[n] = Target(Idt[v])} = {v}
  BY <1>2, <1>3, StubsAssumption DEF Stubs
<1>5. v \in Vectors
  BY DEF Stubs, Vectors
<1> QED
  BY <1>3, <1>4, <1>5 DEF StubThrough

----------------------------------------------------------------------------
(* The inductive invariant. *)

InService == {"stub", "handler", "eoi", "callback", "leave", "iret"}
Now       == served[1]

\* How far init_idt's writes have brought the controllers.
MasterStep(w) ==
  IF w = 0 \/ w >= 7 THEN "ready" ELSE IF w <= 2 THEN "icw2" ELSE IF w <= 4 THEN "icw3" ELSE "icw4"
SlaveStep(w) ==
  IF w <= 1 \/ w >= 8 THEN "ready" ELSE IF w <= 3 THEN "icw2" ELSE IF w <= 5 THEN "icw3" ELSE "icw4"
BootInv ==
  /\ step["master"] = MasterStep(writes) /\ step["slave"] = SlaveStep(writes)
  /\ writes >= 3 => base["master"] = 32
  /\ writes >= 4 => base["slave"] = 40
  /\ wired["master"] = 4 /\ wired["slave"] = 2
  /\ pc # "boot" => writes = 10

\* Only lines that have a device ask for service.
RequestsInv ==
  /\ \A n \in irr["master"] : n \in Lines
  /\ \A n \in irr["slave"] : n + 8 \in Lines

HandlersInv == \A v \in Vectors : v # IRQ0 => handlers[v] = "none"

\* Outside of an interrupt nothing is left of one.
OutsideInv ==
  pc \in {"boot", "kernel"} =>
    /\ stack = << >> /\ served = << >> /\ tick = due
    /\ \A p \in Pics : isr[p] = {}
    /\ pc = "boot" => ~intf /\ ~shadow

\* Inside of one there is one alone, and the stub is its stub.
NowInv ==
  pc \in InService =>
    /\ Len(served) = 1
    /\ Now.line >= 0 => stub = IRQ0 + SeenLine(Now)
    /\ Now.line < 0 => stub = Now.exception /\ stub \in Exceptions
    /\ pc \in {"eoi", "callback"} => Now.line >= 0
    /\ intf => shadow /\ pc = "iret"

\* The stack, from what the processor pushed to what the stub did.
Depth == CASE pc = "stub" -> (IF stub \in PushesError THEN 4 ELSE 3) [] pc = "iret" -> 3 [] OTHER -> 7
FrameInv ==
  pc \in InService =>
    /\ Len(stack) = Depth
    /\ \E b \in BOOLEAN : stack[1] = <<"eflags", b>>
    /\ stack[2] = <<"cs", 8>>
    /\ \E n \in Stubs \cup {NoStub} : stack[3] = <<"eip", <<"kernel", n>> >>
    /\ Depth >= 4 => stack[4] = <<"error", IF stub \in PushesError THEN stub ELSE 0>>
    /\ Depth = 7 => stack[5] = <<"number", stub>> /\ stack[6] = <<"regs", 0>> /\ stack[7] = <<"ds", 16>>

\* What the controllers have in service on behalf of it.
MasterServes(now) ==
  IF now.line >= 8 THEN {2} ELSE IF now.line < 0 \/ now.gone THEN {} ELSE {now.line}
SlaveServes(now) == IF now.line >= 8 /\ ~now.gone THEN {now.line - 8} ELSE {}
IsrInv ==
  /\ pc \in {"stub", "handler"} => isr["slave"] = SlaveServes(Now)
  /\ pc = "eoi" => isr["slave"] = {}
  /\ pc \in {"stub", "handler", "eoi"} => isr["master"] = MasterServes(Now)
  /\ pc \in {"callback", "leave", "iret"} => isr["master"] = {} /\ isr["slave"] = {}

\* A tick is due until its callback has counted it.
IsTick == Now.line = 0 /\ ~Now.gone /\ handlers[IRQ0] = "timer_callback"
TickInv ==
  /\ pc \in {"stub", "handler", "eoi", "callback"} => due = tick + (IF IsTick THEN 1 ELSE 0)
  /\ pc \in {"leave", "iret"} => due = tick

IInv ==
  /\ TypeOK /\ pc # "wild"
  /\ BootInv /\ RequestsInv /\ HandlersInv
  /\ OutsideInv /\ NowInv /\ FrameInv /\ IsrInv /\ TickInv

\* The parts that are about an interrupt.
ServiceInv == OutsideInv /\ NowInv /\ FrameInv /\ IsrInv /\ TickInv
----------------------------------------------------------------------------
(* The steps of the kernel and of the devices. *)

\* Interrupts are turned on while none is being served.
LEMMA StiPreserves ==
  ASSUME IInv, Sti
  PROVE  IInv'
<1>1. pc = "kernel" /\ pc' = "kernel" /\ intf' = TRUE /\ shadow' = TRUE
  BY DEF Sti
<1>2. UNCHANGED <<picVars, codeVars, stub, stack, served, due, raised>>
  BY <1>1 DEF Sti
<1>3. TypeOK'
  BY <1>1, <1>2 DEF IInv, TypeOK, PicTypeOK, picVars, codeVars
<1>4. BootInv' /\ RequestsInv' /\ HandlersInv'
  BY <1>1, <1>2 DEF IInv, BootInv, RequestsInv, HandlersInv, picVars, codeVars
<1>5. OutsideInv'
  BY <1>1, <1>2 DEF IInv, OutsideInv, picVars, codeVars
<1>6. NowInv' /\ FrameInv' /\ IsrInv' /\ TickInv'
  BY <1>1 DEF NowInv, FrameInv, IsrInv, TickInv, InService
<1> QED
  BY <1>1, <1>3, <1>4, <1>5, <1>6 DEF IInv

\* The instruction after the sti touches nothing of an interrupt.
LEMMA RunPreserves ==
  ASSUME IInv, Run
  PROVE  IInv'
<1>1. pc = "kernel" /\ pc' = "kernel" /\ shadow' = FALSE
  BY DEF Run
<1>2. UNCHANGED <<picVars, codeVars, stub, intf, stack, served, due, raised>>
  BY <1>1 DEF Run
<1>3. TypeOK'
  BY <1>1, <1>2 DEF IInv, TypeOK, PicTypeOK, picVars, codeVars
<1>4. BootInv' /\ RequestsInv' /\ HandlersInv'
  BY <1>1, <1>2 DEF IInv, BootInv, RequestsInv, HandlersInv, picVars, codeVars
<1>5. OutsideInv'
  BY <1>1, <1>2 DEF IInv, OutsideInv, picVars, codeVars
<1>6. NowInv' /\ FrameInv' /\ IsrInv' /\ TickInv'
  BY <1>1 DEF NowInv, FrameInv, IsrInv, TickInv, InService
<1> QED
  BY <1>1, <1>3, <1>4, <1>5, <1>6 DEF IInv

\* init_timer sets one handler alone; no interrupt is being served.
LEMMA InitTimerPreserves ==
  ASSUME IInv, NEW f \in Frequencies, InitTimer(f)
  PROVE  IInv'
<1>1. pc = "kernel" /\ pc' = "kernel" /\ shadow' = FALSE
  BY DEF InitTimer
<1>2. UNCHANGED <<picVars, writes, shit, tick, stub, intf, stack, served, due, raised>>
  BY <1>1 DEF InitTimer
<1>3. handlers' = [handlers EXCEPT ![IRQ0] = "timer_callback"]
  BY DEF InitTimer
<1>4. pit' \in 0..(WORD16 - 1)
  <2>1. f \in Nat /\ f > 0
    BY TimerAssumption
  <2>2. Divisor(f) \in Nat
    BY <2>1, SMT DEF Divisor
  <2>3. LowByte(Divisor(f)) \in 0..255 /\ HighByte(Divisor(f)) \in 0..255
    BY <2>2, SMT DEF LowByte, HighByte
  <2>4. pit' = LowByte(Divisor(f)) + 256 * HighByte(Divisor(f))
    BY DEF InitTimer
  <2>5. ASSUME NEW l \in 0..255, NEW h \in 0..255
        PROVE  l + 256 * h \in 0..(WORD16 - 1)
    <3>1. l + 256 * h \in Int /\ 0 <= l + 256 * h /\ l + 256 * h <= 65535
      BY SMT
    <3>2. WORD16 - 1 = 65535
      BY SMT DEF WORD16
    <3> QED
      BY <3>1, <3>2, SMT
  <2> QED
    BY <2>3, <2>4, <2>5
<1>5. TypeOK'
  BY <1>1, <1>2, <1>3, <1>4 DEF IInv, TypeOK, PicTypeOK, picVars
<1>6. BootInv' /\ RequestsInv' /\ HandlersInv'
  BY <1>1, <1>2, <1>3 DEF IInv, TypeOK, BootInv, RequestsInv, HandlersInv, picVars
<1>7. OutsideInv'
  BY <1>1, <1>2 DEF IInv, OutsideInv, picVars
<1>8. NowInv' /\ FrameInv' /\ IsrInv' /\ TickInv'
  BY <1>1 DEF NowInv, FrameInv, IsrInv, TickInv, InService
<1> QED
  BY <1>1, <1>5, <1>6, <1>7, <1>8 DEF IInv

\* When the tables are loaded all ten writes to the controllers are done.
LEMMA LoadTablesPreserves ==
  ASSUME IInv, LoadTables
  PROVE  IInv'
<1>1. pc = "boot" /\ pc' = "kernel" /\ writes = 10
  BY DEF LoadTables, Remap
<1>2. UNCHANGED <<picVars, writes, shit, tick, pit, stub, intf, shadow, stack, served, due, raised>>
  BY DEF LoadTables
<1>3. handlers' = [v \in Vectors |-> "none"]
  BY DEF LoadTables
<1>4. TypeOK'
  BY <1>1, <1>2, <1>3 DEF IInv, TypeOK, PicTypeOK, PCs, picVars
<1>5. BootInv' /\ RequestsInv' /\ HandlersInv'
  BY <1>1, <1>2, <1>3 DEF IInv, BootInv, RequestsInv, HandlersInv, picVars
<1>6. OutsideInv'
  BY <1>1, <1>2 DEF IInv, OutsideInv, picVars
<1>7. NowInv' /\ FrameInv' /\ IsrInv' /\ TickInv'
  BY <1>1 DEF NowInv, FrameInv, IsrInv, TickInv, InService
<1> QED
  BY <1>1, <1>4, <1>5, <1>6, <1>7 DEF IInv

\* A device asks for its own line and changes nothing else.
LEMMA DevicePreserves ==
  ASSUME IInv, NEW line \in Lines, Device(line)
  PROVE  IInv'
<1>1. UNCHANGED <<cpuVars, codeVars, due, step, base, wired, mask, isr>>
  BY DEF Device, Raise
<1>2. irr' = [irr EXCEPT ![PicOf(line)] = @ \cup {LevelOf(line)}]
  BY DEF Device, Raise
<1>3. /\ line \in 0..15 /\ LevelOf(line) \in Levels /\ PicOf(line) \in Pics
      /\ PicOf(line) = "master" => LevelOf(line) = line
      /\ PicOf(line) = "slave" => LevelOf(line) + 8 = line
  BY LinesAssumption DEF LevelOf, PicOf, Levels, Pics
<1>4. irr \in [Pics -> SUBSET Levels] /\ irr' \in [Pics -> SUBSET Levels]
  BY <1>2, <1>3 DEF IInv, TypeOK, PicTypeOK
<1>5. raised' \in [Lines -> 0..MaxRaises]
  BY TimerAssumption DEF IInv, TypeOK, Device
<1>6. TypeOK'
  BY <1>1, <1>4, <1>5 DEF IInv, TypeOK, PicTypeOK, cpuVars, codeVars
<1>7. RequestsInv'
  BY <1>2, <1>3, <1>4 DEF IInv, RequestsInv, Pics
<1>8. BootInv' /\ HandlersInv' /\ ServiceInv' /\ pc' # "wild"
  BY <1>1 DEF IInv, ServiceInv, BootInv, HandlersInv, OutsideInv, NowInv, Now, FrameInv, Depth,
              IsrInv, TickInv, IsTick, cpuVars, codeVars
<1> QED
  BY <1>6, <1>7, <1>8 DEF IInv, ServiceInv

----------------------------------------------------------------------------
(* What a write to a controller keeps. *)

\* A command leaves the controllers' registers of their types.
LEMMA CommandType ==
  ASSUME PicTypeOK, NEW p \in Pics, NEW v \in Nat, Command(p, v)
  PROVE  PicTypeOK'
<1>1. CASE ICW1(v)
  BY <1>1 DEF Command, PicTypeOK
<1>2. CASE ~ICW1(v)
  <2>1. UNCHANGED <<step, base, wired, mask, irr>>
    BY <1>2 DEF Command
  <2>2. isr' \in [Pics -> SUBSET Levels]
    BY <1>2 DEF Command, PicTypeOK
  <2> QED
    BY <2>1, <2>2 DEF PicTypeOK
<1> QED
  BY <1>1, <1>2

\* So does a word of the initialisation, or a mask.
LEMMA DataType ==
  ASSUME PicTypeOK, NEW p \in Pics, NEW v \in 0..255, Data(p, v)
  PROVE  PicTypeOK'
<1>1. step' \in [Pics -> {"icw2", "icw3", "icw4", "ready"}]
  BY DEF Data, PicTypeOK
<1>2. v - (v % 8) \in 0..255
  OBVIOUS
<1>3. base' \in [Pics -> 0..255] /\ wired' \in [Pics -> 0..255]
  BY <1>2 DEF Data, PicTypeOK
<1>4. Bits(v) \in SUBSET Levels
  BY DEF Bits
<1>5. mask' \in [Pics -> SUBSET Levels]
  BY <1>4 DEF Data, PicTypeOK
<1>6. irr' = irr /\ isr' = isr
  BY DEF Data
<1> QED
  BY <1>1, <1>3, <1>5, <1>6 DEF PicTypeOK

\* Each write finds the controller in the step that it is meant for.
LEMMA WritePortPreserves ==
  ASSUME IInv, WritePort
  PROVE  IInv'
<1> DEFINE p == Remap[writes + 1][1]
           c == Remap[writes + 1][2]
           v == Remap[writes + 1][3]
<1>1. /\ pc = "boot" /\ writes \in 0..9 /\ writes' = writes + 1
      /\ IF c = "command" THEN Command(p, v) ELSE Data(p, v)
      /\ UNCHANGED <<cpuVars, handlers, shit, tick, pit, due, raised>>
  BY DEF WritePort, Remap, IInv, TypeOK
<1>2. /\ c = (IF writes <= 1 THEN "command" ELSE "data")
      /\ p = (IF writes % 2 = 0 THEN "master" ELSE "slave")
      /\ writes <= 1 => v = 17
      /\ writes = 2 => v = 32
      /\ writes = 3 => v = 40
      /\ writes = 4 => v = 4
      /\ writes = 5 => v = 2
      /\ v \in 0..255
  BY <1>1, SMT DEF Remap
<1> HIDE DEF p, c, v
<1>3. p \in Pics
  BY <1>2 DEF Pics
<1>4. IF writes <= 1 THEN Command(p, 17) ELSE Data(p, v)
  BY <1>1, <1>2
<1>5. PicTypeOK'
  BY <1>2, <1>3, <1>4, CommandType, DataType DEF IInv, TypeOK
<1>6. ICW1(17)
  BY DEF ICW1
<1>7. RequestsInv' /\ (\A q \in Pics : isr'[q] = {})
  <2>0. irr \in [Pics -> SUBSET Levels] /\ isr \in [Pics -> SUBSET Levels]
    BY DEF IInv, TypeOK, PicTypeOK
  <2>1. \A q \in Pics : isr[q] = {}
    BY <1>1 DEF IInv, OutsideInv
  <2>2. CASE writes <= 1
    BY <1>3, <1>4, <1>6, <2>0, <2>1, <2>2 DEF Command, IInv, RequestsInv, Pics
  <2>3. CASE ~(writes <= 1)
    BY <1>4, <2>1, <2>3 DEF Data, IInv, RequestsInv
  <2> QED
    BY <2>2, <2>3
<1>8. BootInv'
  <2>1. /\ step \in [Pics -> {"icw2", "icw3", "icw4", "ready"}]
        /\ base \in [Pics -> 0..255] /\ wired \in [Pics -> 0..255]
    BY DEF IInv, TypeOK, PicTypeOK
  <2>2. BootInv
    BY DEF IInv
  <2>3. pc' = "boot"
    BY <1>1 DEF cpuVars
  <2>4. CASE writes <= 1
    <3>1. step' = [step EXCEPT ![p] = "icw2"] /\ base' = base /\ wired' = wired
      BY <1>4, <1>6, <2>4 DEF Command
    <3> QED
      BY <1>1, <1>2, <2>1, <2>2, <2>3, <2>4, <3>1 DEF BootInv, MasterStep, SlaveStep, Pics
  <2>5. CASE ~(writes <= 1)
    <3>1. /\ step' = [step EXCEPT ![p] = CASE @ = "icw2" -> "icw3" [] @ = "icw3" -> "icw4"
                                          [] OTHER -> "ready"]
          /\ base' = IF step[p] = "icw2" THEN [base EXCEPT ![p] = v - (v % 8)] ELSE base
          /\ wired' = IF step[p] = "icw3" THEN [wired EXCEPT ![p] = v] ELSE wired
      BY <1>4, <2>5 DEF Data
    <3>2. 32 - (32 % 8) = 32 /\ 40 - (40 % 8) = 40
      OBVIOUS
    <3>3. CASE p = "master"
      BY <1>1, <1>2, <2>1, <2>2, <2>3, <2>5, <3>1, <3>2, <3>3 DEF BootInv, MasterStep, SlaveStep, Pics
    <3>4. CASE p = "slave"
      BY <1>1, <1>2, <2>1, <2>2, <2>3, <2>5, <3>1, <3>2, <3>4 DEF BootInv, MasterStep, SlaveStep, Pics
    <3> QED
      BY <1>3, <3>3, <3>4 DEF Pics
  <2> QED
    BY <2>4, <2>5
<1>9. writes' \in 0..Len(Remap)
  BY <1>1 DEF Remap
<1>10. TypeOK'
  BY <1>1, <1>5, <1>9 DEF IInv, TypeOK, cpuVars
<1>11. HandlersInv' /\ OutsideInv' /\ NowInv' /\ FrameInv' /\ IsrInv' /\ TickInv' /\ pc' # "wild"
  BY <1>1, <1>7 DEF IInv, HandlersInv, OutsideInv, NowInv, FrameInv, IsrInv, TickInv, InService, cpuVars
<1> QED
  BY <1>7, <1>8, <1>10, <1>11 DEF IInv

----------------------------------------------------------------------------
(* The processor takes an interrupt. *)

\* Among levels that ask, one is the most urgent.
LEMMA MostUrgent ==
  ASSUME NEW S \in SUBSET Levels, S # {}
  PROVE  \E n \in S : Highest(S) = {n}
<1>1. \E n \in S : \A m \in S : n <= m
  <2>1. \A n \in S : n \in Int /\ 0 <= n /\ n <= 7
    BY DEF Levels
  <2>2. CASE 0 \in S
    BY <2>1, <2>2
  <2>3. CASE 0 \notin S /\ 1 \in S
    BY <2>1, <2>3
  <2>4. CASE {0, 1} \cap S = {} /\ 2 \in S
    BY <2>1, <2>4
  <2>5. CASE {0, 1, 2} \cap S = {} /\ 3 \in S
    BY <2>1, <2>5
  <2>6. CASE {0, 1, 2, 3} \cap S = {} /\ 4 \in S
    BY <2>1, <2>6
  <2>7. CASE {0, 1, 2, 3, 4} \cap S = {} /\ 5 \in S
    BY <2>1, <2>7
  <2>8. CASE {0, 1, 2, 3, 4, 5} \cap S = {} /\ 6 \in S
    BY <2>1, <2>8
  <2>9. CASE {0, 1, 2, 3, 4, 5, 6} \cap S = {}
    BY <2>1, <2>9
  <2> QED
    BY <2>2, <2>3, <2>4, <2>5, <2>6, <2>7, <2>8, <2>9
<1>2. PICK n \in S : \A m \in S : n <= m
  BY <1>1
<1>3. \A k \in S : (\A m \in S : k <= m) => k = n
  BY <1>2 DEF Levels
<1> QED
  BY <1>2, <1>3 DEF Highest

\* What asks is a line that has a device; the slave's lines come in on the
\* master's level 2, on which there is none.
LEMMA TheAskedLine ==
  ASSUME IInv, INTR
  PROVE  /\ AskedLine \in Lines /\ AskedLevel \in Levels
         /\ FromSlave => AskedLine = AskedLevel + 8
         /\ ~FromSlave => AskedLine = AskedLevel
<1>1. /\ irr \in [Pics -> SUBSET Levels]
      /\ \A n \in irr["master"] : n \in Lines
      /\ \A n \in irr["slave"] : n + 8 \in Lines
      /\ 2 \notin Lines
  BY LinesAssumption DEF IInv, TypeOK, PicTypeOK, RequestsInv
<1>2. SlaveAsks \subseteq irr["slave"] /\ SlaveAsks \in SUBSET Levels
  BY <1>1 DEF SlaveAsks, Asking, Pics
<1>3. /\ MasterAsks \subseteq irr["master"] \cup (IF SlaveAsks = {} THEN {} ELSE {2})
      /\ MasterAsks \in SUBSET Levels /\ MasterAsks # {}
  BY <1>1 DEF MasterAsks, Asking, Pics, INTR, Levels
<1>4. CASE FromSlave
  <2>1. 2 \in MasterAsks
    BY <1>4 DEF FromSlave, Highest
  <2>2. SlaveAsks # {}
    BY <1>1, <1>3, <2>1
  <2>3. PICK n \in SlaveAsks : Highest(SlaveAsks) = {n}
    BY <1>2, <2>2, MostUrgent
  <2>4. AskedLevel = n
    BY <1>4, <2>3 DEF AskedLevel
  <2> QED
    BY <1>1, <1>2, <1>4, <2>3, <2>4 DEF AskedLine
<1>5. CASE ~FromSlave
  <2>1. PICK n \in MasterAsks : Highest(MasterAsks) = {n}
    BY <1>3, MostUrgent
  <2>2. AskedLevel = n /\ n # 2
    BY <1>5, <2>1 DEF AskedLevel, FromSlave
  <2>3. n \in irr["master"] /\ n \in Levels
    BY <1>3, <2>1, <2>2
  <2>4. AskedLine = n
    BY <1>5, <2>2, <2>3 DEF AskedLine, Levels
  <2> QED
    BY <1>1, <1>5, <2>2, <2>3, <2>4
<1> QED
  BY <1>4, <1>5

\* Its vector is that of the line it is seen as.
LEMMA TheVector ==
  ASSUME IInv, INTR, pc = "kernel", NEW gone \in BOOLEAN
  PROVE  /\ Vector(gone)
              = IRQ0 + SeenLine([line |-> AskedLine, gone |-> gone, exception |-> -1])
         /\ Vector(gone) \in 32..47
<1>1. base["master"] = 32 /\ base["slave"] = 40 /\ Cascaded
  BY DEF IInv, BootInv, Cascaded
<1>2. /\ AskedLevel \in 0..7
      /\ FromSlave => AskedLine = AskedLevel + 8
      /\ ~FromSlave => AskedLine = AskedLevel
  BY TheAskedLine DEF Levels
<1>3. Vector(gone) = (IF FromSlave THEN 40 ELSE 32) + (IF gone THEN 7 ELSE AskedLevel)
  BY <1>1 DEF Vector, Asked
<1>4. SeenLine([line |-> AskedLine, gone |-> gone, exception |-> -1])
        = (IF gone THEN (IF FromSlave THEN 15 ELSE 7) ELSE AskedLine)
  BY <1>2 DEF SeenLine
<1>5. CASE gone
  BY <1>3, <1>4, <1>5
<1>6. CASE ~gone
  BY <1>2, <1>3, <1>4, <1>6
<1> QED
  BY <1>5, <1>6

\* Outside of an interrupt, the processor's first words are alone on the stack.
LEMMA EnterFirst ==
  ASSUME IInv, pc = "kernel", NEW v \in Stubs, Enter(v)
  PROVE  /\ pc' = "stub" /\ stub' = v /\ intf' = FALSE /\ shadow' = FALSE
         /\ stack' \in Seq(Words)
         /\ Len(stack') = (IF v \in PushesError THEN 4 ELSE 3)
         /\ stack'[1] = <<"eflags", intf>> /\ stack'[2] = <<"cs", 8>>
         /\ stack'[3] = <<"eip", <<pc, stub>> >>
         /\ v \in PushesError => stack'[4] = <<"error", v>>
<1> DEFINE frame == << <<"eflags", intf>>, <<"cs", 8>>, <<"eip", <<pc, stub>> >> >>
           error == IF v \in PushesError THEN << <<"error", v>> >> ELSE << >>
<1>1. stack = << >> /\ intf \in BOOLEAN /\ pc \in PCs /\ stub \in Stubs \cup {NoStub}
  BY DEF IInv, OutsideInv, TypeOK
<1>2. v \in Vectors
  BY DEF Stubs, Vectors
<1>3. /\ <<"eflags", intf>> \in Words /\ <<"cs", 8>> \in Words
      /\ <<"eip", <<pc, stub>> >> \in Words /\ <<"error", v>> \in Words
  BY <1>1, <1>2 DEF Words
<1>4. frame \in Seq(Words) /\ error \in Seq(Words) /\ stack \in Seq(Words)
  BY <1>1, <1>3
<1>5. /\ Len(frame) = 3 /\ frame[1] = <<"eflags", intf>> /\ frame[2] = <<"cs", 8>>
      /\ frame[3] = <<"eip", <<pc, stub>> >>
      /\ Len(error) = (IF v \in PushesError THEN 1 ELSE 0)
      /\ v \in PushesError => error[1] = <<"error", v>>
  OBVIOUS
<1>6. stack' = stack \o frame \o error
  BY DEF Enter
<1>7. StubThrough[v] = v /\ KeepsOut(Idt[v])
  BY Gates
<1>8. v # NoStub
  BY DEF Stubs, NoStub
<1>9. pc' = "stub" /\ stub' = v /\ intf' = FALSE /\ shadow' = FALSE
  BY <1>7, <1>8 DEF Enter
<1> HIDE DEF frame, error
<1>10. stack \o frame = frame
  BY <1>1, <1>4, ConcatEmptySeq
<1>11. stack' = frame \o error
  BY <1>6, <1>10
<1>12. /\ stack' \in Seq(Words) /\ Len(stack') = Len(frame) + Len(error)
       /\ \A i \in 1..Len(frame) + Len(error) :
            stack'[i] = IF i <= Len(frame) THEN frame[i] ELSE error[i - Len(frame)]
  BY <1>4, <1>11, ConcatProperties
<1>13. stack'[1] = frame[1] /\ stack'[2] = frame[2] /\ stack'[3] = frame[3]
  BY <1>5, <1>12
<1>14. v \in PushesError => stack'[4] = error[1]
  BY <1>5, <1>12
<1> QED
  BY <1>5, <1>9, <1>12, <1>13, <1>14

\* Everything of an interrupt or exception that has just come in.
LEMMA EnterPreserves ==
  ASSUME IInv, pc = "kernel", NEW v \in Stubs, Enter(v),
         NEW line \in {-1} \cup Lines, NEW gone \in BOOLEAN,
         NEW exception \in {-1} \cup Exceptions,
         served' = Append(served, [line |-> line, gone |-> gone, exception |-> exception]),
         line >= 0 =>
           v = IRQ0 + SeenLine([line |-> line, gone |-> gone, exception |-> exception]),
         line < 0 => v = exception /\ v \in Exceptions
  PROVE  /\ OutsideInv' /\ NowInv' /\ FrameInv' /\ pc' = "stub"
         /\ Now' = [line |-> line, gone |-> gone, exception |-> exception]
         /\ pc' \in PCs /\ stub' \in Stubs \cup {NoStub} /\ intf' \in BOOLEAN /\ shadow' \in BOOLEAN
         /\ stack' \in Seq(Words) /\ served' \in Seq(Services)
<1> DEFINE now == [line |-> line, gone |-> gone, exception |-> exception]
<1>1. /\ pc' = "stub" /\ stub' = v /\ intf' = FALSE /\ shadow' = FALSE
      /\ stack' \in Seq(Words)
      /\ Len(stack') = (IF v \in PushesError THEN 4 ELSE 3)
      /\ stack'[1] = <<"eflags", intf>> /\ stack'[2] = <<"cs", 8>>
      /\ stack'[3] = <<"eip", <<pc, stub>> >>
      /\ v \in PushesError => stack'[4] = <<"error", v>>
  BY EnterFirst
<1>2. served = << >> /\ served \in Seq(Services) /\ now \in Services
  BY DEF IInv, OutsideInv, TypeOK, Services
<1>3. now.line = line /\ now.exception = exception /\ served' = Append(served, now)
  OBVIOUS
<1> HIDE DEF now
<1>4. served' \in Seq(Services) /\ Len(served') = 1 /\ served'[1] = now
  <2>1. /\ Append(served, now) \in Seq(Services) /\ Len(Append(served, now)) = Len(served) + 1
        /\ Append(served, now)[Len(served) + 1] = now
    BY <1>2, AppendProperties
  <2>2. Len(served) = 0
    BY <1>2
  <2> QED
    BY <1>3, <2>1, <2>2
<1>5. Now' = now
  BY <1>4 DEF Now
<1>6. NowInv'
  <2>1. line >= 0 => stub' = IRQ0 + SeenLine(now)
    BY <1>1 DEF now
  <2> QED
    BY <1>1, <1>3, <1>4, <1>5, <2>1 DEF NowInv
<1>7. FrameInv'
  <2>1. \E b \in BOOLEAN : stack'[1] = <<"eflags", b>>
    BY <1>1 DEF IInv, TypeOK
  <2>2. \E n \in Stubs \cup {NoStub} : stack'[3] = <<"eip", <<"kernel", n>> >>
    BY <1>1 DEF IInv, TypeOK
  <2>3. Depth' = (IF v \in PushesError THEN 4 ELSE 3)
    BY <1>1 DEF Depth
  <2>4. Depth' >= 4 => stack'[4] = <<"error", IF stub' \in PushesError THEN stub' ELSE 0>>
    BY <1>1, <2>3
  <2>5. Depth' # 7
    BY <2>3
  <2> QED
    BY <1>1, <2>1, <2>2, <2>3, <2>4, <2>5 DEF FrameInv
<1>8. OutsideInv'
  BY <1>1 DEF OutsideInv
<1>9. pc' \in PCs /\ stub' \in Stubs \cup {NoStub} /\ intf' \in BOOLEAN /\ shadow' \in BOOLEAN
  BY <1>1 DEF PCs
<1> QED
  BY <1>1, <1>4, <1>5, <1>6, <1>7, <1>8, <1>9 DEF now

\* An interrupt comes in only from the kernel, and gets the stub of its line.
LEMMA InterruptPreserves ==
  ASSUME IInv, NEW gone \in BOOLEAN, Interrupt(gone)
  PROVE  IInv'
<1> DEFINE v == Vector(gone)
           now == [line |-> AskedLine, gone |-> gone, exception |-> -1]
<1>1. pc = "kernel" /\ INTR
  <2>1. pc # "wild" /\ intf /\ ~shadow /\ INTR
    BY DEF Interrupt, Wanted
  <2>2. pc \notin InService /\ pc # "boot" /\ pc \in PCs
    BY <2>1 DEF IInv, NowInv, OutsideInv, TypeOK
  <2> QED
    BY <2>1, <2>2 DEF PCs, InService
<1>2. /\ AskedLine \in Lines /\ AskedLevel \in Levels
      /\ FromSlave => AskedLine = AskedLevel + 8
      /\ ~FromSlave => AskedLine = AskedLevel
  BY <1>1, TheAskedLine
<1>3. AskedLine \in {-1} \cup Lines /\ AskedLine >= 0 /\ (AskedLine >= 8 <=> FromSlave)
  BY <1>2 DEF Levels
<1>4. v = IRQ0 + SeenLine(now) /\ v \in 32..47
  BY <1>1, TheVector
<1>5. v \in Stubs
  BY <1>4 DEF Stubs
<1>6. Enter(v) /\ served' = Append(served, now) /\ UNCHANGED <<codeVars, raised>>
  BY DEF Interrupt
<1>7. /\ OutsideInv' /\ NowInv' /\ FrameInv' /\ pc' = "stub" /\ Now' = now
      /\ pc' \in PCs /\ stub' \in Stubs \cup {NoStub} /\ intf' \in BOOLEAN /\ shadow' \in BOOLEAN
      /\ stack' \in Seq(Words) /\ served' \in Seq(Services)
  <2>1. \A line \in {-1} \cup Lines :
          line >= 0 /\ served' = Append(served, [line |-> line, gone |-> gone, exception |-> -1])
            /\ v = IRQ0 + SeenLine([line |-> line, gone |-> gone, exception |-> -1]) =>
          /\ OutsideInv' /\ NowInv' /\ FrameInv' /\ pc' = "stub"
          /\ Now' = [line |-> line, gone |-> gone, exception |-> -1]
          /\ pc' \in PCs /\ stub' \in Stubs \cup {NoStub} /\ intf' \in BOOLEAN /\ shadow' \in BOOLEAN
          /\ stack' \in Seq(Words) /\ served' \in Seq(Services)
    <3> TAKE line \in {-1} \cup Lines
    <3> HAVE line >= 0 /\ served' = Append(served, [line |-> line, gone |-> gone, exception |-> -1])
               /\ v = IRQ0 + SeenLine([line |-> line, gone |-> gone, exception |-> -1])
    <3>1. ~(line < 0) /\ -1 \in {-1} \cup Exceptions
      BY LinesAssumption
    <3> HIDE DEF v
    <3> QED
      BY <1>1, <1>5, <1>6, <3>1, EnterPreserves
  <2> QED
    BY <1>3, <1>4, <1>6, <2>1
<1>8. /\ irr' = [irr EXCEPT ![Asked] = @ \ {AskedLevel}]
      /\ isr' = [p \in Pics |-> isr[p] \cup (IF p = Asked THEN (IF gone THEN {} ELSE {AskedLevel})
                                             ELSE IF FromSlave THEN {2} ELSE {})]
      /\ UNCHANGED <<step, base, wired, mask>>
  BY DEF Interrupt, Acknowledge
<1>9. /\ irr \in [Pics -> SUBSET Levels] /\ isr \in [Pics -> SUBSET Levels]
      /\ \A p \in Pics : isr[p] = {}
  BY <1>1 DEF IInv, TypeOK, PicTypeOK, OutsideInv
<1>10. PicTypeOK' /\ RequestsInv'
  <2>1. irr' \in [Pics -> SUBSET Levels]
    BY <1>8, <1>9
  <2>2. isr' \in [Pics -> SUBSET Levels]
    BY <1>2, <1>8, <1>9 DEF Levels
  <2>3. RequestsInv'
    BY <1>8, <1>9 DEF IInv, RequestsInv, Pics
  <2> QED
    BY <1>8, <2>1, <2>2, <2>3 DEF IInv, TypeOK, PicTypeOK
<1>11. IsrInv'
  <2>1. CASE FromSlave
    <3>1. AskedLine - 8 = AskedLevel /\ Asked = "slave" /\ AskedLine >= 8
      BY <1>2, <1>3, <2>1 DEF Asked, Levels
    <3>2. isr'["slave"] = (IF gone THEN {} ELSE {AskedLevel}) /\ isr'["master"] = {2}
      BY <1>8, <1>9, <2>1, <3>1 DEF Pics
    <3> QED
      BY <1>7, <3>1, <3>2 DEF IsrInv, SlaveServes, MasterServes
  <2>2. CASE ~FromSlave
    <3>1. AskedLine = AskedLevel /\ Asked = "master" /\ ~(AskedLine >= 8) /\ ~(AskedLine < 0)
      BY <1>2, <1>3, <2>2 DEF Asked, Levels
    <3>2. isr'["master"] = (IF gone THEN {} ELSE {AskedLevel}) /\ isr'["slave"] = {}
      BY <1>8, <1>9, <2>2, <3>1 DEF Pics
    <3> QED
      BY <1>7, <3>1, <3>2 DEF IsrInv, SlaveServes, MasterServes
  <2> QED
    BY <2>1, <2>2
<1>12. due \in Nat /\ due = tick
  BY <1>1 DEF IInv, TypeOK, OutsideInv
<1>13. due' = (IF AskedLine = 0 /\ ~gone /\ handlers[IRQ0] = "timer_callback" THEN due + 1 ELSE due)
  BY DEF Interrupt
<1>14. tick' = tick /\ handlers' = handlers /\ writes' = writes /\ shit' = shit /\ pit' = pit
       /\ raised' = raised
  BY <1>6 DEF codeVars
<1>15. TickInv' /\ due' \in Nat
  <2>1. IsTick' <=> AskedLine = 0 /\ ~gone /\ handlers[IRQ0] = "timer_callback"
    BY <1>7, <1>14 DEF IsTick
  <2> QED
    BY <1>7, <1>12, <1>13, <1>14, <2>1 DEF TickInv
<1>16. TypeOK'
  BY <1>7, <1>10, <1>14, <1>15 DEF IInv, TypeOK
<1>17. BootInv' /\ HandlersInv'
  BY <1>1, <1>8, <1>14 DEF IInv, BootInv, HandlersInv
<1> QED
  BY <1>7, <1>10, <1>11, <1>15, <1>16, <1>17 DEF IInv

\* So does an exception, with the error code if it has one.
LEMMA ExceptionPreserves ==
  ASSUME IInv, NEW v \in Exceptions, Exception(v)
  PROVE  IInv'
<1>1. /\ pc = "kernel" /\ Enter(v)
      /\ served' = Append(served, [line |-> -1, gone |-> FALSE, exception |-> v])
      /\ UNCHANGED <<picVars, codeVars, due, raised>>
  BY DEF Exception
<1>2. v \in Stubs
  BY ExceptionsAssumption DEF Stubs
<1>3. /\ OutsideInv' /\ NowInv' /\ FrameInv' /\ pc' = "stub"
      /\ Now' = [line |-> -1, gone |-> FALSE, exception |-> v]
      /\ pc' \in PCs /\ stub' \in Stubs \cup {NoStub} /\ intf' \in BOOLEAN /\ shadow' \in BOOLEAN
      /\ stack' \in Seq(Words) /\ served' \in Seq(Services)
  <2>1. ~(-1 >= 0) /\ -1 \in {-1} \cup Lines /\ FALSE \in BOOLEAN /\ v \in {-1} \cup Exceptions
    OBVIOUS
  <2>2. -1 >= 0 => v = IRQ0 + SeenLine([line |-> -1, gone |-> FALSE, exception |-> v])
    BY <2>1
  <2> QED
    BY <1>1, <1>2, <2>1, <2>2, EnterPreserves, Zenon
<1>4. PicTypeOK' /\ RequestsInv' /\ BootInv' /\ HandlersInv'
  BY <1>1, <1>3 DEF IInv, TypeOK, PicTypeOK, RequestsInv, BootInv, HandlersInv, picVars, codeVars
<1>5. IsrInv'
  <2>1. isr'["master"] = {} /\ isr'["slave"] = {}
    BY <1>1 DEF IInv, OutsideInv, Pics, picVars
  <2> QED
    BY <1>3, <2>1 DEF IsrInv, MasterServes, SlaveServes
<1>6. TickInv'
  BY <1>1, <1>3 DEF IInv, TypeOK, OutsideInv, TickInv, IsTick, codeVars
<1>7. TypeOK'
  BY <1>1, <1>3, <1>4 DEF IInv, TypeOK, codeVars
<1> QED
  BY <1>3, <1>4, <1>5, <1>6, <1>7 DEF IInv

----------------------------------------------------------------------------
(* The stub and irq_handler or isr_handler. *)

\* The stub tells an exception from a line, and a line of the slave from one
\* of the master, and knows whether an error code was pushed.
LEMMA TheStub ==
  ASSUME IInv, pc \in InService
  PROVE  /\ Now.line \in {-1} \cup Lines /\ Now.gone \in BOOLEAN /\ Now.line \in Int
         /\ stub \in Stubs /\ stub \in Vectors
         /\ Now.line >= 0 => stub >= 32 /\ stub = IRQ0 + SeenLine(Now)
         /\ Now.line < 0 => stub < 32 /\ stub = Now.exception
         /\ stub >= 40 <=> Now.line >= 8
         /\ stub = IRQ0 <=> Now.line = 0 /\ ~Now.gone
         /\ stub \in ErrCode <=> stub \in PushesError
<1>1. served \in Seq(Services) /\ Len(served) = 1
  BY DEF IInv, TypeOK, NowInv
<1>2. Now \in Services
  <2>1. 1 \in 1..Len(served)
    BY <1>1
  <2> QED
    BY <1>1, <2>1, ElementOfSeq DEF Now
<1>3. Now.line \in {-1} \cup Lines /\ Now.gone \in BOOLEAN
  BY <1>2 DEF Services
<1>4. Now.line \in -1..15
  <2>1. \A n : n = -1 \/ n \in 0..15 => n \in -1..15
    OBVIOUS
  <2>2. Now.line = -1 \/ Now.line \in 0..15
    BY <1>3, LinesAssumption
  <2> QED
    BY <2>1, <2>2
<1>5. /\ Now.line >= 0 => stub = IRQ0 + SeenLine(Now)
      /\ Now.line < 0 => stub = Now.exception /\ stub \in Exceptions
  BY DEF IInv, NowInv
<1>6. CASE Now.line >= 0
  <2>1. SeenLine(Now) = IF Now.gone THEN (IF Now.line < 8 THEN 7 ELSE 15) ELSE Now.line
    BY DEF SeenLine
  <2>2. /\ SeenLine(Now) \in 0..15 /\ (SeenLine(Now) >= 8 <=> Now.line >= 8)
        /\ SeenLine(Now) = 0 <=> Now.line = 0 /\ ~Now.gone
    BY <1>3, <1>4, <1>6, <2>1
  <2>3. stub \in 32..47 /\ (stub >= 40 <=> Now.line >= 8) /\ (stub = IRQ0 <=> SeenLine(Now) = 0)
    BY <1>5, <1>6, <2>2
  <2>4. stub \notin ErrCode /\ stub \notin PushesError
    BY <2>3 DEF ErrCode, PushesError
  <2>5. stub \in Stubs /\ stub \in Vectors /\ stub >= 32
    BY <2>3 DEF Stubs, Vectors
  <2>6. ~(Now.line < 0) /\ Now.line \in Int
    BY <1>4, <1>6
  <2> QED
    BY <1>3, <1>5, <1>6, <2>2, <2>3, <2>4, <2>5, <2>6
<1>7. CASE ~(Now.line >= 0)
  <2>1. Now.line < 0 /\ Now.line \in Int /\ Now.line # 0 /\ ~(Now.line >= 8)
    BY <1>4, <1>7
  <2>2. stub \in {0, 1, 3, 4, 5, 6, 7, 8, 10, 11, 12, 13, 14, 16, 19}
    BY <1>5, <2>1, ExceptionsAssumption
  <2>3. stub \in 0..31 /\ stub # IRQ0 /\ ~(stub >= 40)
    BY <2>2
  <2>4. stub \in ErrCode <=> stub \in PushesError
    BY <2>2 DEF ErrCode, PushesError
  <2>5. stub \in Stubs /\ stub \in Vectors /\ stub < 32
    BY <2>3 DEF Stubs, Vectors
  <2> QED
    BY <1>3, <1>5, <1>7, <2>1, <2>3, <2>4, <2>5
<1> QED
  BY <1>6, <1>7

\* What the stub has pushed lies where registers_t has it.
LEMMA TheRegisters ==
  ASSUME IInv, pc \in {"handler", "eoi", "callback"}
  PROVE  /\ IntNo = stub
         /\ Reg("err_code") = <<"error", IF stub \in PushesError THEN stub ELSE 0>>
         /\ Reg("eip")[1] = "eip"
<1>1. Depth = 7 /\ pc \in InService
  BY DEF Depth, InService
<1>2. /\ Len(stack) = 7
      /\ \E n \in Stubs \cup {NoStub} : stack[3] = <<"eip", <<"kernel", n>> >>
      /\ stack[4] = <<"error", IF stub \in PushesError THEN stub ELSE 0>>
      /\ stack[5] = <<"number", stub>>
  BY <1>1 DEF IInv, FrameInv
<1>3. Reg("int_no") = stack[5] /\ Reg("err_code") = stack[4] /\ Reg("eip") = stack[3]
  BY <1>2 DEF Reg
<1> QED
  BY <1>2, <1>3 DEF IntNo

\* The stub completes the stack to registers_t, whether an error code was pushed or not.
LEMMA StubPreserves ==
  ASSUME IInv, Stub
  PROVE  IInv'
<1> DEFINE error == IF stub \in ErrCode THEN << >> ELSE << <<"error", 0>> >>
           rest == << <<"number", stub>>, <<"regs", 0>>, <<"ds", 16>> >>
           depth == IF stub \in PushesError THEN 4 ELSE 3
           upper == stack \o error
<1>1. /\ pc = "stub" /\ pc' = "handler" /\ intf' = FALSE /\ shadow' = FALSE
      /\ stack' = stack \o error \o rest
      /\ UNCHANGED <<picVars, codeVars, stub, served, due, raised>>
  BY DEF Stub
<1>2. pc \in InService
  BY <1>1 DEF InService
<1>3. stub \in Stubs /\ stub \in Vectors /\ (stub \in ErrCode <=> stub \in PushesError)
  BY <1>2, TheStub
<1>4. /\ <<"error", 0>> \in Words /\ <<"number", stub>> \in Words
      /\ <<"regs", 0>> \in Words /\ <<"ds", 16>> \in Words
  BY <1>3 DEF Words, Vectors
<1>5. error \in Seq(Words) /\ rest \in Seq(Words) /\ stack \in Seq(Words)
  BY <1>4 DEF IInv, TypeOK
<1>6. /\ Len(error) = 4 - depth /\ (stub \notin PushesError => error[1] = <<"error", 0>>)
      /\ Len(rest) = 3 /\ rest[1] = <<"number", stub>> /\ rest[2] = <<"regs", 0>>
      /\ rest[3] = <<"ds", 16>>
  BY <1>3
<1>7. /\ Len(stack) = depth /\ depth \in {3, 4} /\ (depth = 4 <=> stub \in PushesError)
      /\ \E b \in BOOLEAN : stack[1] = <<"eflags", b>>
      /\ stack[2] = <<"cs", 8>>
      /\ \E n \in Stubs \cup {NoStub} : stack[3] = <<"eip", <<"kernel", n>> >>
      /\ stub \in PushesError => stack[4] = <<"error", stub>>
  BY <1>1, <1>2 DEF IInv, FrameInv, Depth
<1> HIDE DEF error, rest, depth
<1>8. /\ upper \in Seq(Words) /\ Len(upper) = 4
      /\ \A i \in 1..4 : upper[i] = IF i <= depth THEN stack[i] ELSE error[i - depth]
  BY <1>5, <1>6, <1>7, ConcatProperties
<1>9. /\ stack' \in Seq(Words) /\ Len(stack') = 7
      /\ \A i \in 1..7 : stack'[i] = IF i <= 4 THEN upper[i] ELSE rest[i - 4]
  <2>1. stack' = upper \o rest
    BY <1>1
  <2> HIDE DEF upper
  <2>2. /\ upper \o rest \in Seq(Words) /\ Len(upper \o rest) = Len(upper) + Len(rest)
        /\ \A i \in 1..Len(upper) + Len(rest) :
             (upper \o rest)[i] = IF i <= Len(upper) THEN upper[i] ELSE rest[i - Len(upper)]
    BY <1>5, <1>8, ConcatProperties
  <2> QED
    BY <1>6, <1>8, <2>1, <2>2
<1> HIDE DEF upper
<1>10. stack'[1] = stack[1] /\ stack'[2] = stack[2] /\ stack'[3] = stack[3]
  BY <1>7, <1>8, <1>9
<1>11. stack'[4] = <<"error", IF stub \in PushesError THEN stub ELSE 0>>
  <2>1. stack'[4] = upper[4]
    BY <1>9
  <2>2. upper[4] = IF stub \in PushesError THEN stack[4] ELSE error[1]
    BY <1>7, <1>8
  <2> QED
    BY <1>6, <1>7, <2>1, <2>2
<1>12. stack'[5] = rest[1] /\ stack'[6] = rest[2] /\ stack'[7] = rest[3]
  BY <1>9
<1>13. FrameInv'
  <2>1. Depth' = 7 /\ stub' = stub
    BY <1>1 DEF Depth
  <2> QED
    BY <1>6, <1>7, <1>9, <1>10, <1>11, <1>12, <2>1 DEF FrameInv
<1>14. Now' = Now /\ handlers' = handlers /\ isr' = isr /\ stub' = stub /\ due' = due /\ tick' = tick
  BY <1>1 DEF Now, picVars, codeVars
<1>15. NowInv'
  BY <1>1, <1>2, <1>14 DEF IInv, NowInv
<1>16. IsrInv' /\ TickInv' /\ OutsideInv'
  BY <1>1, <1>14 DEF IInv, IsrInv, TickInv, OutsideInv, IsTick
<1>17. BootInv' /\ RequestsInv' /\ HandlersInv'
  BY <1>1 DEF IInv, BootInv, RequestsInv, HandlersInv, picVars, codeVars
<1>18. PicTypeOK'
  BY <1>1 DEF IInv, TypeOK, PicTypeOK, picVars
<1>19. pc' \in PCs /\ intf' \in BOOLEAN /\ shadow' \in BOOLEAN
  BY <1>1 DEF PCs
<1>20. TypeOK'
  BY <1>1, <1>9, <1>18, <1>19 DEF IInv, TypeOK, codeVars
<1> QED
  BY <1>1, <1>13, <1>15, <1>16, <1>17, <1>20 DEF IInv

\* An end of interrupt takes the one level in service, if there is one.
LEMMA EndOf ==
  ASSUME NEW n \in Levels
  PROVE  {n} \ Highest({n}) = {} /\ {} \ Highest({}) = {}
BY DEF Highest, Levels

\* What irq_handler's two writes leave alone.
LEMMA EoiKeeps ==
  ASSUME IInv, pc \in InService, pc \in {"handler", "eoi"}, pc' \in {"eoi", "callback"}, Now.line >= 0,
         UNCHANGED <<codeVars, stub, intf, shadow, stack, served, due, raised>>,
         UNCHANGED <<step, base, wired, mask, irr>>, isr' \in [Pics -> SUBSET Levels]
  PROVE  /\ TypeOK' /\ pc' # "wild" /\ BootInv' /\ RequestsInv' /\ HandlersInv'
         /\ OutsideInv' /\ NowInv' /\ FrameInv' /\ TickInv'
<1>1. Now' = Now /\ Depth = 7 /\ Depth' = 7 /\ pc' \in InService /\ pc' \in PCs
  BY DEF Now, Depth, InService, PCs
<1>2. TypeOK'
  BY <1>1 DEF IInv, TypeOK, PicTypeOK, codeVars
<1>3. BootInv' /\ RequestsInv' /\ HandlersInv' /\ OutsideInv' /\ pc' # "wild"
  BY DEF IInv, BootInv, RequestsInv, HandlersInv, OutsideInv, codeVars
<1>4. NowInv'
  BY <1>1 DEF IInv, NowInv
<1>5. FrameInv'
  BY <1>1 DEF IInv, FrameInv
<1>6. TickInv'
  BY <1>1 DEF IInv, TickInv, IsTick, codeVars
<1> QED
  BY <1>2, <1>3, <1>4, <1>5, <1>6

\* The first write ends what the slave has in service, if it has.
LEMMA EoiSlavePreserves ==
  ASSUME IInv, EoiSlave
  PROVE  IInv'
<1>1. /\ pc = "handler" /\ stub >= 32 /\ pc' = "eoi" /\ pc \in InService
      /\ UNCHANGED <<codeVars, stub, intf, shadow, stack, served, due, raised>>
  BY DEF EoiSlave, InService
<1>2. /\ Now.line \in {-1} \cup Lines /\ Now.gone \in BOOLEAN /\ Now.line \in Int
      /\ Now.line < 0 => stub < 32
      /\ stub \in Stubs
      /\ stub >= 40 <=> Now.line >= 8
  BY <1>1, TheStub
<1>3. Now.line >= 0 /\ Now.line \in 0..15
  BY <1>1, <1>2, LinesAssumption DEF Stubs
<1>4. IntNo = stub
  BY <1>1, TheRegisters
<1>5. IF Now.line >= 8 THEN Command("slave", 32) ELSE UNCHANGED picVars
  BY <1>2, <1>4 DEF EoiSlave, IsSlaves
<1>6. isr \in [Pics -> SUBSET Levels] /\ isr["slave"] = SlaveServes(Now)
      /\ isr["master"] = MasterServes(Now)
  BY <1>1 DEF IInv, TypeOK, PicTypeOK, IsrInv
<1>7. ~ICW1(32)
  BY DEF ICW1
<1>8. /\ UNCHANGED <<step, base, wired, mask, irr>> /\ isr' \in [Pics -> SUBSET Levels]
      /\ isr'["slave"] = {} /\ isr'["master"] = MasterServes(Now)
  <2>1. CASE Now.line >= 8
    <3>1. /\ UNCHANGED <<step, base, wired, mask, irr>>
          /\ isr' = [isr EXCEPT !["slave"] = @ \ Highest(@)]
      BY <1>5, <1>7, <2>1 DEF Command
    <3>2. isr["slave"] \ Highest(isr["slave"]) = {}
      <4>1. Now.line - 8 \in Levels
        BY <1>3, <2>1 DEF Levels
      <4>2. isr["slave"] = {} \/ isr["slave"] = {Now.line - 8}
        BY <1>6, <2>1 DEF SlaveServes
      <4> QED
        BY <4>1, <4>2, EndOf
    <3>3. isr' \in [Pics -> SUBSET Levels] /\ isr'["master"] = isr["master"] /\ isr'["slave"] = {}
      BY <1>6, <3>1, <3>2 DEF Pics
    <3> QED
      BY <1>6, <3>1, <3>3
  <2>2. CASE ~(Now.line >= 8)
    BY <1>5, <1>6, <2>2 DEF SlaveServes, picVars
  <2> QED
    BY <2>1, <2>2
<1>9. /\ TypeOK' /\ pc' # "wild" /\ BootInv' /\ RequestsInv' /\ HandlersInv'
      /\ OutsideInv' /\ NowInv' /\ FrameInv' /\ TickInv'
  BY <1>1, <1>3, <1>8, EoiKeeps
<1>10. IsrInv'
  <2>1. Now' = Now
    BY <1>1 DEF Now
  <2> QED
    BY <1>1, <1>8, <2>1 DEF IsrInv
<1> QED
  BY <1>9, <1>10 DEF IInv

\* The second ends what the master has in service, if it has.
LEMMA EoiMasterPreserves ==
  ASSUME IInv, EoiMaster
  PROVE  IInv'
<1>1. /\ pc = "eoi" /\ pc' = "callback" /\ pc \in InService /\ Command("master", 32)
      /\ UNCHANGED <<codeVars, stub, intf, shadow, stack, served, due, raised>>
  BY DEF EoiMaster, InService
<1>2. Now.line \in {-1} \cup Lines /\ Now.line \in Int /\ Now.line >= 0
  BY <1>1, TheStub DEF IInv, NowInv
<1>3. Now.line \in 0..15
  BY <1>2, LinesAssumption
<1>4. isr \in [Pics -> SUBSET Levels] /\ isr["slave"] = {} /\ isr["master"] = MasterServes(Now)
  BY <1>1 DEF IInv, TypeOK, PicTypeOK, IsrInv
<1>5. ~ICW1(32)
  BY DEF ICW1
<1>6. UNCHANGED <<step, base, wired, mask, irr>> /\ isr' = [isr EXCEPT !["master"] = @ \ Highest(@)]
  BY <1>1, <1>5 DEF Command
<1>7. isr["master"] \ Highest(isr["master"]) = {}
  <2>1. PICK n \in Levels : isr["master"] = {} \/ isr["master"] = {n}
    <3>1. CASE Now.line >= 8
      BY <1>4, <3>1 DEF MasterServes, Levels
    <3>2. CASE ~(Now.line >= 8)
      <4>1. Now.line \in Levels
        BY <1>3, <3>2 DEF Levels
      <4> QED
        BY <1>4, <3>2, <4>1 DEF MasterServes
    <3> QED
      BY <3>1, <3>2
  <2> QED
    BY <2>1, EndOf
<1>8. isr' \in [Pics -> SUBSET Levels] /\ isr'["master"] = {} /\ isr'["slave"] = {}
  BY <1>4, <1>6, <1>7 DEF Pics
<1>9. /\ TypeOK' /\ pc' # "wild" /\ BootInv' /\ RequestsInv' /\ HandlersInv'
      /\ OutsideInv' /\ NowInv' /\ FrameInv' /\ TickInv'
  BY <1>1, <1>2, <1>6, <1>8, EoiKeeps
<1>10. IsrInv'
  BY <1>1, <1>8 DEF IsrInv
<1> QED
  BY <1>9, <1>10 DEF IInv

\* The handler counts a timer interrupt that is due, and nothing else.
LEMMA CallbackPreserves ==
  ASSUME IInv, Callback
  PROVE  IInv'
<1>1. /\ pc = "callback" \/ (pc = "handler" /\ stub < 32)
      /\ pc' = "leave" /\ pc \in InService /\ pc' \in InService /\ pc' \in PCs
      /\ UNCHANGED <<picVars, writes, handlers, pit, stub, intf, shadow, stack, served, due, raised>>
  BY DEF Callback, InService, PCs
<1>2. IntNo = stub
  BY <1>1, TheRegisters
<1>3. /\ Now.line \in {-1} \cup Lines /\ Now.line \in Int /\ stub \in Vectors /\ stub \in Stubs
      /\ stub = IRQ0 <=> Now.line = 0 /\ ~Now.gone
      /\ Now.line >= 0 => stub >= 32
  BY <1>1, TheStub
<1>4. handlers[stub] = "timer_callback" <=> IsTick
  BY <1>3 DEF IInv, HandlersInv, IsTick
<1>5. due = tick + (IF IsTick THEN 1 ELSE 0) /\ tick \in Nat
  BY <1>1 DEF IInv, TickInv, TypeOK
<1>6. tick' = due /\ tick' \in Nat
  BY <1>2, <1>4, <1>5 DEF Callback, Ticked
<1>7. TickInv' /\ OutsideInv'
  BY <1>1, <1>6 DEF TickInv, OutsideInv
<1>8. Now' = Now /\ Depth = 7 /\ Depth' = 7
  BY <1>1 DEF Now, Depth
<1>9. NowInv' /\ FrameInv'
  BY <1>1, <1>8 DEF IInv, NowInv, FrameInv
<1>10. IsrInv'
  <2>1. isr["master"] = {} /\ isr["slave"] = {}
    <3>1. CASE pc = "callback"
      BY <3>1 DEF IInv, IsrInv
    <3>2. CASE pc = "handler" /\ stub < 32
      <4>1. ~(Now.line >= 0)
        BY <1>3, <3>2 DEF Stubs
      <4>2. Now.line < 0 /\ ~(Now.line >= 8)
        BY <1>3, <4>1
      <4> QED
        BY <3>2, <4>2 DEF IInv, IsrInv, MasterServes, SlaveServes
    <3> QED
      BY <1>1, <3>1, <3>2
  <2> QED
    BY <1>1, <2>1 DEF IsrInv, picVars
<1>11. BootInv' /\ RequestsInv' /\ HandlersInv'
  BY <1>1 DEF IInv, BootInv, RequestsInv, HandlersInv, picVars
<1>12. PicTypeOK'
  BY <1>1 DEF IInv, TypeOK, PicTypeOK, picVars
<1>13. shit' \in BOOLEAN
  BY DEF Callback
<1>14. TypeOK'
  BY <1>1, <1>6, <1>12, <1>13 DEF IInv, TypeOK
<1> QED
  BY <1>1, <1>7, <1>9, <1>10, <1>11, <1>14 DEF IInv

\* What the stub has pushed is popped again.
LEMMA LeavePreserves ==
  ASSUME IInv, Leave
  PROVE  IInv'
<1>1. /\ pc = "leave" /\ pc' = "iret" /\ pc \in InService /\ pc' \in InService /\ pc' \in PCs
      /\ stack' = SubSeq(stack, 1, Len(stack) - 4) /\ intf' = TRUE /\ shadow' = TRUE
      /\ UNCHANGED <<picVars, codeVars, stub, served, due, raised>>
  BY DEF Leave, InService, PCs
<1>2. Len(stack) = 7 /\ stack \in Seq(Words)
  BY <1>1 DEF IInv, FrameInv, Depth, TypeOK
<1>3. /\ stack' \in Seq(Words) /\ Len(stack') = 3
      /\ stack'[1] = stack[1] /\ stack'[2] = stack[2] /\ stack'[3] = stack[3]
  <2>1. \A i \in 1..3 : stack[i] \in Words
    <3> TAKE i \in 1..3
    <3>1. i \in 1..Len(stack)
      BY <1>2
    <3> QED
      BY <1>2, <3>1, ElementOfSeq
  <2>2. stack' = SubSeq(stack, 1, 3)
    BY <1>1, <1>2
  <2>3. /\ SubSeq(stack, 1, 3) \in Seq(Words) /\ Len(SubSeq(stack, 1, 3)) = 3
        /\ \A i \in 1..3 : SubSeq(stack, 1, 3)[i] = stack[i]
    BY <2>1, SubSeqProperties
  <2> QED
    BY <2>2, <2>3
<1>4. Now' = Now /\ Depth' = 3
  BY <1>1 DEF Now, Depth
<1>5. FrameInv'
  BY <1>1, <1>3, <1>4 DEF IInv, FrameInv
<1>6. NowInv'
  BY <1>1, <1>4 DEF IInv, NowInv
<1>7. OutsideInv' /\ IsrInv' /\ TickInv'
  BY <1>1 DEF IInv, OutsideInv, IsrInv, TickInv, picVars, codeVars
<1>8. BootInv' /\ RequestsInv' /\ HandlersInv'
  BY <1>1 DEF IInv, BootInv, RequestsInv, HandlersInv, picVars, codeVars
<1>9. PicTypeOK'
  BY <1>1 DEF IInv, TypeOK, PicTypeOK, picVars
<1>10. TypeOK'
  BY <1>1, <1>3, <1>9 DEF IInv, TypeOK, codeVars
<1> QED
  BY <1>1, <1>5, <1>6, <1>7, <1>8, <1>10 DEF IInv

\* The iret finds the processor's three words on top of the stack.
LEMMA TheFrame ==
  ASSUME IInv, pc = "iret"
  PROVE  /\ IretPops = Frame /\ Len(stack) = 3
         /\ stack[3][2][1] = "kernel" /\ stack[3][2][2] \in Stubs \cup {NoStub}
         /\ stack[1][2] \in BOOLEAN
<1>1. /\ Len(stack) = 3
      /\ \E b \in BOOLEAN : stack[1] = <<"eflags", b>>
      /\ stack[2] = <<"cs", 8>>
      /\ \E n \in Stubs \cup {NoStub} : stack[3] = <<"eip", <<"kernel", n>> >>
  BY DEF IInv, FrameInv, Depth, InService
<1> QED
  BY <1>1 DEF IretPops, Frame

\* The iret is back in the kernel with nothing left on the stack.
LEMMA IretPreserves ==
  ASSUME IInv, Iret
  PROVE  IInv'
<1>1. /\ pc = "iret" /\ pc \in InService /\ shadow' = FALSE
      /\ stack' = SubSeq(stack, 1, Len(stack) - 3)
      /\ served' = SubSeq(served, 1, Len(served) - 1)
      /\ UNCHANGED <<picVars, codeVars, due, raised>>
  BY DEF Iret, InService
<1>2. /\ IretPops = Frame /\ Len(stack) = 3
      /\ stack[3][2][1] = "kernel" /\ stack[3][2][2] \in Stubs \cup {NoStub}
      /\ stack[1][2] \in BOOLEAN
  BY <1>1, TheFrame
<1>3. pc' = "kernel" /\ stub' \in Stubs \cup {NoStub} /\ intf' \in BOOLEAN
  BY <1>2 DEF Iret
<1>4. Len(served) = 1
  BY <1>1 DEF IInv, NowInv
<1>5. stack' = << >> /\ served' = << >>
  BY <1>1, <1>2, <1>4, SubSeqEmpty
<1>6. OutsideInv'
  <2>1. due = tick /\ isr["master"] = {} /\ isr["slave"] = {}
    BY <1>1 DEF IInv, TickInv, IsrInv
  <2> QED
    BY <1>1, <1>3, <1>5, <2>1 DEF OutsideInv, Pics, picVars, codeVars
<1>7. NowInv' /\ FrameInv' /\ IsrInv' /\ TickInv'
  BY <1>3 DEF NowInv, FrameInv, IsrInv, TickInv, InService
<1>8. BootInv' /\ RequestsInv' /\ HandlersInv'
  BY <1>1, <1>3 DEF IInv, BootInv, RequestsInv, HandlersInv, picVars, codeVars
<1>9. PicTypeOK'
  BY <1>1 DEF IInv, TypeOK, PicTypeOK, picVars
<1>10. stack' \in Seq(Words) /\ served' \in Seq(Services) /\ pc' \in PCs
  BY <1>3, <1>5 DEF PCs
<1>11. TypeOK'
  BY <1>1, <1>3, <1>9, <1>10 DEF IInv, TypeOK, codeVars
<1> QED
  BY <1>3, <1>6, <1>7, <1>8, <1>11 DEF IInv

----------------------------------------------------------------------------
(* The inductive invariant holds, and what follows from it. *)

\* Every state that the program reaches satisfies the inductive invariant.
LEMMA Invariant == Spec => []IInv
<1>1. Init => IInv
  <2> SUFFICES ASSUME Init PROVE IInv
    OBVIOUS
  <2>1. PicTypeOK
    <3>1. PICK m \in {{}, Levels} : mask = [p \in Pics |-> m]
      BY DEF Init, PicInit
    <3> QED
      BY <3>1 DEF Init, PicInit, PicTypeOK
  <2>2. TypeOK
    <3>1. pit \in 0..(WORD16 - 1) /\ writes \in 0..Len(Remap) /\ tick \in Nat /\ due \in Nat
      BY SMT DEF Init, WORD16, Remap
    <3>2. raised \in [Lines -> 0..MaxRaises]
      BY TimerAssumption DEF Init
    <3>3. stack \in Seq(Words) /\ served \in Seq(Services)
      BY DEF Init
    <3>4. handlers \in [Vectors -> {"none", "timer_callback"}]
      BY DEF Init
    <3>5. /\ pc \in PCs /\ stub \in Stubs \cup {NoStub}
          /\ intf \in BOOLEAN /\ shadow \in BOOLEAN /\ shit \in BOOLEAN
      BY DEF Init, PCs
    <3> QED
      BY <2>1, <3>1, <3>2, <3>3, <3>4, <3>5 DEF TypeOK
  <2>3. BootInv /\ RequestsInv /\ HandlersInv
    BY DEF Init, PicInit, BootInv, RequestsInv, HandlersInv, MasterStep, SlaveStep, Pics
  <2>4. OutsideInv /\ NowInv /\ FrameInv /\ IsrInv /\ TickInv /\ pc # "wild"
    BY DEF Init, PicInit, OutsideInv, NowInv, FrameInv, IsrInv, TickInv, InService
  <2> QED
    BY <2>2, <2>3, <2>4 DEF IInv
<1>2. IInv /\ [Next]_vars => IInv'
  <2> SUFFICES ASSUME IInv, [Next]_vars PROVE IInv'
    OBVIOUS
  <2>1. CASE WritePort
    BY <2>1, WritePortPreserves
  <2>2. CASE LoadTables
    BY <2>2, LoadTablesPreserves
  <2>3. CASE Sti
    BY <2>3, StiPreserves
  <2>4. CASE Run
    BY <2>4, RunPreserves
  <2>5. CASE \E f \in Frequencies : InitTimer(f)
    BY <2>5, InitTimerPreserves
  <2>6. CASE Take
    BY <2>6, InterruptPreserves DEF Take
  <2>7. CASE Service
    BY <2>7, StubPreserves, EoiSlavePreserves, EoiMasterPreserves, CallbackPreserves,
       LeavePreserves, IretPreserves DEF Service
  <2>8. CASE \E v \in Exceptions : Exception(v)
    BY <2>8, ExceptionPreserves
  <2>9. CASE \E line \in Lines : Device(line)
    BY <2>9, DevicePreserves
  <2>10. CASE UNCHANGED vars
    <3>1. UNCHANGED <<step, base, wired, mask, irr, isr, pc, stub, intf, shadow, stack, served,
                      writes, handlers, shit, tick, pit, due, raised>>
      BY <2>10 DEF vars, picVars, cpuVars, codeVars
    <3>2. TypeOK'
      BY <3>1 DEF IInv, TypeOK, PicTypeOK
    <3>3. BootInv' /\ RequestsInv' /\ HandlersInv'
      BY <3>1 DEF IInv, BootInv, RequestsInv, HandlersInv
    <3>4. OutsideInv' /\ NowInv' /\ FrameInv' /\ IsrInv' /\ TickInv' /\ pc' # "wild"
      BY <3>1 DEF IInv, OutsideInv, NowInv, Now, FrameInv, Depth, IsrInv, TickInv, IsTick
    <3> QED
      BY <3>2, <3>3, <3>4 DEF IInv
  <2> QED
    BY <2>1, <2>2, <2>3, <2>4, <2>5, <2>6, <2>7, <2>8, <2>9, <2>10 DEF Next
<1> QED
  BY <1>1, <1>2, PTL DEF Spec

\* The registers of the controllers, the words on the stack and the places of
\* the processor are of their types throughout.
THEOREM TypeCorrect == Spec => []TypeOK
<1>1. IInv => TypeOK
  BY DEF IInv
<1> QED
  BY <1>1, Invariant, PTL

\* No handler is ever interrupted: never are two interrupts being served.
THEOREM OneServed == Spec => []OneAtATime
<1>1. IInv => OneAtATime
  <2> SUFFICES ASSUME IInv PROVE OneAtATime
    OBVIOUS
  <2>1. CASE pc \in InService
    <3>1. Len(served) = 1
      BY <2>1 DEF IInv, NowInv
    <3> QED
      BY <3>1 DEF OneAtATime
  <2>2. CASE pc \in {"boot", "kernel"}
    BY <2>2 DEF IInv, OutsideInv, OneAtATime
  <2> QED
    BY <2>1, <2>2 DEF IInv, TypeOK, PCs, InService
<1> QED
  BY <1>1, Invariant, PTL

\* Whatever comes in, from whatever stub addresses, is served as what it is, a
\* line under the vector of that line and an exception under its own: number,
\* error code and return frame are where interrupt.s, isr.c and the iret look.
THEOREM ServedRight == Spec => []RightHandler
<1>1. IInv => RightHandler
  <2> SUFFICES ASSUME IInv PROVE RightHandler
    OBVIOUS
  <2>1. pc # "wild"
    BY DEF IInv
  <2>2. pc = "iret" => IretPops = Frame
    BY TheFrame
  <2>3. ASSUME pc \in {"handler", "eoi", "callback"}
        PROVE  /\ served[Len(served)].line >= 0 => stub >= 32 /\ IntNo = IRQ0 + SeenLine(served[Len(served)])
               /\ served[Len(served)].line < 0 => stub < 32 /\ IntNo = served[Len(served)].exception
               /\ Reg("err_code")[1] = "error" /\ Reg("eip")[1] = "eip"
               /\ Reg("err_code")[2] = (IF IntNo \in PushesError THEN IntNo ELSE 0)
    <3>1. pc \in InService
      BY <2>3 DEF InService
    <3>2. served[Len(served)] = Now
      BY <3>1 DEF IInv, NowInv, Now
    <3>3. /\ Now.line >= 0 => stub >= 32 /\ stub = IRQ0 + SeenLine(Now)
          /\ Now.line < 0 => stub < 32 /\ stub = Now.exception
      BY <3>1, TheStub
    <3>4. /\ IntNo = stub /\ Reg("eip")[1] = "eip"
          /\ Reg("err_code") = <<"error", IF stub \in PushesError THEN stub ELSE 0>>
      BY <2>3, TheRegisters
    <3> QED
      BY <3>2, <3>3, <3>4
  <2> QED
    BY <2>1, <2>2, <2>3 DEF RightHandler
<1> QED
  BY <1>1, Invariant, PTL

\* The ends of interrupt that irq_handler sends end the interrupt it serves,
\* whichever lines have devices, and leave nothing in service.
THEOREM EoisMatch == Spec => []EoiEndsItsOwn
<1>1. IInv => EoiEndsItsOwn
  <2> SUFFICES ASSUME IInv PROVE EoiEndsItsOwn
    OBVIOUS
  <2>1. ASSUME pc = "eoi"
        PROVE  /\ isr["slave"] = {}
               /\ isr["master"] = IF served[Len(served)].line >= 8 THEN {2}
                                  ELSE IF served[Len(served)].gone THEN {}
                                  ELSE {served[Len(served)].line}
    <3>1. pc \in InService
      BY <2>1 DEF InService
    <3>2. served[Len(served)] = Now
      BY <3>1 DEF IInv, NowInv, Now
    <3>3. Now.line \in Int /\ Now.line >= 0
      BY <2>1, <3>1, TheStub DEF IInv, NowInv
    <3>4. ~(Now.line < 0)
      BY <3>3
    <3> QED
      BY <2>1, <3>2, <3>4 DEF IInv, IsrInv, MasterServes
  <2>2. pc \in {"kernel", "callback", "leave", "iret"} => \A p \in Pics : isr[p] = {}
    BY DEF IInv, OutsideInv, IsrInv, Pics
  <2> QED
    BY <2>1, <2>2 DEF EoiEndsItsOwn
<1> QED
  BY <1>1, Invariant, PTL

\* The kernel never finds a timer interrupt uncounted, or counted twice.
THEOREM TicksCounted == Spec => []EveryTickCounted
<1>1. IInv => EveryTickCounted
  BY DEF IInv, OutsideInv, EveryTickCounted
<1> QED
  BY <1>1, Invariant, PTL
=============================================================================
