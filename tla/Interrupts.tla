------------------------------ MODULE Interrupts ------------------------------
(***************************************************************************)
(* From an interrupt line to a handler and back: init_idt of               *)
(* descriptor_tables.c, the stubs of interrupt.s, irq_handler and          *)
(* isr_handler of isr.c, and the timer of timer.c, an action per step at   *)
(* which another interrupt could come in.                                  *)
(*                                                                         *)
(* main calls init_descriptor_tables and nothing that turns interrupts on: *)
(* the sti of the kernel and its call of init_timer are those of a kernel  *)
(* that uses this code, and may come at any time, or never.                *)
(*                                                                         *)
(*   "boot" -> "kernel" -> "stub" -> "handler" -> "eoi" -> "callback"      *)
(*                            -> "leave" -> "iret" -> back                 *)
(*                                                                         *)
(* The stack grows to the right: its last element is the word esp is at.   *)
(***************************************************************************)
EXTENDS Pic, Descriptors, Sequences

CONSTANTS
  StubAddress, \* where the linker put isr0 to isr31 and, from 32 on, irq0 to irq15
  Frequencies, \* what init_timer is called with
  Exceptions,  \* the vectors of the exceptions that the kernel's code may raise
  MaxRaises    \* how often a line is raised

\* The processor has 32 vectors for itself.  Vector 17 has an error code too,
\* but is raised outside ring 0 alone; 2 and 18 come at any time and are left out.
ASSUME ExceptionsAssumption ==
  Exceptions \subseteq {0, 1, 3, 4, 5, 6, 7, 8, 10, 11, 12, 13, 14, 16, 19}
ASSUME StubsAssumption ==
  /\ DOMAIN StubAddress = 0..47
  /\ \A n \in 0..47 : StubAddress[n] \in Nat /\ StubAddress[n] \div WORD16 < WORD16
  /\ \A m, n \in 0..47 : StubAddress[m] = StubAddress[n] => m = n
ASSUME TimerAssumption == MaxRaises \in Nat /\ Frequencies \subseteq Nat \ {0}

VARIABLES
  writes,      \* how many of init_idt's port writes are done
  handlers,    \* [vector -> interrupt_handlers[vector]]
  shit,        \* isr.c's flag of that name
  tick,        \* timer.c's counter
  pit,         \* what channel 0 of the timer counts down from, 0 as the BIOS left it
  pc,          \* where the processor is
  stub,        \* the stub it is in, or came through last; -1 for none
  intf,        \* the interrupt flag
  shadow,      \* TRUE between sti and the end of the next instruction
  stack,       \* what interrupts have pushed
  served,      \* the lines and exceptions being served, -1 for none, the innermost last
  due,         \* timer interrupts taken since the timer has a handler
  raised       \* [line -> how often it was raised]

cpuVars  == <<pc, stub, intf, shadow, stack, served>>
codeVars == <<writes, handlers, shit, tick, pit>>
vars     == <<picVars, cpuVars, codeVars, due, raised>>

IRQ0Unmapped == 0     \* mutant: the line, not its vector
IRQ0     == 32
Vectors  == 0..255
Stubs    == 0..47
NoStub   == -1
PCs      == {"boot", "kernel", "stub", "handler", "eoi", "callback", "leave", "iret", "wild"}

----------------------------------------------------------------------------
(* Tables. *)

\* Remap the irq table: ICW1 to ICW4 for both controllers, then their masks.
\* Mutant: the two ICW3 are interchanged.
RemapCrossed ==
  << <<"master", "command", 17>>, <<"slave", "command", 17>>,
     <<"master", "data", 32>>, <<"slave", "data", 40>>,
     <<"master", "data", 2>>, <<"slave", "data", 4>>,
     <<"master", "data", 1>>, <<"slave", "data", 1>>,
     <<"master", "data", 0>>, <<"slave", "data", 0>> >>
Remap ==
  << <<"master", "command", 17>>, <<"slave", "command", 17>>,
     <<"master", "data", 32>>, <<"slave", "data", 40>>,
     <<"master", "data", 4>>, <<"slave", "data", 2>>,
     <<"master", "data", 1>>, <<"slave", "data", 1>>,
     <<"master", "data", 0>>, <<"slave", "data", 0>> >>

\* The IDT, interrupt gates all; the entries from 48 on stay zero.  Mutant:
\* trap gates.
IdtOfTraps == [v \in Vectors |-> IF v \in Stubs THEN IdtEntry(StubAddress[v], 8, 143) ELSE NoEntry]
Idt == [v \in Vectors |-> IF v \in Stubs THEN IdtEntry(StubAddress[v], 8, 142) ELSE NoEntry]

\* External: the stub that the processor comes to through each gate.
StubThrough ==
  [v \in Vectors |->
     LET there == {n \in Stubs : Present(Idt[v]) /\ StubAddress[n] = Target(Idt[v])}
     IN  IF there = {} THEN NoStub ELSE CHOOSE n \in there : TRUE]

\* ISR_ERRCODE, the stubs that push no dummy.  Mutant: a page fault's among
\* the others.
ErrCodeUpTo13 == {8} \cup 10..13
ErrCode == {8} \cup 10..14

\* External: the exceptions for which the processor pushes an error code.
PushesError == {8, 10, 11, 12, 13, 14, 17}

----------------------------------------------------------------------------
(* The processor takes an interrupt, whose vector is v. *)

Enter(v) ==
  /\ stack' = stack \o << <<"eflags", intf>>, <<"cs", 8>>, <<"eip", <<pc, stub>> >> >>
                    \o (IF v \in PushesError THEN << <<"error", v>> >> ELSE << >>)
  /\ stub' = StubThrough[v]
  /\ pc' = IF StubThrough[v] = NoStub THEN "wild" ELSE "stub"
  /\ intf' = (intf /\ ~KeepsOut(Idt[v]))
  /\ shadow' = FALSE

Wanted == intf /\ ~shadow /\ INTR

\* A line is acknowledged; gone if its device has withdrawn the request.
Interrupt(gone) ==
  /\ pc # "wild" /\ Wanted
  /\ Acknowledge(gone)
  /\ Enter(Vector(gone))
  /\ served' = Append(served, [line |-> AskedLine, gone |-> gone, exception |-> -1])
  /\ due' = IF AskedLine = 0 /\ ~gone /\ handlers[IRQ0] = "timer_callback" THEN due + 1 ELSE due
  /\ UNCHANGED <<codeVars, raised>>

\* The kernel's code raises an exception.  Interrupts come before the next
\* instruction, so a fault that comes again and again does not keep them out.
Exception(v) ==
  /\ pc = "kernel" /\ ~Wanted
  /\ Enter(v)
  /\ served' = Append(served, [line |-> -1, gone |-> FALSE, exception |-> v])
  /\ UNCHANGED <<picVars, codeVars, due, raised>>

----------------------------------------------------------------------------
(* init_descriptor_tables, and what the kernel does later. *)

WritePort ==
  /\ pc = "boot" /\ writes < Len(Remap)
  /\ LET w == Remap[writes + 1]
     IN  IF w[2] = "command" THEN Command(w[1], w[3]) ELSE Data(w[1], w[3])
  /\ writes' = writes + 1
  /\ UNCHANGED <<cpuVars, handlers, shit, tick, pit, due, raised>>

\* The gates are set, the IDT is loaded, the handlers are nullified.
LoadTables ==
  /\ pc = "boot" /\ writes = Len(Remap)
  /\ pc' = "kernel"
  /\ handlers' = [v \in Vectors |-> "none"]
  /\ UNCHANGED <<picVars, writes, shit, tick, pit, stub, intf, shadow, stack, served, due, raised>>

\* External: the kernel's sti.
Sti ==
  /\ pc = "kernel" /\ ~intf
  /\ intf' = TRUE /\ shadow' = TRUE
  /\ UNCHANGED <<picVars, codeVars, pc, stub, stack, served, due, raised>>

\* Any other instruction.
Run ==
  /\ pc = "kernel" /\ shadow
  /\ shadow' = FALSE
  /\ UNCHANGED <<picVars, codeVars, pc, stub, intf, stack, served, due, raised>>

\* init_timer: the handler, and the divisor sent byte by byte.
Divisor(frequency) == 1193180 \div frequency
LowByte(divisor)   == divisor % 256
HighByte(divisor)  == (divisor \div 256) % 256
InitTimer(frequency) ==
  /\ pc = "kernel" /\ ~Wanted
  /\ handlers' = [handlers EXCEPT ![IRQ0] = "timer_callback"]
  /\ pit' = LowByte(Divisor(frequency)) + 256 * HighByte(Divisor(frequency))
  /\ shadow' = FALSE
  /\ UNCHANGED <<picVars, writes, shit, tick, pc, stub, intf, stack, served, due, raised>>

----------------------------------------------------------------------------
(* interrupt.s and isr.c. *)

\* cli, the dummy error code, the number, pusha and ds.
Stub ==
  /\ pc = "stub"
  /\ intf' = FALSE /\ shadow' = FALSE
  /\ stack' = stack \o (IF stub \in ErrCode THEN << >> ELSE << <<"error", 0>> >>)
                    \o << <<"number", stub>>, <<"regs", 0>>, <<"ds", 16>> >>
  /\ pc' = "handler"
  /\ UNCHANGED <<picVars, codeVars, stub, served, due, raised>>

\* registers_t, by what lies where on the stack.
Reg(name) ==
  LET n == Len(stack)
  IN  CASE name = "ds" -> stack[n] [] name = "int_no" -> stack[n - 2]
        [] name = "err_code" -> stack[n - 3] [] name = "eip" -> stack[n - 4]
        [] name = "cs" -> stack[n - 5] [] name = "eflags" -> stack[n - 6]
IntNo == Reg("int_no")[2]

\* Mutant: the first line of the slave is left out.
IsSlavesAbove40(number) == number > 40
IsSlaves(number) == number >= 40

\* irq_handler sends the slave its end of interrupt, if it was involved, ...
EoiSlave ==
  /\ pc = "handler" /\ stub >= 32
  /\ IF IsSlaves(IntNo) THEN Command("slave", 32) ELSE UNCHANGED picVars
  /\ pc' = "eoi"
  /\ UNCHANGED <<codeVars, stub, intf, shadow, stack, served, due, raised>>

\* ... and then the master.
EoiMaster ==
  /\ pc = "eoi"
  /\ Command("master", 32)
  /\ pc' = "callback"
  /\ UNCHANGED <<codeVars, stub, intf, shadow, stack, served, due, raised>>

\* timer_callback counts.
Ticked == tick + 1

\* The handler is called if there is one; isr_handler says so if there is none,
\* of an invalid opcode once.
Callback ==
  /\ pc = "callback" \/ (pc = "handler" /\ stub < 32)
  /\ tick' = IF handlers[IntNo] = "timer_callback" THEN Ticked ELSE tick
  /\ shit' = (shit \/ (stub < 32 /\ handlers[IntNo] = "none" /\ IntNo = 6))
  /\ pc' = "leave"
  /\ UNCHANGED <<picVars, writes, handlers, pit, stub, intf, shadow, stack, served, due, raised>>

\* ds and the registers are popped, add esp, 8, sti.
Leave ==
  /\ pc = "leave"
  /\ stack' = SubSeq(stack, 1, Len(stack) - 4)
  /\ intf' = TRUE /\ shadow' = TRUE
  /\ pc' = "iret"
  /\ UNCHANGED <<picVars, codeVars, stub, served, due, raised>>

\* What lies on top of the stack, as iret pops it.
IretPops == LET n == Len(stack) IN <<stack[n][1], stack[n - 1][1], stack[n - 2][1]>>
Frame    == <<"eip", "cs", "eflags">>

Iret ==
  /\ pc = "iret"
  /\ IF IretPops = Frame
     THEN LET n == Len(stack)
          IN  /\ pc' = stack[n][2][1] /\ stub' = stack[n][2][2]
              /\ intf' = stack[n - 2][2]
     ELSE pc' = "wild" /\ UNCHANGED <<stub, intf>>
  /\ stack' = SubSeq(stack, 1, Len(stack) - 3)
  /\ served' = SubSeq(served, 1, Len(served) - 1)
  /\ shadow' = FALSE
  /\ UNCHANGED <<picVars, codeVars, due, raised>>

\* A device raises its line.
Device(line) ==
  /\ raised[line] < MaxRaises
  /\ Raise(line)
  /\ raised' = [raised EXCEPT ![line] = @ + 1]
  /\ UNCHANGED <<cpuVars, codeVars, due>>

----------------------------------------------------------------------------
Init ==
  /\ PicInit
  /\ writes = 0 /\ handlers = [v \in Vectors |-> "none"] /\ shit = FALSE /\ tick = 0 /\ pit = 0
  /\ pc = "boot" /\ stub = NoStub /\ intf = FALSE /\ shadow = FALSE
  /\ stack = << >> /\ served = << >> /\ due = 0
  /\ raised = [n \in Lines |-> 0]

Service == Stub \/ EoiSlave \/ EoiMaster \/ Callback \/ Leave \/ Iret
Take    == \E gone \in BOOLEAN : Interrupt(gone)
Next ==
  \/ WritePort \/ LoadTables \/ Sti \/ Run
  \/ \E f \in Frequencies : InitTimer(f)
  \/ Take \/ Service
  \/ \E v \in Exceptions : Exception(v)
  \/ \E line \in Lines : Device(line)

Spec == Init /\ [][Next]_vars

\* The processor goes on: it takes an interrupt before its next instruction,
\* and a handler that was begun is run to its end.
Fairness == WF_vars(Take) /\ WF_vars(Service) /\ WF_vars(Run)
FairSpec == Spec /\ Fairness

----------------------------------------------------------------------------
(* Properties. *)

Words ==
  {<<"eflags", b>> : b \in BOOLEAN} \cup {<<"cs", 8>>, <<"regs", 0>>, <<"ds", 16>>}
    \cup ({"eip"} \X (PCs \X (Stubs \cup {NoStub})))
    \cup ({"error", "number"} \X Vectors)

Services == [line: {-1} \cup Lines, gone: BOOLEAN, exception: {-1} \cup Exceptions]

TypeOK ==
  /\ PicTypeOK
  /\ writes \in 0..Len(Remap)
  /\ handlers \in [Vectors -> {"none", "timer_callback"}]
  /\ shit \in BOOLEAN /\ tick \in Nat /\ due \in Nat /\ pit \in 0..(WORD16 - 1)
  /\ pc \in PCs /\ stub \in Stubs \cup {NoStub}
  /\ intf \in BOOLEAN /\ shadow \in BOOLEAN
  /\ stack \in Seq(Words)
  /\ served \in Seq(Services)
  /\ raised \in [Lines -> 0..MaxRaises]

\* No handler is interrupted: the gates and the stubs keep interrupts out from
\* the first push to the iret, the sti before it included, so the kernel's
\* stack never has more than one frame on it.
OneAtATime == Len(served) <= 1

\* A line whose request has gone is seen as the last one of its controller.
SeenLine(now) == IF now.gone THEN (IF now.line < 8 THEN 7 ELSE 15) ELSE now.line

\* The handler finds the number of the very line or exception that is served,
\* and the error code where registers_t has it; the iret finds the frame that
\* the processor pushed.
RightHandler ==
  /\ pc # "wild"
  /\ pc \in {"handler", "eoi", "callback"} =>
       LET now == served[Len(served)]
       IN  /\ now.line >= 0 => stub >= 32 /\ IntNo = IRQ0 + SeenLine(now)
           /\ now.line < 0 => stub < 32 /\ IntNo = now.exception
           /\ Reg("err_code")[1] = "error" /\ Reg("eip")[1] = "eip"
           /\ Reg("err_code")[2] = (IF IntNo \in PushesError THEN IntNo ELSE 0)
  /\ pc = "iret" => IretPops = Frame

\* An end of interrupt ends the interrupt being served and no other, whether
\* its request was still there or not, and none is ever left in service.
EoiEndsItsOwn ==
  /\ pc = "eoi" =>
       /\ isr["slave"] = {}
       /\ LET now == served[Len(served)]
          IN  isr["master"] = IF now.line >= 8 THEN {2} ELSE IF now.gone THEN {} ELSE {now.line}
  /\ pc \in {"kernel", "callback", "leave", "iret"} => \A p \in Pics : isr[p] = {}

\* Every timer interrupt that was taken is counted once.
EveryTickCounted ==
  pc = "kernel" => tick = due

\* Once the kernel has turned interrupts on, a line that is raised is answered,
\* or its request goes away; a handler or an exception may delay that.
InterruptsOn == IF stack = << >> THEN intf ELSE stack[1][2]
Pending(line) == LevelOf(line) \in irr[PicOf(line)]
Answered == \A line \in Lines : (InterruptsOn /\ Pending(line)) ~> ~Pending(line)
=============================================================================
