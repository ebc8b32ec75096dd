----------------------------- MODULE Descriptors -----------------------------
(***************************************************************************)
(* The entries of the IDT and the GDT: idt_set_gate and gdt_set_gate of    *)
(* descriptor_tables.c take an address apart into the fields of a          *)
(* descriptor, and the processor puts it together again.                   *)
(***************************************************************************)
EXTENDS Integers

WORD16 == 65536
WORD32 == WORD16 * WORD16

\* idt_entry_struct, with the fields idt_set_gate gives it; a zeroed one.
\* Mutant: the upper half is not shifted down.
IdtEntryUnshifted(base, sel, flags) ==
  [base_lo |-> base % WORD16, base_hi |-> base % WORD16, sel |-> sel, always0 |-> 0, flags |-> flags]
IdtEntry(base, sel, flags) ==
  [base_lo |-> base % WORD16, base_hi |-> (base \div WORD16) % WORD16,
   sel |-> sel, always0 |-> 0, flags |-> flags]
NoEntry == IdtEntry(0, 0, 0)

\* External: what the processor reads in an entry.  Type 14 is an interrupt
\* gate, which clears the interrupt flag; 15 is a trap gate, which does not.
Target(entry)  == entry.base_lo + WORD16 * entry.base_hi
Present(entry) == entry.flags \div 128 = 1
KeepsOut(entry) == entry.flags % 16 = 14

\* gdt_entry_struct, with the fields gdt_set_gate gives it.  limit & 0xF0000
\* and gran & 0xF0 share a byte.
GdtEntry(base, limit, access, gran) ==
  [limit_low |-> limit % WORD16, base_low |-> base % WORD16, base_middle |-> (base \div WORD16) % 256,
   access |-> access, base_high |-> (base \div (WORD16 * 256)) % 256,
   granularity |-> ((limit \div WORD16) % 16) + (gran - (gran % 16))]

\* init_gdt's segments; selector 8 * k is the k-th.
Segment(k) ==
  GdtEntry(0, IF k = 0 THEN 0 ELSE WORD32 - 1,
           CASE k = 0 -> 0 [] k = 1 -> 154 [] k = 2 -> 146 [] k = 3 -> 250 [] k = 4 -> 242,
           IF k = 0 THEN 0 ELSE 207)

\* External: what the processor reads in a segment: its base, and the number
\* of bytes in it, which the G bit counts by pages.
Base(seg)  == seg.base_low + WORD16 * seg.base_middle + WORD16 * 256 * seg.base_high
Limit(seg) == seg.limit_low + WORD16 * (seg.granularity % 16)
Paged(seg) == seg.granularity \div 128 = 1
Size(seg)  == (Limit(seg) + 1) * (IF Paged(seg) THEN 4096 ELSE 1)
=============================================================================
