----------------------------- MODULE Descriptors ----------------------------
(***************************************************************************)
(* The bits of the descriptor tables: gdt_init() (arch/x86/kernel/gdt.c)   *)
(* and __gdt_flush, init_idt(), the calls of idt_set_gate() made by        *)
(* isr_install() and irq_install(), and what the CPU reads out of the      *)
(* tables when a segment register is loaded and when an interrupt arrives. *)
(* A machine word is the set of the positions of its 1 bits: "|" is union, *)
(* "&" is intersection, a shift moves the positions.                       *)
(***************************************************************************)
EXTENDS Integers

CONSTANTS
  IsrAddress,   \* where the linker put isr0 .. isr31, isr0x80
  IrqAddress    \* and irq0 .. irq15

(* uint8_t, uint16_t and uint32_t.                                         *)
U8  == SUBSET (0..7)
U16 == SUBSET (0..15)
U32 == SUBSET (0..31)

IsrStubs == 0..31 \cup {128}
IrqStubs == 0..15

ASSUME IsrAssumption == IsrAddress \in [IsrStubs -> U32]
ASSUME IrqAssumption == IrqAddress \in [IrqStubs -> U32]

And(word, bits) == word \cap bits
Shr(word, k)    == {b - k : b \in {c \in word : c >= k}}
Shl(word, k)    == {b + k : b \in word}
-----------------------------------------------------------------------------
GDT_FLAG_DATASEG == {1}
GDT_FLAG_CODESEG == {3, 1}
GDT_FLAG_SEGMENT == {4}
GDT_FLAG_RING0   == {}
GDT_FLAG_RING3   == {6, 5}
GDT_FLAG_PRESENT == {7}
GDT_FLAG_ACCESSED == {0}
GDT_FLAG_4K_GRAN == {7}
GDT_FLAG_32_BIT  == {6}
GDT_SEGMENT_LIMIT == 0..31
GDT_ENTRIES      == 5

(* struct gdt_desc_struct; its eight bytes are packed.                     *)
gdt_desc_t == [limit_low : U16, base_low : U16, base_middle : U8,
               access : U8, granularity : U8, base_high : U8]

NoDescriptor == [limit_low |-> {}, base_low |-> {}, base_middle |-> {},
                 access |-> {}, granularity |-> {}, base_high |-> {}]

(* Definitions marked "seeded" are deliberate faults, as in Interrupts.    *)
(* Seeded: the flags lose their G bit.                                     *)
EncodedByteGranular(base, limit, access, gran) ==
  [base_low |-> And(base, 0..15), base_middle |-> And(Shr(base, 16), 0..7),
   base_high |-> And(Shr(base, 24), 0..7), limit_low |-> And(limit, 0..15),
   granularity |-> And(Shr(limit, 16), 0..3) \cup And(gran, 4..6), access |-> access]

(* gdt_set_desc(): the fields of one entry.                                *)
Encoded(base, limit, access, gran) ==
  [base_low |-> And(base, 0..15), base_middle |-> And(Shr(base, 16), 0..7),
   base_high |-> And(Shr(base, 24), 0..7), limit_low |-> And(limit, 0..15),
   granularity |-> And(Shr(limit, 16), 0..3) \cup And(gran, 4..7), access |-> access]

(* The five calls of gdt_init(): null, kernel code and data, user code and *)
(* data.                                                                   *)
AccessByte(ring, type) == ring \cup GDT_FLAG_SEGMENT \cup type \cup GDT_FLAG_PRESENT
Flat(ring, type) ==
  Encoded({}, GDT_SEGMENT_LIMIT, AccessByte(ring, type), GDT_FLAG_4K_GRAN \cup GDT_FLAG_32_BIT)

Descriptor(num) ==
  CASE num = 0 -> Encoded({}, {}, {}, {})
    [] num = 1 -> Flat(GDT_FLAG_RING0, GDT_FLAG_CODESEG)
    [] num = 2 -> Flat(GDT_FLAG_RING0, GDT_FLAG_DATASEG)
    [] num = 3 -> Flat(GDT_FLAG_RING3, GDT_FLAG_CODESEG)
    [] OTHER   -> Flat(GDT_FLAG_RING3, GDT_FLAG_DATASEG)

(* What the CPU makes of a descriptor.                                     *)
Base(d)    == d.base_low \cup Shl(d.base_middle, 16) \cup Shl(d.base_high, 24)
Limit(d)   == d.limit_low \cup Shl(And(d.granularity, 0..3), 16)
LastByte(d) == IF GDT_FLAG_4K_GRAN \subseteq d.granularity
               THEN Shl(Limit(d), 12) \cup 0..11 ELSE Limit(d)
Usable(d)  == GDT_FLAG_PRESENT \cup GDT_FLAG_SEGMENT \subseteq d.access
Dpl(d)     == And(d.access, GDT_FLAG_RING3)
IsCode(d)  == 3 \in d.access
Writable(d) == 3 \notin d.access /\ 1 \in d.access
-----------------------------------------------------------------------------
(* struct idt_entry_struct.                                                *)
idt_entry_t == [base_lo : U16, sel : Nat, always0 : U8, p_dpl_type : U8, base_hi : U16]
NoGate      == [base_lo |-> {}, sel |-> 0, always0 |-> {}, p_dpl_type |-> {}, base_hi |-> {}]

KERNEL_CS == 8
KERNEL_DS == 16
GateFlags == {7, 3, 2, 1}    \* 0x8E

(* Seeded: the low half of the address is stored twice.                    *)
GateLowTwice(base, sel, flags) ==
  [base_lo |-> And(base, 0..15), base_hi |-> And(base, 0..15),
   sel |-> sel, always0 |-> {}, p_dpl_type |-> flags]

(* idt_set_gate(): the fields of one entry.                                *)
Gate(base, sel, flags) ==
  [base_lo |-> And(base, 0..15), base_hi |-> And(Shr(base, 16), 0..15),
   sel |-> sel, always0 |-> {}, p_dpl_type |-> flags]

(* The 49 calls in their order: isr_install(), then irq_install().         *)
Calls == 49
IRQ(line) == 32 + line
NumberOf(k) == CASE k < 32 -> k
                 [] k = 32 -> 128
                 [] OTHER  -> IRQ(k - 33)

StubOf(k) == IF k <= 32 THEN IsrAddress[NumberOf(k)] ELSE IrqAddress[k - 33]

(* What the CPU makes of a gate.                                           *)
Offset(g)  == g.base_lo \cup Shl(g.base_hi, 16)
IsPresent(g) == 7 \in g.p_dpl_type
Interrupt32(g) == And(g.p_dpl_type, 0..4) = {3, 2, 1}
-----------------------------------------------------------------------------
VARIABLES
  dpc,       \* where the code is: "fault" once the CPU has refused something
  n,        \* calls of gdt_set_desc(), loads or calls of idt_set_gate() so far
  gdt, idt, \* the tables
  gdtr,     \* last byte of the table the CPU uses for segments, -1: the loader's
  idtr,     \* last byte of the table it uses for interrupts, -1: none
  seg,      \* the descriptors the CPU has cached in the segment registers
  taken     \* the interrupt being handled: its vector and where the CPU went

descVars == <<dpc, n, gdt, idt, gdtr, idtr, seg, taken>>

Registers == {"cs", "ds", "es", "fs", "gs", "ss"}
FlushOrder == <<"ds", "es", "fs", "gs", "ss", "cs">>
Nothing   == [vec |-> -1, to |-> {}]

(* The loader's segments are flat and 32 bits wide (Multiboot protocol).   *)
LoaderSegment(r) ==
  [limit_low |-> 0..15, base_low |-> {}, base_middle |-> {}, base_high |-> {},
   access |-> {7, 4, 1, 0} \cup (IF r = "cs" THEN {3} ELSE {}),
   granularity |-> {7, 6} \cup 0..3]

DescriptorsInit ==
  /\ dpc = "desc" /\ n = 0
  /\ gdt = [k \in 0..(GDT_ENTRIES - 1) |-> NoDescriptor]
  /\ idt = [v \in 0..255 |-> NoGate]
  /\ gdtr = -1 /\ idtr = -1
  /\ seg = [r \in Registers |-> LoaderSegment(r)]
  /\ taken = Nothing

(* gdt_init(): the descriptors, then lgdt.  sizeof(gdt_desc_t) is 8.       *)
GdtSetDesc ==
  /\ dpc = "desc" /\ n < GDT_ENTRIES
  /\ gdt' = [gdt EXCEPT ![n] = Descriptor(n)]
  /\ n' = n + 1
  /\ UNCHANGED <<dpc, idt, gdtr, idtr, seg, taken>>

(* gdt_ptr_t: the limit is the number of bytes less one, "not the number   *)
(* of entries!" (gdt.h).                                                   *)
gdt_ptr_limit(entries) == 8 * entries - 1

LoadGdt ==
  /\ dpc = "desc" /\ n = GDT_ENTRIES
  /\ dpc' = "flush" /\ n' = 1
  /\ gdtr' = gdt_ptr_limit(GDT_ENTRIES)
  /\ UNCHANGED <<gdt, idt, idtr, seg, taken>>

(* What the CPU checks of the selector loaded into a register, in ring 0.  *)
IndexOf(selector) == selector \div 8
Allowed(r, selector) ==
  /\ IndexOf(selector) > 0 /\ IndexOf(selector) * 8 + 7 <= gdtr
  /\ Usable(gdt[IndexOf(selector)]) /\ Dpl(gdt[IndexOf(selector)]) = {}
  /\ IF r = "cs" THEN IsCode(gdt[IndexOf(selector)]) ELSE Writable(gdt[IndexOf(selector)])

(* The CPU marks the descriptor it loads as accessed.                      *)
Marked(d) == [d EXCEPT !.access = @ \cup GDT_FLAG_ACCESSED]

(* __gdt_flush: the data segments, then a far jump for cs.                 *)
LoadSegment ==
  /\ dpc = "flush" /\ n <= 6
  /\ LET r == FlushOrder[n]
         selector == IF r = "cs" THEN KERNEL_CS ELSE KERNEL_DS
     IN IF Allowed(r, selector)
        THEN /\ seg' = [seg EXCEPT ![r] = Marked(gdt[IndexOf(selector)])]
             /\ gdt' = [gdt EXCEPT ![IndexOf(selector)] = Marked(@)]
             /\ n' = n + 1 /\ UNCHANGED dpc
        ELSE dpc' = "fault" /\ UNCHANGED <<n, gdt, seg>>
  /\ UNCHANGED <<idt, gdtr, idtr, taken>>

(* idt_ptr_t, in bytes as well.                                            *)
idt_ptr_limit(entries) == 8 * entries - 1

(* init_idt(): the table is still empty when lidt makes the CPU use it.    *)
InitIdt ==
  /\ dpc = "flush" /\ n = 7
  /\ dpc' = "gates" /\ n' = 0
  /\ idtr' = idt_ptr_limit(256)
  /\ UNCHANGED <<gdt, idt, gdtr, seg, taken>>

IdtSetGate ==
  /\ dpc = "gates" /\ n < Calls /\ taken = Nothing
  /\ idt' = [idt EXCEPT ![NumberOf(n)] = Gate(StubOf(n), KERNEL_CS, GateFlags)]
  /\ n' = n + 1
  /\ UNCHANGED <<dpc, gdt, gdtr, idtr, seg, taken>>

(* Exceptions may come as soon as their gate is there, requests and int    *)
(* 0x80 when irq_init() has returned.                                      *)
MayCome(v) ==
  \/ v < 32 /\ v < n
  \/ v \in IsrStubs \cup 32..47 /\ n = Calls

Interrupt(v) ==
  /\ dpc = "gates" /\ taken = Nothing /\ MayCome(v)
  /\ LET g == idt[v]
     IN IF v * 8 + 7 <= idtr /\ IsPresent(g) /\ Interrupt32(g) /\ Allowed("cs", g.sel)
        THEN /\ taken' = [vec |-> v, to |-> Offset(g)]
             /\ seg' = [seg EXCEPT !["cs"] = Marked(gdt[IndexOf(g.sel)])]
             /\ gdt' = [gdt EXCEPT ![IndexOf(g.sel)] = Marked(@)]
             /\ UNCHANGED dpc
        ELSE dpc' = "fault" /\ UNCHANGED <<taken, seg, gdt>>
  /\ UNCHANGED <<n, idt, gdtr, idtr>>

(* The stub loads the data segments again; iret pops the kernel's cs.      *)
Return ==
  /\ dpc = "gates" /\ taken # Nothing
  /\ IF Allowed("ds", KERNEL_DS) /\ Allowed("cs", KERNEL_CS)
     THEN /\ seg' = [r \in Registers |->
                       IF r = "cs" THEN Marked(gdt[IndexOf(KERNEL_CS)])
                       ELSE IF r = "ss" THEN seg[r] ELSE Marked(gdt[IndexOf(KERNEL_DS)])]
          /\ taken' = Nothing /\ UNCHANGED dpc
     ELSE dpc' = "fault" /\ UNCHANGED <<seg, taken>>
  /\ UNCHANGED <<n, gdt, idt, gdtr, idtr>>

DescriptorsNext ==
  \/ GdtSetDesc \/ LoadGdt \/ LoadSegment \/ InitIdt \/ IdtSetGate
  \/ (\E v \in 0..255 : Interrupt(v)) \/ Return

DescriptorsSpec == DescriptorsInit /\ [][DescriptorsNext]_descVars
-----------------------------------------------------------------------------
(* Every field keeps the width of its type.                                *)
DescriptorsTypeOK ==
  /\ dpc \in {"desc", "flush", "gates", "fault"} /\ n \in 0..Calls
  /\ gdt \in [0..(GDT_ENTRIES - 1) -> gdt_desc_t] /\ idt \in [0..255 -> idt_entry_t]
  /\ gdtr \in Int /\ idtr \in Int
  /\ seg \in [Registers -> gdt_desc_t]
  /\ taken.vec \in -1..255 /\ taken.to \in U32

(* Nothing the CPU loads or enters is refused: limits, types, levels and   *)
(* presence bits of both tables agree with the selectors the code uses.    *)
(* A refusal here is a triple fault, as no handler could run.              *)
NeverRefused == dpc # "fault"

(* Before, during and after the switch of tables every segment starts at 0 *)
(* and reaches the last byte of memory: an address means the same byte all *)
(* along, and the code of __gdt_flush goes on after each load.             *)
SegmentsFlat ==
  \A r \in Registers : /\ Base(seg[r]) = {} /\ LastByte(seg[r]) = 0..31
                       /\ GDT_FLAG_32_BIT \subseteq seg[r].granularity

(* An interrupt ends up in the stub that pushes its own number, whatever   *)
(* addresses the linker gave to the stubs.                                 *)
Stub(v) == IF v \in IsrStubs THEN IsrAddress[v] ELSE IrqAddress[v - 32]
DeliveredToItsStub == taken # Nothing => taken.to = Stub(taken.vec)
=============================================================================
