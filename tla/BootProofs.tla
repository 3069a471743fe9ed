----------------------------- MODULE BootProofs -----------------------------
(***************************************************************************)
(* Theorems about what is set up once: the handoff by the loader, for any  *)
(* width of a word and any magic numbers; the descriptor tables, for any   *)
(* addresses of the stubs; the page tables, for every number of entries of *)
(* a table and every place of the table among the frames it maps; and the  *)
(* bitmap of frames, for every place of the stack and every memory the     *)
(* loader may report whose bitmap fits the stack.                          *)
(***************************************************************************)
EXTENDS Handoff, Descriptors, FrameBitmap, Paging, Induction, TLAPS

(* The two halves of a word that Shr and Shl move about.                   *)
LEMMA TwoHalves ==
  ASSUME NEW word \in U32
  PROVE  And(word, 0..15) \cup Shl(And(Shr(word, 16), 0..15), 16) = word
<1> DEFINE low == And(word, 0..15)
           high == Shl(And(Shr(word, 16), 0..15), 16)
<1>1. low \cup high \subseteq word
  BY DEF And, Shl, Shr, U32
<1>2. ASSUME NEW b \in word PROVE b \in low \cup high
  <2>1. CASE b <= 15
    BY <2>1 DEF And, U32
  <2>2. CASE b > 15
    <3>1. b - 16 \in And(Shr(word, 16), 0..15)
      BY <2>2 DEF And, Shr, U32
    <3>2. (b - 16) + 16 = b
      BY DEF U32
    <3> QED  BY <3>1, <3>2 DEF Shl
  <2> QED  BY <2>1, <2>2 DEF U32
<1> QED  BY <1>1, <1>2

(* The address a gate was given is the one the CPU jumps to.               *)
THEOREM GateDecodes ==
  ASSUME NEW base \in U32, NEW sel, NEW flags
  PROVE  Offset(Gate(base, sel, flags)) = base
BY TwoHalves DEF Offset, Gate

(* The base and the low 20 bits of the limit of a descriptor are the ones  *)
(* gdt_set_desc() was given, and so are the flags.                         *)
THEOREM DescriptorDecodes ==
  ASSUME NEW base \in U32, NEW limit \in U32, NEW access \in U8, NEW gran \in U8
  PROVE  LET d == Encoded(base, limit, access, gran)
         IN /\ Base(d) = base
            /\ Limit(d) = And(limit, 0..19)
            /\ And(d.granularity, 4..7) = And(gran, 4..7)
            /\ d \in gdt_desc_t
<1> DEFINE d == Encoded(base, limit, access, gran)
<1>1. Base(d) = base
  <2>1. Base(d) = And(base, 0..15) \cup Shl(And(Shr(base, 16), 0..7), 16)
                  \cup Shl(And(Shr(base, 24), 0..7), 24)
    BY DEF Base, Encoded
  <2>2. ASSUME NEW b \in base PROVE b \in Base(d)
    <3>1. CASE b <= 15
      BY <2>1, <3>1 DEF And, U32
    <3>2. CASE b > 15 /\ b < 24
      <4>1. b - 16 \in And(Shr(base, 16), 0..7)
        BY <3>2 DEF And, Shr, U32
      <4>2. (b - 16) + 16 = b
        BY DEF U32
      <4> QED  BY <2>1, <4>1, <4>2 DEF Shl
    <3>3. CASE b >= 24
      <4>1. b - 24 \in And(Shr(base, 24), 0..7)
        BY <3>3 DEF And, Shr, U32
      <4>2. (b - 24) + 24 = b
        BY DEF U32
      <4> QED  BY <2>1, <4>1, <4>2 DEF Shl
    <3> QED  BY <3>1, <3>2, <3>3 DEF U32
  <2>3. Base(d) \subseteq base
    BY <2>1 DEF And, Shl, Shr, U32
  <2> QED  BY <2>2, <2>3
<1>2. Limit(d) = And(limit, 0..19)
  <2>0. And(d.granularity, 0..3) = And(Shr(limit, 16), 0..3)
    BY DEF Encoded, And
  <2>1. Limit(d) = And(limit, 0..15) \cup Shl(And(Shr(limit, 16), 0..3), 16)
    BY <2>0 DEF Limit, Encoded
  <2>2. ASSUME NEW b \in And(limit, 0..19) PROVE b \in Limit(d)
    <3>1. CASE b <= 15
      BY <2>1, <3>1 DEF And, U32
    <3>2. CASE b > 15
      <4>1. b - 16 \in And(Shr(limit, 16), 0..3)
        BY <3>2 DEF And, Shr, U32
      <4>2. (b - 16) + 16 = b
        BY DEF And
      <4> QED  BY <2>1, <4>1, <4>2 DEF Shl
    <3> QED  BY <3>1, <3>2 DEF And
  <2>3. Limit(d) \subseteq And(limit, 0..19)
    BY <2>1 DEF And, Shl, Shr, U32
  <2> QED  BY <2>2, <2>3
<1>3. And(d.granularity, 4..7) = And(gran, 4..7)
  BY DEF Encoded, And
<1>4. d \in gdt_desc_t
  BY DEF Encoded, gdt_desc_t, And, Shr, U8, U16, U32
<1> QED  BY <1>1, <1>2, <1>3, <1>4
-----------------------------------------------------------------------------
(* The last page has the last byte of memory.                              *)
LEMMA PagesCoverMemory == Shl(0..19, 12) \cup 0..11 = 0..31
<1>1. ASSUME NEW b \in 12..31 PROVE b \in Shl(0..19, 12)
  <2>1. b - 12 \in 0..19 /\ (b - 12) + 12 = b
    OBVIOUS
  <2> QED  BY <2>1 DEF Shl
<1>2. Shl(0..19, 12) \subseteq 12..31
  BY DEF Shl
<1> QED  BY <1>1, <1>2

(* A flat descriptor, before and after the CPU has marked it as accessed.  *)
LEMMA FlatDecodes ==
  ASSUME NEW ring \in {GDT_FLAG_RING0, GDT_FLAG_RING3},
         NEW type \in {GDT_FLAG_CODESEG, GDT_FLAG_DATASEG},
         NEW d \in {Flat(ring, type), Marked(Flat(ring, type))}
  PROVE  /\ d \in gdt_desc_t /\ Base(d) = {} /\ LastByte(d) = 0..31
         /\ GDT_FLAG_32_BIT \subseteq d.granularity
         /\ Usable(d) /\ Dpl(d) = ring
         /\ IsCode(d) <=> type = GDT_FLAG_CODESEG
         /\ Writable(d) <=> type = GDT_FLAG_DATASEG
<1> DEFINE a == AccessByte(ring, type)
           g == GDT_FLAG_4K_GRAN \cup GDT_FLAG_32_BIT
<1>1. a \in U8 /\ g \in U8 /\ {} \in U32 /\ GDT_SEGMENT_LIMIT \in U32
  BY DEF AccessByte, GDT_FLAG_RING0, GDT_FLAG_RING3, GDT_FLAG_CODESEG, GDT_FLAG_DATASEG,
         GDT_FLAG_SEGMENT, GDT_FLAG_PRESENT, GDT_FLAG_4K_GRAN, GDT_FLAG_32_BIT,
         GDT_SEGMENT_LIMIT, U8, U32
<1>2. /\ Base(Flat(ring, type)) = {}
      /\ Limit(Flat(ring, type)) = And(GDT_SEGMENT_LIMIT, 0..19)
      /\ And(Flat(ring, type).granularity, 4..7) = And(g, 4..7)
      /\ Flat(ring, type) \in gdt_desc_t
  BY <1>1, DescriptorDecodes DEF Flat
<1>3. Flat(ring, type).access = a
  BY DEF Flat, Encoded
<1>4. /\ d.granularity = Flat(ring, type).granularity
      /\ d.access \in {a, a \cup {0}}
      /\ Base(d) = {} /\ Limit(d) = And(GDT_SEGMENT_LIMIT, 0..19)
      /\ d \in gdt_desc_t
  BY <1>1, <1>2, <1>3 DEF Marked, GDT_FLAG_ACCESSED, Base, Limit, gdt_desc_t, U8
<1>5. 6 \in d.granularity /\ 7 \in d.granularity
  BY <1>2, <1>4 DEF And, GDT_FLAG_4K_GRAN, GDT_FLAG_32_BIT
<1>6. LastByte(d) = 0..31
  <2>1. LastByte(d) = Shl(0..19, 12) \cup 0..11
    BY <1>4, <1>5 DEF LastByte, GDT_FLAG_4K_GRAN, And, GDT_SEGMENT_LIMIT
  <2> QED  BY <2>1, PagesCoverMemory
<1>7. Usable(d) /\ Dpl(d) = ring
  BY <1>4 DEF Usable, Dpl, And, AccessByte, GDT_FLAG_RING0, GDT_FLAG_RING3, GDT_FLAG_CODESEG,
              GDT_FLAG_DATASEG, GDT_FLAG_SEGMENT, GDT_FLAG_PRESENT
<1>8. /\ IsCode(d) <=> type = GDT_FLAG_CODESEG
      /\ Writable(d) <=> type = GDT_FLAG_DATASEG
  BY <1>4 DEF IsCode, Writable, AccessByte, GDT_FLAG_RING0, GDT_FLAG_RING3, GDT_FLAG_CODESEG,
              GDT_FLAG_DATASEG, GDT_FLAG_SEGMENT, GDT_FLAG_PRESENT
<1> QED  BY <1>4, <1>5, <1>6, <1>7, <1>8 DEF GDT_FLAG_32_BIT

(* The calls of idt_set_gate() have different numbers, and every vector    *)
(* that may come has had its call, with its own stub.                      *)
LEMMA CallNumbers ==
  /\ \A k \in 0..(Calls - 1) : NumberOf(k) \in 0..255 /\ StubOf(k) = Stub(NumberOf(k))
                               /\ StubOf(k) \in U32
  /\ \A k, l \in 0..(Calls - 1) : NumberOf(k) = NumberOf(l) => k = l
  BY IsrAssumption, IrqAssumption
  DEF Calls, NumberOf, IRQ, StubOf, Stub, IsrStubs, IrqStubs

LEMMA ComesAfterItsCall ==
  ASSUME NEW v \in 0..255, n \in 0..Calls, MayCome(v)
  PROVE  \E k \in 0..(n - 1) : NumberOf(k) = v
<1>1. CASE v < 32
  <2>1. v \in 0..(n - 1) /\ NumberOf(v) = v
    BY <1>1 DEF MayCome, Calls, NumberOf
  <2> QED  BY <2>1
<1>2. CASE v = 128
  <2>1. 32 \in 0..(n - 1) /\ NumberOf(32) = v
    BY <1>2 DEF MayCome, Calls, NumberOf
  <2> QED  BY <2>1
<1>3. CASE v \in 32..47
  <2>1. v + 1 \in 0..(n - 1) /\ NumberOf(v + 1) = v
    BY <1>3 DEF MayCome, Calls, NumberOf, IRQ
  <2> QED  BY <2>1
<1> QED  BY <1>1, <1>2, <1>3 DEF MayCome, IsrStubs

(* What the tables hold at each point of the boot.                         *)
Written(k) == gdt[k] \in {Descriptor(k), Marked(Descriptor(k))}
Tables ==
  /\ \A k \in 0..(GDT_ENTRIES - 1) : dpc # "desc" \/ k < n => Written(k)
  /\ dpc = "desc" => n <= GDT_ENTRIES
  /\ dpc = "flush" => n \in 1..7
  /\ dpc \in {"flush", "gates"} => gdtr = 39
  /\ dpc = "gates" => idtr = 2047
  /\ dpc = "gates" => \A k \in 0..(n - 1) :
                       idt[NumberOf(k)] = Gate(StubOf(k), KERNEL_CS, GateFlags)
DescInv == DescriptorsTypeOK /\ Tables /\ NeverRefused /\ SegmentsFlat /\ DeliveredToItsStub

LEMMA KernelSelectors ==
  ASSUME DescInv, dpc \in {"flush", "gates"}
  PROVE  /\ Allowed("cs", KERNEL_CS)
         /\ \A r \in Registers \ {"cs"} : Allowed(r, KERNEL_DS)
         /\ IndexOf(KERNEL_CS) = 1 /\ IndexOf(KERNEL_DS) = 2
         /\ \A k \in {1, 2} : /\ Marked(gdt[k]) = Marked(Descriptor(k))
                              /\ gdt[k] \in gdt_desc_t
<1>1. IndexOf(KERNEL_CS) = 1 /\ IndexOf(KERNEL_DS) = 2
  BY DEF IndexOf, KERNEL_CS, KERNEL_DS
<1>2. Written(1) /\ Written(2) /\ gdtr = 39 /\ gdt[1] \in gdt_desc_t /\ gdt[2] \in gdt_desc_t
  BY DEF DescInv, Tables, DescriptorsTypeOK, GDT_ENTRIES
<1>3. /\ Descriptor(1) = Flat(GDT_FLAG_RING0, GDT_FLAG_CODESEG)
      /\ Descriptor(2) = Flat(GDT_FLAG_RING0, GDT_FLAG_DATASEG)
  BY DEF Descriptor
<1>4. /\ Usable(gdt[1]) /\ Dpl(gdt[1]) = {} /\ IsCode(gdt[1])
      /\ Usable(gdt[2]) /\ Dpl(gdt[2]) = {} /\ Writable(gdt[2])
  BY <1>2, <1>3, FlatDecodes DEF Written, GDT_FLAG_RING0
<1>5. \A d \in gdt_desc_t : Marked(Marked(d)) = Marked(d)
  BY DEF Marked, gdt_desc_t
<1>6. Descriptor(1) \in gdt_desc_t /\ Descriptor(2) \in gdt_desc_t
  BY <1>3, FlatDecodes
<1>7. \A k \in {1, 2} : Marked(gdt[k]) = Marked(Descriptor(k))
  BY <1>2, <1>5, <1>6 DEF Written
<1> QED  BY <1>1, <1>2, <1>4, <1>7 DEF Allowed

LEMMA MarkedFlat ==
  ASSUME NEW k \in {1, 2}
  PROVE  /\ Marked(Descriptor(k)) \in gdt_desc_t
         /\ Base(Marked(Descriptor(k))) = {} /\ LastByte(Marked(Descriptor(k))) = 0..31
         /\ GDT_FLAG_32_BIT \subseteq Marked(Descriptor(k)).granularity
  BY FlatDecodes DEF Descriptor

LEMMA DescriptorTyped ==
  ASSUME NEW k \in 0..(GDT_ENTRIES - 1) PROVE Descriptor(k) \in gdt_desc_t
<1>1. {} \in U8 /\ {} \in U32
  BY DEF U8, U32
<1>2. Encoded({}, {}, {}, {}) \in gdt_desc_t
  BY <1>1, DescriptorDecodes
<1> QED  BY <1>2, FlatDecodes DEF Descriptor
-----------------------------------------------------------------------------
LEMMA InitDesc == DescriptorsInit => DescInv
<1> SUFFICES ASSUME DescriptorsInit PROVE DescInv
  OBVIOUS
<1>1. \A r \in Registers : /\ LoaderSegment(r) \in gdt_desc_t
                           /\ Base(LoaderSegment(r)) = {} /\ LastByte(LoaderSegment(r)) = 0..31
                           /\ GDT_FLAG_32_BIT \subseteq LoaderSegment(r).granularity
  <2> TAKE r \in Registers
  <2> DEFINE d == LoaderSegment(r)
  <2>1. d \in gdt_desc_t /\ Base(d) = {} /\ GDT_FLAG_32_BIT \subseteq d.granularity
    BY DEF LoaderSegment, gdt_desc_t, U8, U16, Base, Shl, GDT_FLAG_32_BIT
  <2>2. And(d.granularity, 0..3) = 0..3 /\ d.limit_low = 0..15 /\ 7 \in d.granularity
    BY DEF LoaderSegment, And
  <2>3. Limit(d) = 0..19
    <3>1. Limit(d) = 0..15 \cup Shl(0..3, 16)
      BY <2>2 DEF Limit
    <3>2. ASSUME NEW b \in 16..19 PROVE b \in Shl(0..3, 16)
      <4>1. b - 16 \in 0..3 /\ (b - 16) + 16 = b
        OBVIOUS
      <4> QED  BY <4>1 DEF Shl
    <3>3. Shl(0..3, 16) \subseteq 16..19
      BY DEF Shl
    <3> QED  BY <3>1, <3>2, <3>3
  <2>4. LastByte(d) = Shl(0..19, 12) \cup 0..11
    BY <2>2, <2>3 DEF LastByte, GDT_FLAG_4K_GRAN
  <2> QED  BY <2>1, <2>4, PagesCoverMemory
<1>2. NoDescriptor \in gdt_desc_t
  BY DEF NoDescriptor, gdt_desc_t, U8, U16
<1>3. NoGate \in idt_entry_t
  BY DEF NoGate, idt_entry_t, U8, U16
<1>4. DescriptorsTypeOK
  BY <1>1, <1>2, <1>3, SMTT(40) DEF DescriptorsInit, DescriptorsTypeOK, Nothing, Calls, U32
<1>5. Tables /\ NeverRefused /\ DeliveredToItsStub
  BY DEF DescriptorsInit, Tables, NeverRefused, DeliveredToItsStub, GDT_ENTRIES
<1>6. SegmentsFlat
  BY <1>1 DEF DescriptorsInit, SegmentsFlat
<1> QED  BY <1>4, <1>5, <1>6 DEF DescInv

LEMMA StepSetDesc == DescInv /\ GdtSetDesc => DescInv'
<1> SUFFICES ASSUME DescInv, GdtSetDesc PROVE DescInv'
  OBVIOUS
<1> USE DEF DescInv, GdtSetDesc
<1>1. n \in 0..4 /\ Descriptor(n) \in gdt_desc_t
  BY DescriptorTyped DEF DescriptorsTypeOK, GDT_ENTRIES, Calls
<1>2. DescriptorsTypeOK'
  BY <1>1 DEF DescriptorsTypeOK, GDT_ENTRIES, Calls
<1>3. Tables'
  BY <1>1 DEF Tables, DescriptorsTypeOK, Written, GDT_ENTRIES
<1>4. (NeverRefused /\ SegmentsFlat /\ DeliveredToItsStub)'
  BY DEF NeverRefused, SegmentsFlat, DeliveredToItsStub
<1> QED  BY <1>2, <1>3, <1>4

LEMMA StepLoadGdt == DescInv /\ LoadGdt => DescInv'
<1> SUFFICES ASSUME DescInv, LoadGdt PROVE DescInv'
  OBVIOUS
<1> USE DEF DescInv, LoadGdt, gdt_ptr_limit
<1>1. DescriptorsTypeOK'
  BY DEF DescriptorsTypeOK, GDT_ENTRIES, Calls
<1>2. Tables'
  BY DEF Tables, DescriptorsTypeOK, Written, GDT_ENTRIES
<1>3. (NeverRefused /\ SegmentsFlat /\ DeliveredToItsStub)'
  BY DEF NeverRefused, SegmentsFlat, DeliveredToItsStub
<1> QED  BY <1>1, <1>2, <1>3

(* Marking the entry of the kernel's code or data changes nothing else.    *)
LEMMA MarkingKeepsTables ==
  ASSUME DescInv, NEW k \in {1, 2}, dpc \in {"flush", "gates"},
         gdt' = [gdt EXCEPT ![k] = Marked(@)]
  PROVE  /\ gdt' \in [0..(GDT_ENTRIES - 1) -> gdt_desc_t]
         /\ \A j \in 0..(GDT_ENTRIES - 1) : Written(j)'
<1>1. Marked(gdt[k]) = Marked(Descriptor(k)) /\ Marked(gdt[k]) \in gdt_desc_t
  BY KernelSelectors, MarkedFlat
<1>2. \A j \in 0..(GDT_ENTRIES - 1) : gdt'[j] = IF j = k THEN Marked(gdt[k]) ELSE gdt[j]
  BY DEF DescInv, DescriptorsTypeOK, GDT_ENTRIES
<1>3. \A j \in 0..(GDT_ENTRIES - 1) : Written(j)'
  BY <1>1, <1>2 DEF DescInv, Tables, Written
<1>4. gdt' \in [0..(GDT_ENTRIES - 1) -> gdt_desc_t]
  BY <1>1 DEF DescInv, DescriptorsTypeOK
<1> QED  BY <1>3, <1>4

LEMMA StepLoadSegment == DescInv /\ LoadSegment => DescInv'
<1> SUFFICES ASSUME DescInv, LoadSegment PROVE DescInv'
  OBVIOUS
<1>1. dpc = "flush" /\ n \in 1..6
  BY DEF LoadSegment, DescInv, Tables
<1>2. PICK r \in Registers : r = FlushOrder[n]
  BY <1>1 DEF FlushOrder, Registers
<1> DEFINE sel == IF r = "cs" THEN KERNEL_CS ELSE KERNEL_DS
           k == IndexOf(sel)
<1>3. Allowed(r, sel) /\ k \in {1, 2}
  BY <1>1, KernelSelectors
<1>4. /\ seg' = [seg EXCEPT ![r] = Marked(gdt[k])]
      /\ gdt' = [gdt EXCEPT ![k] = Marked(@)]
      /\ n' = n + 1 /\ dpc' = dpc /\ UNCHANGED <<idt, gdtr, idtr, taken>>
  BY <1>2, <1>3 DEF LoadSegment
<1>5. /\ Marked(gdt[k]) \in gdt_desc_t
      /\ Base(Marked(gdt[k])) = {} /\ LastByte(Marked(gdt[k])) = 0..31
      /\ GDT_FLAG_32_BIT \subseteq Marked(gdt[k]).granularity
  BY <1>1, <1>3, KernelSelectors, MarkedFlat
<1>6. /\ gdt' \in [0..(GDT_ENTRIES - 1) -> gdt_desc_t]
      /\ \A j \in 0..(GDT_ENTRIES - 1) : Written(j)'
  BY <1>1, <1>3, <1>4, MarkingKeepsTables
<1>61. \A q \in Registers : seg'[q] = IF q = r THEN Marked(gdt[k]) ELSE seg[q]
  BY <1>4 DEF DescInv, DescriptorsTypeOK
<1>62. seg' \in [Registers -> gdt_desc_t]
  BY <1>4, <1>5 DEF DescInv, DescriptorsTypeOK
<1>7. DescriptorsTypeOK'
  <2>1. n' \in 0..Calls /\ dpc' \in {"desc", "flush", "gates", "fault"}
    BY <1>1, <1>4 DEF Calls
  <2>2. taken'.vec \in -1..255 /\ taken'.to \in U32 /\ gdtr' \in Int /\ idtr' \in Int
        /\ idt' \in [0..255 -> idt_entry_t]
    BY <1>4 DEF DescInv, DescriptorsTypeOK
  <2> QED  BY <1>6, <1>62, <2>1, <2>2 DEF DescriptorsTypeOK
<1>8. Tables'
  BY <1>1, <1>4, <1>6 DEF DescInv, Tables
<1>9. SegmentsFlat'
  BY <1>5, <1>61 DEF DescInv, SegmentsFlat
<1>10. (NeverRefused /\ DeliveredToItsStub)'
  BY <1>1, <1>4 DEF DescInv, NeverRefused, DeliveredToItsStub
<1> QED  BY <1>7, <1>8, <1>9, <1>10 DEF DescInv

LEMMA StepInitIdt == DescInv /\ InitIdt => DescInv'
<1> SUFFICES ASSUME DescInv, InitIdt PROVE DescInv'
  OBVIOUS
<1> USE DEF DescInv, InitIdt, idt_ptr_limit
<1>1. DescriptorsTypeOK'
  BY DEF DescriptorsTypeOK, GDT_ENTRIES, Calls
<1>2. Tables'
  BY DEF Tables, DescriptorsTypeOK, Written, Calls
<1>3. (NeverRefused /\ SegmentsFlat /\ DeliveredToItsStub)'
  BY DEF NeverRefused, SegmentsFlat, DeliveredToItsStub
<1> QED  BY <1>1, <1>2, <1>3

LEMMA StepSetGate == DescInv /\ IdtSetGate => DescInv'
<1> SUFFICES ASSUME DescInv, IdtSetGate PROVE DescInv'
  OBVIOUS
<1> DEFINE new == Gate(StubOf(n), KERNEL_CS, GateFlags)
<1>1. dpc = "gates" /\ n \in 0..(Calls - 1) /\ idt' = [idt EXCEPT ![NumberOf(n)] = new]
      /\ n' = n + 1 /\ UNCHANGED <<dpc, gdt, gdtr, idtr, seg, taken>>
  BY DEF IdtSetGate, DescInv, DescriptorsTypeOK, Calls
<1>2. NumberOf(n) \in 0..255 /\ StubOf(n) \in U32
  BY <1>1, CallNumbers
<1>3. new \in idt_entry_t
  BY <1>2 DEF Gate, idt_entry_t, And, Shr, U8, U16, U32, KERNEL_CS, GateFlags
<1>31. idt' \in [0..255 -> idt_entry_t]
  BY <1>1, <1>3 DEF DescInv, DescriptorsTypeOK
<1>32. n' \in 0..Calls
  BY <1>1 DEF Calls
<1>4. DescriptorsTypeOK'
  BY <1>1, <1>31, <1>32 DEF DescInv, DescriptorsTypeOK
<1>5. \A k \in 0..n : idt'[NumberOf(k)] = Gate(StubOf(k), KERNEL_CS, GateFlags)
  <2> TAKE k \in 0..n
  <2>1. CASE k = n
    BY <1>1, <1>2, <2>1, SMTT(40) DEF DescInv, DescriptorsTypeOK
  <2>2. CASE k # n
    <3>1. k \in 0..(n - 1) /\ k \in 0..(Calls - 1)
      BY <1>1, <2>2 DEF Calls
    <3>2. NumberOf(k) # NumberOf(n) /\ NumberOf(k) \in 0..255
      BY <1>1, <2>2, <3>1, CallNumbers
    <3> QED  BY <1>1, <3>1, <3>2, SMTT(40) DEF DescInv, DescriptorsTypeOK, Tables
  <2> QED  BY <2>1, <2>2
<1>6. Tables'
  <2>1. (n + 1) - 1 = n
    BY <1>1
  <2> QED  BY <1>1, <1>5, <2>1 DEF DescInv, Tables, Written
<1>7. (NeverRefused /\ SegmentsFlat /\ DeliveredToItsStub)'
  BY <1>1 DEF DescInv, NeverRefused, SegmentsFlat, DeliveredToItsStub
<1> QED  BY <1>4, <1>6, <1>7 DEF DescInv

LEMMA StepInterrupt ==
  ASSUME DescInv, NEW v \in 0..255, Interrupt(v) PROVE DescInv'
<1>1. dpc = "gates" /\ MayCome(v) /\ n \in 0..Calls
  BY DEF Interrupt, DescInv, DescriptorsTypeOK
<1>2. PICK k \in 0..(n - 1) : NumberOf(k) = v
  BY <1>1, ComesAfterItsCall
<1>3. k \in 0..(Calls - 1)
  BY <1>1 DEF Calls
<1>4. idt[v] = Gate(StubOf(k), KERNEL_CS, GateFlags) /\ idtr = 2047
  BY <1>1, <1>2 DEF DescInv, Tables
<1>5. StubOf(k) \in U32 /\ StubOf(k) = Stub(v)
  BY <1>2, <1>3, CallNumbers
<1>6. Offset(idt[v]) = Stub(v)
  BY <1>4, <1>5, GateDecodes
<1>7. IsPresent(idt[v]) /\ Interrupt32(idt[v]) /\ idt[v].sel = KERNEL_CS
  BY <1>4 DEF Gate, IsPresent, Interrupt32, GateFlags, And
<1>8. Allowed("cs", KERNEL_CS) /\ IndexOf(KERNEL_CS) = 1
  BY <1>1, KernelSelectors
<1>9. v * 8 + 7 <= 2047
  OBVIOUS
<1>10. /\ taken' = [vec |-> v, to |-> Stub(v)]
       /\ seg' = [seg EXCEPT !["cs"] = Marked(gdt[1])]
       /\ gdt' = [gdt EXCEPT ![1] = Marked(@)]
       /\ UNCHANGED <<dpc, n, idt, gdtr, idtr>>
  BY <1>4, <1>6, <1>7, <1>8, <1>9 DEF Interrupt
<1>11. /\ Marked(gdt[1]) \in gdt_desc_t
       /\ Base(Marked(gdt[1])) = {} /\ LastByte(Marked(gdt[1])) = 0..31
       /\ GDT_FLAG_32_BIT \subseteq Marked(gdt[1]).granularity
  BY <1>1, KernelSelectors, MarkedFlat
<1>12. /\ gdt' \in [0..(GDT_ENTRIES - 1) -> gdt_desc_t]
       /\ \A j \in 0..(GDT_ENTRIES - 1) : Written(j)'
  BY <1>1, <1>10, MarkingKeepsTables
<1>121. seg' \in [Registers -> gdt_desc_t]
  BY <1>10, <1>11 DEF DescInv, DescriptorsTypeOK
<1>122. taken'.vec \in -1..255 /\ taken'.to \in U32
  BY <1>5, <1>10
<1>13. DescriptorsTypeOK'
  BY <1>10, <1>12, <1>121, <1>122 DEF DescInv, DescriptorsTypeOK
<1>14. Tables'
  BY <1>1, <1>10, <1>12 DEF DescInv, Tables
<1>15. SegmentsFlat'
  BY <1>10, <1>11, ZenonT(40) DEF DescInv, SegmentsFlat, DescriptorsTypeOK
<1>16. (NeverRefused /\ DeliveredToItsStub)'
  BY <1>1, <1>10 DEF DescInv, NeverRefused, DeliveredToItsStub
<1> QED  BY <1>13, <1>14, <1>15, <1>16 DEF DescInv

LEMMA StepReturn == DescInv /\ Return => DescInv'
<1> SUFFICES ASSUME DescInv, Return PROVE DescInv'
  OBVIOUS
<1>1. dpc = "gates"
  BY DEF Return
<1>2. /\ Allowed("ds", KERNEL_DS) /\ Allowed("cs", KERNEL_CS)
      /\ IndexOf(KERNEL_CS) = 1 /\ IndexOf(KERNEL_DS) = 2
      /\ \A k \in {1, 2} : Marked(gdt[k]) = Marked(Descriptor(k))
  BY <1>1, KernelSelectors DEF Registers
<1>3. /\ seg' = [r \in Registers |->
                   IF r = "cs" THEN Marked(Descriptor(1))
                   ELSE IF r = "ss" THEN seg[r] ELSE Marked(Descriptor(2))]
      /\ taken' = Nothing /\ UNCHANGED <<dpc, n, gdt, idt, gdtr, idtr>>
  BY <1>2 DEF Return
<1>31. seg' \in [Registers -> gdt_desc_t]
  BY <1>3, MarkedFlat, SMTT(40) DEF DescInv, DescriptorsTypeOK
<1>32. taken'.vec \in -1..255 /\ taken'.to \in U32
  BY <1>3 DEF Nothing, U32
<1>4. DescriptorsTypeOK'
  BY <1>3, <1>31, <1>32 DEF DescInv, DescriptorsTypeOK
<1>5. Tables'
  BY <1>3 DEF DescInv, Tables, Written
<1>6. SegmentsFlat'
  BY <1>3, MarkedFlat DEF DescInv, SegmentsFlat
<1>7. (NeverRefused /\ DeliveredToItsStub)'
  BY <1>3 DEF DescInv, NeverRefused, DeliveredToItsStub
<1> QED  BY <1>4, <1>5, <1>6, <1>7 DEF DescInv

THEOREM DescInvariant == DescriptorsSpec => []DescInv
<1>1. DescInv /\ [DescriptorsNext]_descVars => DescInv'
  <2>1. ASSUME DescInv, UNCHANGED descVars PROVE DescInv'
    <3> USE <2>1 DEF descVars, DescInv
    <3>1. DescriptorsTypeOK'
      BY DEF DescriptorsTypeOK
    <3>2. Tables'
      BY DEF Tables, Written
    <3>3. (NeverRefused /\ SegmentsFlat /\ DeliveredToItsStub)'
      BY DEF NeverRefused, SegmentsFlat, DeliveredToItsStub
    <3> QED  BY <3>1, <3>2, <3>3
  <2> QED  BY <2>1, StepSetDesc, StepLoadGdt, StepLoadSegment, StepInitIdt, StepSetGate,
              StepInterrupt, StepReturn DEF DescriptorsNext
<1> QED  BY <1>1, InitDesc, PTL DEF DescriptorsSpec

(* Neither table ever makes the CPU refuse a load, a jump or an interrupt. *)
THEOREM NothingRefused == DescriptorsSpec => []NeverRefused
BY DescInvariant, PTL DEF DescInv

(* The switch to the kernel's table changes the meaning of no address.     *)
THEOREM MemoryStaysFlat == DescriptorsSpec => []SegmentsFlat
BY DescInvariant, PTL DEF DescInv

(* Every interrupt reaches the stub that pushes its number, for every      *)
(* placement of the stubs in memory.                                       *)
THEOREM EveryVectorHasItsStub == DescriptorsSpec => []DeliveredToItsStub
BY DescInvariant, PTL DEF DescInv
-----------------------------------------------------------------------------
(* The page tables.                                                        *)

(* What the two loops have done, at each point of paging_init().           *)
Built ==
  /\ \A k \in Indices : k > 0 => ~dir[k].present
  /\ ppc # "first" => dir[0] = Mapped(TableFrame)
  /\ ppc = "rest" => i > 0
  /\ ppc = "table" => \A k \in Indices : k < i => table[k] = Mapped(k)
  /\ ppc \in {"load", "enable", "done"} => \A k \in Indices : table[k] = Mapped(k)
  /\ ppc \in {"enable", "done"} => cr3
  /\ pg => ppc = "done"

PagingInv == TablesTypeOK /\ Built /\ SwitchIsTransparent

(* Which entry of the directory an address goes through.                   *)
LEMMA FirstTable ==
  ASSUME NEW page \in Nat, page < ENTRIES
  PROVE  page \div ENTRIES = 0 /\ page % ENTRIES = page
  BY EntriesAssumption, SMTT(30)

LEMMA OtherTables ==
  ASSUME NEW page \in Pages, page >= ENTRIES
  PROVE  page \div ENTRIES \in Indices /\ page \div ENTRIES > 0
<1>1. page \in Nat /\ page < ENTRIES * ENTRIES
  BY EntriesAssumption DEF Pages
<1>2. page \div ENTRIES \in Nat /\ page \div ENTRIES < ENTRIES
  BY <1>1, EntriesAssumption, SMTT(30)
<1>3. page \div ENTRIES > 0
  BY <1>1, EntriesAssumption, SMTT(30)
<1>4. QED
  BY <1>2, <1>3, EntriesAssumption DEF Indices

LEMMA PageOfTable == ASSUME NEW k \in Indices PROVE k \in Pages
<1>1. k < ENTRIES * ENTRIES
  BY EntriesAssumption, SMTT(30) DEF Indices
<1>2. QED
  BY <1>1, EntriesAssumption DEF Indices, Pages

LEMMA WalkOfMapped ==
  ASSUME PagingInv, pg, NEW page \in Indices
  PROVE  Reached(page) = {page}
<1>1. page \div ENTRIES = 0 /\ page % ENTRIES = page
  BY FirstTable, EntriesAssumption DEF Indices
<1>2. ppc = "done" /\ cr3 /\ dir[0] = Mapped(TableFrame) /\ table[page] = Mapped(page)
  BY DEF PagingInv, Built
<1>3. QED
  BY <1>1, <1>2 DEF Reached, Walk, Mapped

LEMMA WalkOfUnmapped ==
  ASSUME PagingInv, pg, NEW page \in Nat, page >= ENTRIES,
         page \div ENTRIES \in Indices, page \div ENTRIES > 0
  PROVE  Reached(page) = {Fault}
<1>1. cr3 /\ ~dir[page \div ENTRIES].present
  BY DEF PagingInv, Built
<1>2. QED
  BY <1>1 DEF Reached, Walk

(* The page at 4 MB, which kmain reads to fault.                           *)
LEMMA FirstBeyond ==
  ASSUME PagingInv, NEW to \in Reached(ENTRIES)
  PROVE  to \in {Fault, ENTRIES}
<1>1. CASE ~pg
  BY <1>1 DEF Reached
<1>2. CASE pg
  <2>1. ENTRIES \div ENTRIES = 1
    BY EntriesAssumption, SMTT(30)
  <2>2. ENTRIES \div ENTRIES \in Indices
    BY <1>2, <2>1, EntriesAssumption DEF Indices
  <2>3. QED
    BY <1>2, <2>1, <2>2, WalkOfUnmapped, EntriesAssumption
<1>3. QED
  BY <1>1, <1>2 DEF PagingInv, TablesTypeOK
-----------------------------------------------------------------------------
LEMMA InitPaging == TablesInit => PagingInv
<1>1. ASSUME TablesInit PROVE TablesTypeOK
  <2>1. Cleared \in Entry /\ 0 \in Pages
    BY EntriesAssumption DEF Cleared, Entry, Pages
  <2>2. dir \in [Indices -> Entry] /\ table \in [Indices -> Entry]
    BY <1>1, <2>1 DEF TablesInit
  <2>3. i \in 0..ENTRIES /\ last \in [page : 0..ENTRIES, to : Pages \cup {Fault, ENTRIES}]
    BY <1>1, <2>1, EntriesAssumption DEF TablesInit
  <2>4. QED
    BY <1>1, <2>2, <2>3 DEF TablesInit, TablesTypeOK
<1>2. ASSUME TablesInit PROVE Built /\ SwitchIsTransparent
  BY <1>2 DEF TablesInit, Built, SwitchIsTransparent, Cleared
<1>3. QED
  BY <1>1, <1>2 DEF PagingInv

LEMMA MappedIsEntry == ASSUME NEW f \in Nat PROVE Mapped(f) \in Entry
  BY DEF Mapped, Entry

LEMMA AccessStep == PagingInv /\ Access => PagingInv'
<1> SUFFICES ASSUME PagingInv, Access PROVE PagingInv'
  OBVIOUS
<1>0. PICK page \in 0..ENTRIES : \E to \in Reached(page) : last' = [page |-> page, to |-> to]
  BY DEF Access
<1>1. PICK to \in Reached(page) : last' = [page |-> page, to |-> to]
  BY <1>0
<1>2. page < ENTRIES => to = page /\ page \in Pages
  <2> SUFFICES ASSUME page < ENTRIES PROVE to = page /\ page \in Pages
    OBVIOUS
  <2>1. page \in Indices
    BY EntriesAssumption DEF Indices
  <2>2. Reached(page) = {page}
    BY <2>1, WalkOfMapped DEF Reached
  <2>3. QED
    BY <2>1, <2>2, PageOfTable
<1>3. page = ENTRIES => to \in {Fault, ENTRIES}
  BY FirstBeyond
<1>4. to \in Pages \cup {Fault, ENTRIES}
  BY <1>2, <1>3, EntriesAssumption
<1>5. TablesTypeOK'
  BY <1>1, <1>4 DEF Access, PagingInv, TablesTypeOK
<1>6. Built'
  BY DEF Access, PagingInv, Built
<1>7. SwitchIsTransparent'
  BY <1>1, <1>2 DEF SwitchIsTransparent
<1>8. QED
  BY <1>5, <1>6, <1>7 DEF PagingInv

LEMMA PagingStep == PagingInv /\ [TablesNext]_pagingVars => PagingInv'
<1> SUFFICES ASSUME PagingInv, [TablesNext]_pagingVars PROVE PagingInv'
  OBVIOUS
<1> USE EntriesAssumption DEF PagingInv, SwitchIsTransparent
<1>1. CASE FirstEntry
  <2>1. Mapped(TableFrame) \in Entry
    BY MappedIsEntry, TableAssumption
  <2>2. TablesTypeOK'
    BY <1>1, <2>1 DEF FirstEntry, TablesTypeOK, Indices
  <2>3. Built'
    BY <1>1 DEF FirstEntry, TablesTypeOK, Built, Indices
  <2>4. QED
    BY <1>1, <2>2, <2>3 DEF FirstEntry
<1>2. CASE AbsentEntry
  <2> DEFINE absent == Flagged(dir[i], FALSE)
  <2>1. i \in Indices /\ i > 0 /\ dir[i] \in Entry
    BY <1>2 DEF AbsentEntry, TablesTypeOK, Built, Indices
  <2>2. absent \in Entry /\ ~absent.present
    BY <2>1 DEF Flagged, Entry
  <2>3. /\ dir' = [dir EXCEPT ![i] = absent] /\ i' = i + 1
        /\ ppc = "rest" /\ UNCHANGED <<ppc, table, cr3, pg, last>>
    BY <1>2 DEF AbsentEntry
  <2> HIDE DEF absent
  <2>4. dir' \in [Indices -> Entry] /\ i' \in 0..ENTRIES
    <3>1. dir \in [Indices -> Entry]
      BY DEF TablesTypeOK
    <3>2. dir' \in [Indices -> Entry]
      BY <2>1, <2>2, <2>3, <3>1
    <3>3. i' \in 0..ENTRIES
      BY <2>1, <2>3 DEF Indices
    <3>4. QED
      BY <3>2, <3>3
  <2>5. TablesTypeOK'
    BY <2>3, <2>4 DEF TablesTypeOK
  <2>6. /\ \A k \in Indices : k > 0 => ~dir'[k].present
        /\ dir'[0] = Mapped(TableFrame)
    BY <2>1, <2>2, <2>3 DEF TablesTypeOK, Built, Indices
  <2>7. Built'
    BY <2>1, <2>3, <2>6 DEF Built, TablesTypeOK, Indices
  <2>8. QED
    BY <2>3, <2>5, <2>7
<1>3. CASE DirectoryDone
  BY <1>3 DEF DirectoryDone, TablesTypeOK, Built, Indices
<1>4. CASE MapPage
  <2>1. i \in Indices /\ Mapped(i) \in Entry
    BY <1>4, MappedIsEntry DEF MapPage, TablesTypeOK, Indices
  <2>2. TablesTypeOK'
    BY <1>4, <2>1 DEF MapPage, TablesTypeOK, Indices
  <2>3. Built'
    BY <1>4, <2>1 DEF MapPage, TablesTypeOK, Built, Indices
  <2>4. QED
    BY <1>4, <2>2, <2>3 DEF MapPage
<1>5. CASE TableDone
  BY <1>5 DEF TableDone, TablesTypeOK, Built, Indices
<1>6. CASE LoadPageDirectory
  BY <1>6 DEF LoadPageDirectory, TablesTypeOK, Built
<1>7. CASE EnablePaging
  BY <1>7 DEF EnablePaging, TablesTypeOK, Built
<1>8. CASE Access
  BY <1>8, AccessStep
<1>9. CASE UNCHANGED pagingVars
  BY <1>9 DEF pagingVars, TablesTypeOK, Built
<1>10. QED
  BY <1>1, <1>2, <1>3, <1>4, <1>5, <1>6, <1>7, <1>8, <1>9 DEF TablesNext

THEOREM PagingInvariant == TablesSpec => []PagingInv
  BY InitPaging, PagingStep, PTL DEF TablesSpec
-----------------------------------------------------------------------------
(* Every variable of paging_init() keeps its type.                         *)
THEOREM PagingTypes == TablesSpec => []TablesTypeOK
<1>1. PagingInv => TablesTypeOK
  BY DEF PagingInv
<1>2. QED
  BY <1>1, PagingInvariant, PTL

(* No access of the kernel below 4 MB notices that paging was enabled.     *)
THEOREM KernelStaysPut == TablesSpec => []SwitchIsTransparent
<1>1. PagingInv => SwitchIsTransparent
  BY DEF PagingInv
<1>2. QED
  BY <1>1, PagingInvariant, PTL

(* The first 4 MB are mapped to themselves and nothing else is mapped: the *)
(* read of 0x400000 is a page fault.                                       *)
THEOREM AddressSpace == TablesSpec => []OnlyFirstTable
<1>1. PagingInv => OnlyFirstTable
  <2> SUFFICES ASSUME PagingInv, pg, NEW page \in Pages
               PROVE  Reached(page) = IF page < ENTRIES THEN {page} ELSE {Fault}
    BY DEF OnlyFirstTable
  <2>1. page \in Nat
    BY DEF Pages
  <2>2. CASE page < ENTRIES
    BY <2>1, <2>2, WalkOfMapped, EntriesAssumption DEF Indices
  <2>3. CASE page >= ENTRIES
    BY <2>1, <2>3, OtherTables, WalkOfUnmapped, EntriesAssumption
  <2>4. QED
    BY <2>1, <2>2, <2>3, EntriesAssumption
<1>2. QED
  BY <1>1, PagingInvariant, PTL
-----------------------------------------------------------------------------
(* The bitmap of frames.                                                   *)

(* The pointer only ever grows, whatever the loops do to it, so that they  *)
(* write nothing below the array; the calls do, as far as they are deep.   *)
Reach ==
  /\ mem_bitmap >= Array(mem_upper)
  /\ \A run \in filled : run[1] >= Array(mem_upper)
  /\ \A run \in marked : run[1] + run[2] \div 8 >= Array(mem_upper)
  /\ \A at \in pushed : Array(mem_upper) - Deepest <= at /\ at < Array(mem_upper)

BitmapInv ==
  /\ BitmapTypeOK /\ Reach
  /\ loop # "clear" => (Overrun <=> loop = "overrun")

LEMMA SizeOfBitmap ==
  ASSUME NEW kb \in Nat
  PROVE  /\ TotalPages(kb) \in Nat /\ BitmapSize(kb) \in Nat /\ Array(kb) \in Int
         /\ 32 * BitmapSize(kb) <= Reported(kb) /\ Reported(kb) \in Nat /\ Reported(kb) < 4194304
         /\ Array(kb) >= StackTop - 155 - BitmapSize(kb)
<1>1. Reported(kb) \in Nat /\ Reported(kb) < 4194304
  BY SMT DEF Reported
<1>2. TotalPages(kb) \in Nat /\ 4 * TotalPages(kb) <= Reported(kb)
  BY <1>1, SMT DEF TotalPages, PAGE_SIZE_KB
<1>3. BitmapSize(kb) \in Nat /\ 8 * BitmapSize(kb) <= TotalPages(kb)
  BY <1>2, SMT DEF BitmapSize
<1>4. Array(kb) \in Int /\ Array(kb) >= StackTop - 155 - BitmapSize(kb)
  BY <1>3, StackAssumption, SMT DEF Array, ArrayTop, Ebp
<1> QED  BY <1>1, <1>2, <1>3, <1>4

(* Setting a byte of a word to ones makes it no smaller.                   *)
LEMMA OnesGrow ==
  ASSUME NEW word \in Nat, NEW byte \in 0..3
  PROVE  Ones(word, byte) \in Nat /\ Ones(word, byte) >= word
<1>1. Power[byte + 1] \in {1, 256, 65536, 16777216}
  BY DEF Power
<1>2. \A unit \in {1, 256, 65536, 16777216} :
        /\ (word \div unit) % 256 \in 0..255
        /\ (255 - ((word \div unit) % 256)) * unit \in Nat
  <2>1. \A x \in Int : x % 256 \in 0..255
    OBVIOUS
  <2>2. \A unit \in {1, 256, 65536, 16777216} : word \div unit \in Int
    OBVIOUS
  <2>3. \A x \in 0..255, unit \in {1, 256, 65536, 16777216} : (255 - x) * unit \in Nat
    OBVIOUS
  <2> QED  BY <2>1, <2>2, <2>3
<1> QED  BY <1>1, <1>2 DEF Ones

LEMMA BitValues ==
  ASSUME NEW byte \in 0..2, NEW bit \in 0..7
  PROVE  BitValue(byte, bit) \in Nat
<1>1. Power[byte + 1] \in {1, 256, 65536}
  BY DEF Power
<1>2. <<1, 2, 4, 8, 16, 32, 64, 128>>[bit + 1] \in 1..128
  OBVIOUS
<1>3. \A u \in {1, 256, 65536}, v \in 1..128 : u * v \in Nat
  OBVIOUS
<1> QED  BY <1>1, <1>2, <1>3 DEF BitValue

LEMMA StackNumbers ==
  /\ StackTop \in Nat /\ PointerAt \in Nat /\ CounterAt \in Nat
  /\ FillEnd \in Nat /\ KernelPages \in Nat /\ KernelPages > 0
  BY StackAssumption DEF PointerAt, CounterAt, Ebp, FillEnd, RAM_MAXPAGE, KernelPages

(* The largest array, of 128 KB, still starts above address 0.             *)
LEMMA InitBitmap == BitmapInit => BitmapInv
<1> SUFFICES ASSUME BitmapInit PROVE BitmapInv
  OBVIOUS
<1>1. mem_upper \in Nat
  BY MemoryAssumption DEF BitmapInit
<1>2. Array(mem_upper) \in Nat
  BY <1>1, SizeOfBitmap, StackAssumption
<1> QED  BY <1>2 DEF BitmapInit, BitmapInv, BitmapTypeOK, Reach

LEMMA StepClear == BitmapInv /\ (Clear \/ ClearGates) => BitmapInv'
<1> SUFFICES ASSUME BitmapInv, Clear \/ ClearGates PROVE BitmapInv'
  OBVIOUS
<1>1. BitmapSize(mem_upper) \in Nat
  BY SizeOfBitmap, MemoryAssumption DEF BitmapInv, BitmapTypeOK
<1>2. UNCHANGED <<mem_upper, mem_bitmap, filled, marked, pushed>>
  BY DEF Clear, ClearGates
<1>3. (loop' = "fill" /\ ~Overrun) \/ (loop' = "overrun" /\ Overrun)
  BY DEF Clear, ClearGates
<1>4. page_num' \in Nat
  BY <1>1 DEF Clear, ClearGates, BitmapInv, BitmapTypeOK
<1> QED  BY <1>2, <1>3, <1>4 DEF BitmapInv, BitmapTypeOK, Reach, Overrun

LEMMA StepFillOwn == BitmapInv /\ FillOwn => BitmapInv'
<1> SUFFICES ASSUME BitmapInv, FillOwn PROVE BitmapInv'
  OBVIOUS
<1>1. /\ mem_bitmap \in Nat /\ page_num \in Nat /\ From \in Nat /\ From >= mem_bitmap
      /\ mem_upper \in Nat /\ Array(mem_upper) \in Int
  BY SizeOfBitmap, MemoryAssumption DEF BitmapInv, BitmapTypeOK, From
<1>2. PICK b \in Own :
        /\ filled' = filled \cup {<<From, b>>}
        /\ IF b \in Word(PointerAt)
           THEN /\ mem_bitmap' = Ones(mem_bitmap, b - PointerAt)
                /\ page_num' = page_num + (b - From) + 1
           ELSE /\ page_num' = Ones(page_num + (b - From), b - CounterAt) + 1
                /\ UNCHANGED mem_bitmap
  BY DEF FillOwn
<1>3. b \in Nat /\ b >= From /\ (b \in Word(PointerAt) \/ b \in Word(CounterAt))
  BY <1>1, StackNumbers DEF Own, Word
<1>4. page_num + (b - From) \in Nat
  BY <1>1, <1>3
<1>5. mem_bitmap' \in Nat /\ mem_bitmap' >= mem_bitmap /\ page_num' \in Nat
  <2>1. CASE b \in Word(PointerAt)
    <3>1. b - PointerAt \in 0..3
      BY <2>1, StackNumbers DEF Word
    <3> QED  BY <1>1, <1>2, <1>4, <2>1, <3>1, OnesGrow
  <2>2. CASE b \notin Word(PointerAt)
    <3>1. b - CounterAt \in 0..3
      BY <1>3, <2>2, StackNumbers DEF Word
    <3>2. Ones(page_num + (b - From), b - CounterAt) \in Nat
      BY <1>4, <3>1, OnesGrow
    <3> QED  BY <1>1, <1>2, <2>2, <3>2
  <2> QED  BY <2>1, <2>2
<1>6. UNCHANGED <<mem_upper, loop, marked, pushed>> /\ loop = "fill"
  BY DEF FillOwn
<1>7. From >= Array(mem_upper)
  BY <1>1 DEF BitmapInv, Reach
<1>8. BitmapTypeOK'
  BY <1>1, <1>2, <1>3, <1>5, <1>6 DEF BitmapInv, BitmapTypeOK
<1>9. Reach'
  <2>1. \A run \in filled' : run \in filled \/ run = <<From, b>>
    BY <1>2
  <2> QED  BY <1>1, <1>5, <1>6, <1>7, <2>1 DEF BitmapInv, Reach
<1> QED  BY <1>6, <1>8, <1>9 DEF BitmapInv, Overrun

LEMMA StepFillRest == BitmapInv /\ FillRest => BitmapInv'
<1> SUFFICES ASSUME BitmapInv, FillRest PROVE BitmapInv'
  OBVIOUS
<1>1. /\ mem_bitmap \in Nat /\ page_num \in Nat /\ From \in Nat /\ From >= mem_bitmap
      /\ mem_upper \in Nat /\ Array(mem_upper) \in Int
  BY SizeOfBitmap, MemoryAssumption DEF BitmapInv, BitmapTypeOK, From
<1>2. /\ UNCHANGED <<mem_upper, mem_bitmap, marked, pushed>>
      /\ loop = "fill" /\ loop' = "reserve" /\ page_num' = 0
  BY DEF FillRest
<1>3. From >= Array(mem_upper)
  BY <1>1 DEF BitmapInv, Reach
<1>4. \A run \in filled' : run \in filled \/
        (page_num < FillEnd /\ run = <<From, mem_bitmap + FillEnd - 1>>)
  BY DEF FillRest
<1>5. page_num < FillEnd => mem_bitmap + FillEnd - 1 \in Nat
  BY <1>1, StackNumbers
<1>6. BitmapTypeOK'
  BY <1>1, <1>2, <1>4, <1>5 DEF BitmapInv, BitmapTypeOK
<1>7. Reach'
  BY <1>2, <1>3, <1>4 DEF BitmapInv, Reach
<1> QED  BY <1>2, <1>6, <1>7 DEF BitmapInv, Overrun

LEMMA StepReserveOwn == BitmapInv /\ ReserveOwn => BitmapInv'
<1> SUFFICES ASSUME BitmapInv, ReserveOwn PROVE BitmapInv'
  OBVIOUS
<1>1. /\ mem_bitmap \in Nat /\ page_num \in Nat
      /\ mem_upper \in Nat /\ Array(mem_upper) \in Int
  BY SizeOfBitmap, MemoryAssumption DEF BitmapInv, BitmapTypeOK
<1>2. PICK p \in OwnBits :
        /\ marked' = marked \cup {<<mem_bitmap, page_num, Frame(p[1], p[2])>>}
        /\ mem_bitmap' = mem_bitmap + BitValue(p[1], p[2])
        /\ page_num' = Frame(p[1], p[2]) + 1
  BY DEF ReserveOwn
<1>3. /\ p[1] \in 0..2 /\ p[2] \in 0..7
      /\ Frame(p[1], p[2]) \in Nat /\ page_num <= Frame(p[1], p[2])
  BY <1>1, StackNumbers DEF OwnBits, Frame
<1>4. mem_bitmap' \in Nat /\ mem_bitmap' >= mem_bitmap /\ page_num' \in Nat
  BY <1>1, <1>2, <1>3, BitValues
<1>5. UNCHANGED <<mem_upper, loop, filled, pushed>> /\ loop = "reserve"
  BY DEF ReserveOwn
<1>6. mem_bitmap + page_num \div 8 >= Array(mem_upper)
  BY <1>1 DEF BitmapInv, Reach
<1>7. BitmapTypeOK'
  BY <1>1, <1>2, <1>3, <1>4, <1>5 DEF BitmapInv, BitmapTypeOK
<1>8. Reach'
  <2>1. \A run \in marked' : run \in marked \/ run = <<mem_bitmap, page_num, Frame(p[1], p[2])>>
    BY <1>2
  <2> QED  BY <1>1, <1>4, <1>5, <1>6, <2>1 DEF BitmapInv, Reach
<1> QED  BY <1>5, <1>7, <1>8 DEF BitmapInv, Overrun

LEMMA StepReserveRest == BitmapInv /\ ReserveRest => BitmapInv'
<1> SUFFICES ASSUME BitmapInv, ReserveRest PROVE BitmapInv'
  OBVIOUS
<1>1. /\ mem_bitmap \in Nat /\ page_num \in Nat
      /\ mem_upper \in Nat /\ Array(mem_upper) \in Int
  BY SizeOfBitmap, MemoryAssumption DEF BitmapInv, BitmapTypeOK
<1>2. /\ marked' = marked \cup {<<mem_bitmap, page_num, KernelPages - 1>>}
      /\ loop = "reserve" /\ loop' = "tables" /\ page_num' = KernelPages
      /\ UNCHANGED <<mem_upper, mem_bitmap, filled, pushed>>
  BY DEF ReserveRest
<1>3. mem_bitmap + page_num \div 8 >= Array(mem_upper)
  BY <1>1 DEF BitmapInv, Reach
<1>4. KernelPages - 1 \in Nat
  BY StackNumbers
<1>5. BitmapTypeOK'
  BY <1>1, <1>2, <1>4, StackNumbers DEF BitmapInv, BitmapTypeOK, LoopsDone
<1>6. Reach'
  <2>1. \A run \in marked' : run \in marked \/ run = <<mem_bitmap, page_num, KernelPages - 1>>
    BY <1>2
  <2> QED  BY <1>1, <1>2, <1>3, <2>1 DEF BitmapInv, Reach
<1> QED  BY <1>2, <1>5, <1>6 DEF BitmapInv, Overrun

LEMMA StepBuildTables == BitmapInv /\ BuildTables => BitmapInv'
  BY DEF BitmapInv, BuildTables, BitmapTypeOK, LoopsDone, Reach, Overrun

LEMMA StepPushAndEnable == BitmapInv /\ PushAndEnable => BitmapInv'
<1> SUFFICES ASSUME BitmapInv, PushAndEnable PROVE BitmapInv'
  OBVIOUS
<1>1. /\ loop = "calls" /\ loop' = "paging"
      /\ UNCHANGED <<mem_upper, page_num, mem_bitmap, filled, marked>>
  BY DEF PushAndEnable
<1>2. Array(mem_upper) \in Int
  BY SizeOfBitmap, MemoryAssumption DEF BitmapInv, BitmapTypeOK
<1>3. PICK depth \in {6, Deepest \div 4} : pushed' = Below({1, 3, 4, 5, 6} \cup 7..depth)
  BY DEF PushAndEnable
<1>4. \A w \in {1, 3, 4, 5, 6} \cup 7..depth : w \in 1..192
  BY <1>3 DEF Deepest
<1>5. \A at \in pushed' :
        at \in Int /\ Array(mem_upper) - Deepest <= at /\ at < Array(mem_upper)
  <2> SUFFICES ASSUME NEW at \in pushed'
               PROVE  at \in Int /\ Array(mem_upper) - Deepest <= at /\ at < Array(mem_upper)
    OBVIOUS
  <2>1. PICK w \in 1..192 : at = Array(mem_upper) - 4 * w
    BY <1>3, <1>4 DEF Below
  <2> QED  BY <1>2, <2>1 DEF Deepest
<1> QED  BY <1>1, <1>5 DEF BitmapInv, BitmapTypeOK, LoopsDone, Reach, Overrun

LEMMA BitmapStays == BitmapInv /\ [BitmapNext]_bitmapVars => BitmapInv'
<1>1. BitmapInv /\ UNCHANGED bitmapVars => BitmapInv'
  BY DEF bitmapVars, BitmapInv, BitmapTypeOK, Reach, Overrun
<1> QED  BY <1>1, StepClear, StepFillOwn, StepFillRest, StepReserveOwn, StepReserveRest,
            StepBuildTables, StepPushAndEnable
         DEF BitmapNext

(* A report of at most 355 MB makes an array that leaves the pushes above  *)
(* the first table.                                                        *)
LEMMA RoomForPushes ==
  ASSUME NEW kb \in Nat, Reported(kb) <= 355 * 1024
  PROVE  Array(kb) - Deepest >= SecondTableAt
<1>1. BitmapSize(kb) <= 11360
  BY SizeOfBitmap
<1> QED  BY <1>1, SizeOfBitmap, StackAssumption
         DEF Deepest, SecondTableAt, StackBottom, STACK_SIZE, PAGE_SIZE

(* On a machine of up to 355 MB, wherever the stack lies: the gates, the   *)
(* handlers, the directory and the first table are as they were when       *)
(* paging is switched on, whatever the loops do to their own pointer and   *)
(* counter, with all that the calls and interrupts push.  Nothing is       *)
(* assumed of the size of the array.                                       *)
THEOREM TablesStayIntact == BitmapSpec => []TablesIntact
<1>1. ASSUME BitmapInv PROVE TablesIntact
  <2> SUFFICES ASSUME Reported(mem_upper) <= 355 * 1024
               PROVE  /\ loop # "overrun"
                      /\ \A at \in pushed : SecondTableAt <= at
                      /\ \A run \in filled : SecondTableAt <= run[1]
                      /\ \A run \in marked : SecondTableAt <= run[1] + run[2] \div 8
    BY DEF TablesIntact
  <2>1. mem_upper \in Nat /\ Array(mem_upper) \in Int
    BY <1>1, MemoryAssumption, SizeOfBitmap DEF BitmapInv, BitmapTypeOK
  <2>2. Array(mem_upper) - Deepest >= SecondTableAt
    BY <2>1, RoomForPushes
  <2>3. SecondTableAt \in Int /\ DirectoryAt = SecondTableAt - 8192 /\ Deepest = 768
    BY StackAssumption DEF SecondTableAt, DirectoryAt, StackBottom, STACK_SIZE, PAGE_SIZE, Deepest
  <2>4. ~Overrun
    BY <2>1, <2>2, <2>3 DEF Overrun
  <2>5. /\ \A run \in filled : run[1] \in Nat
        /\ \A run \in marked : run[1] \in Nat /\ run[2] \in Nat
        /\ pushed \subseteq Int /\ Reach /\ loop # "overrun"
    BY <1>1, <2>4 DEF BitmapInv, BitmapTypeOK
  <2> QED  BY <2>1, <2>2, <2>3, <2>5 DEF Reach
<1> QED  BY <1>1, InitBitmap, BitmapStays, PTL DEF BitmapSpec

(* Where the pointer is once the fill has overwritten its low byte, and    *)
(* what that leaves of the return address.                                 *)
Low    == Array(mem_upper) % 256
Raised == Array(mem_upper) + (255 - Low)
Lost   == Low \in {196, 212}

(* The fill is where it started, or has just raised the low byte of its    *)
(* pointer, or that of its counter as well; it has not reached the return  *)
(* address.                                                                *)
Filling ==
  \/ /\ mem_bitmap = Array(mem_upper) /\ page_num = BitmapSize(mem_upper) /\ filled = {}
  \/ /\ mem_bitmap = Raised /\ page_num = PointerAt + 1 - Array(mem_upper)
     /\ \A run \in filled : run[2] < ReturnAt
  \/ /\ Low \in {228, 244}
     /\ mem_bitmap = Raised /\ page_num = StackTop - 1 - Raised
     /\ \A run \in filled : run[2] < ReturnAt

(* A run of reserved frames whose bits are not in the return address.      *)
Misses(run) ==
  run[1] + run[2] \div 8 > ReturnAt + 3 \/ run[1] + run[3] \div 8 < ReturnAt

(* The inductive invariant: after the fill the return address is lost or   *)
(* not for good, and the third loop marks no bit of it, because it starts  *)
(* at the raised pointer and the first bit it sets there carries it past.  *)
LoopsInv ==
  /\ loop = "clear" => mem_bitmap = Array(mem_upper) /\ filled = {} /\ marked = {}
  /\ loop = "fill" => Filling /\ marked = {}
  /\ loop \in {"reserve"} \cup LoopsDone =>
       /\ \A b \in Word(ReturnAt) : Filled(b) <=> Lost
       /\ \A run \in marked : Misses(run)
  /\ loop = "reserve" => \/ mem_bitmap = Raised /\ page_num = 0
                         \/ mem_bitmap + page_num \div 8 > ReturnAt + 3

(* Where things are relative to the top of the stack.                      *)
LEMMA Places ==
  /\ PointerAt = StackTop - 124 /\ CounterAt = StackTop - 96 /\ ReturnAt = StackTop - 64
  /\ FillEnd \in Nat /\ StackTop \in Nat /\ StackTop >= 1000
  /\ DirectoryAt \in Nat /\ StackTop < DirectoryAt + FillEnd
  BY StackAssumption
  DEF PointerAt, CounterAt, ReturnAt, Ebp, DirectoryAt, StackBottom, STACK_SIZE, PAGE_SIZE,
      FillEnd, RAM_MAXPAGE

LEMMA StackPages == \E t \in Nat : StackTop = 256 * t
<1>1. PICK d \in Nat : StackTop = 4096 * d
  <2> DEFINE d == StackTop \div 4096
  <2>1. d \in Nat /\ StackTop = 4096 * d
    BY StackAssumption
  <2> HIDE DEF d
  <2> QED  BY <2>1
<1>2. 16 * d \in Nat /\ StackTop = 256 * (16 * d)
  BY <1>1
<1> QED  BY <1>2

LEMMA ArrayPlace ==
  ASSUME mem_upper \in Memories, ~Overrun
  PROVE  /\ Array(mem_upper) \in Nat /\ \E k \in 0..15 : Low = 16 * k + 4
         /\ Array(mem_upper) + BitmapSize(mem_upper) \in (StackTop - 155)..(StackTop - 140)
         /\ BitmapSize(mem_upper) \in Nat /\ Array(mem_upper) <= StackTop - 140
         /\ StackTop < Array(mem_upper) + FillEnd
<1> DEFINE size == BitmapSize(mem_upper)
           q == (size + 15) \div 16
           A == Array(mem_upper)
<1>1. size \in Nat
  BY MemoryAssumption, SizeOfBitmap
<1>2. q \in Nat /\ 16 * q >= size /\ 16 * q <= size + 15
  BY <1>1
<1>3. A = StackTop - 140 - 16 * q
  BY <1>2, StackAssumption DEF Array, ArrayTop, Ebp
<1>4. A >= DirectoryAt /\ StackTop >= 1000 /\ StackTop \in Nat
      /\ DirectoryAt \in Nat
  BY <1>2, <1>3, Places DEF Overrun, Deepest
<1> HIDE DEF size, q, A
<1>5. PICK t \in Nat : StackTop = 256 * t
  BY StackPages
<1>6. A \in Nat /\ A <= StackTop - 140 /\ StackTop < A + FillEnd
  BY <1>1, <1>2, <1>3, <1>4, Places
<1>7. A + size \in (StackTop - 155)..(StackTop - 140)
  <2>1. A + size \in Int /\ A + size >= StackTop - 155 /\ A + size <= StackTop - 140
    BY <1>1, <1>2, <1>3, <1>4
  <2> QED  BY <1>4, <2>1
<1>8. \E k \in 0..15 : A % 256 = 16 * k + 4
  <2>1. A = 256 * (A \div 256) + (A % 256) /\ A % 256 \in 0..255 /\ A \div 256 \in Int
    BY <1>6
  <2> DEFINE k == 16 * t - 9 - q - 16 * (A \div 256)
  <2>2. k \in Int /\ A % 256 = 16 * k + 4
    BY <1>2, <1>3, <1>5, <2>1
  <2> HIDE DEF k
  <2>3. k \in 0..15
    BY <2>1, <2>2
  <2> QED  BY <2>2, <2>3
<1> QED  BY <1>1, <1>6, <1>7, <1>8 DEF A, size, Low

LEMMA RaisedPlace ==
  ASSUME mem_upper \in Memories, ~Overrun
  PROVE  /\ Raised \in Nat /\ Raised >= Array(mem_upper)
         /\ Raised = StackTop - 1 \/ Raised <= StackTop - 257
         /\ Ones(Array(mem_upper), 0) = Raised
         /\ Raised + (PointerAt + 1 - Array(mem_upper)) = StackTop + 132 - Low
         /\ Ones(CounterAt - Raised, 0) = StackTop - 2 - Raised
<1> DEFINE A == Array(mem_upper)
<1>1. PICK k \in 0..15 : Low = 16 * k + 4
  BY ArrayPlace
<1>2. A \in Nat /\ A <= StackTop - 140 /\ StackTop \in Nat /\ StackTop >= 1000
  BY ArrayPlace, Places
<1>3. A = 256 * (A \div 256) + Low /\ A \div 256 \in Int
  BY <1>2 DEF Low
<1>4. PICK t \in Nat : StackTop = 256 * t
  BY StackPages
<1>5. Raised = 256 * (A \div 256) + 255 /\ Raised \in Nat /\ Raised >= A
  BY <1>1, <1>2, <1>3 DEF Raised
<1>6. Raised = StackTop - 1 \/ Raised <= StackTop - 257
  BY <1>1, <1>2, <1>3, <1>4, <1>5
<1>7. Ones(A, 0) = Raised
  <2>1. Power[0 + 1] = 1
    BY DEF Power
  <2>2. (A \div 1) % 256 = Low
    BY <1>2 DEF Low
  <2> QED  BY <1>2, <2>1, <2>2 DEF Ones, Raised, Low
<1>8. Raised + (PointerAt + 1 - A) = StackTop + 132 - Low
  BY <1>1, <1>2, Places DEF Raised
<1>9. Ones(CounterAt - Raised, 0) = StackTop - 2 - Raised
  <2> DEFINE c == CounterAt - Raised
  <2>1. c = 256 * (t - (A \div 256) - 2) + 161 /\ c \in Int
    BY <1>3, <1>4, <1>5, Places
  <2>2. c % 256 = 161
    <3>1. \A x \in Int : (256 * x + 161) % 256 = 161
      OBVIOUS
    <3> QED  BY <1>3, <2>1, <3>1
  <2>3. Power[0 + 1] = 1
    BY DEF Power
  <2>4. Ones(c, 0) = c + (255 - 161) * 1
    <3> HIDE DEF c
    <3>1. c \div 1 = c
      BY <2>1
    <3> QED  BY <2>2, <2>3, <3>1 DEF Ones
  <2>5. c + 94 = StackTop - 2 - Raised
    BY <1>2, <1>5, Places
  <2> QED  BY <2>1, <2>4, <2>5
<1> QED  BY <1>5, <1>6, <1>7, <1>8, <1>9

LEMMA InBitmap ==
  ASSUME BitmapInv, loop \notin {"clear", "overrun"}
  PROVE  /\ mem_upper \in Memories /\ ~Overrun
         /\ page_num \in Nat /\ mem_bitmap \in Nat
         /\ \A run \in filled : run[1] \in Nat /\ run[2] \in Nat
         /\ \A run \in marked : run[1] \in Nat /\ run[2] \in Nat /\ run[3] \in Nat
  BY DEF BitmapInv, BitmapTypeOK

LEMMA LoopsStart == BitmapInit => LoopsInv
  BY DEF BitmapInit, LoopsInv, LoopsDone

LEMMA LoopsClear == BitmapInv /\ LoopsInv /\ (Clear \/ ClearGates) => LoopsInv'
  BY DEF Clear, ClearGates, LoopsInv, Filling, LoopsDone

(* The first byte of its own the fill overwrites is the lowest of the      *)
(* pointer; the next is the lowest of the counter, for two of the sixteen  *)
(* places of the array in its 256 bytes.                                   *)
LEMMA LoopsFillOwn == BitmapInv /\ LoopsInv /\ FillOwn => LoopsInv'
<1> SUFFICES ASSUME BitmapInv, LoopsInv, FillOwn, loop \notin {"clear", "overrun"}
             PROVE  LoopsInv'
  BY DEF FillOwn
<1>1. /\ loop = "fill" /\ loop' = "fill" /\ marked' = {} /\ mem_upper' = mem_upper /\ Filling
  BY DEF FillOwn, LoopsInv
<1>2. Low' = Low /\ Raised' = Raised
  BY <1>1 DEF Low, Raised
<1>3. /\ StackTop \in Nat /\ StackTop >= 1000 /\ Raised \in Nat /\ Raised >= Array(mem_upper)
      /\ Array(mem_upper) \in Nat /\ StackTop < Array(mem_upper) + FillEnd /\ FillEnd \in Nat
      /\ BitmapSize(mem_upper) \in Nat
      /\ Array(mem_upper) + BitmapSize(mem_upper) <= StackTop - 140
      /\ Raised + (PointerAt + 1 - Array(mem_upper)) = StackTop + 132 - Low
  BY InBitmap, ArrayPlace, RaisedPlace, Places
<1>4. PICK k \in 0..15 : Low = 16 * k + 4
  BY InBitmap, ArrayPlace
<1>5. PICK b \in Own :
        /\ \A c \in Own : b <= c
        /\ filled' = filled \cup {<<From, b>>}
        /\ IF b \in Word(PointerAt)
           THEN /\ mem_bitmap' = Ones(mem_bitmap, b - PointerAt)
                /\ page_num' = page_num + (b - From) + 1
           ELSE /\ page_num' = Ones(page_num + (b - From), b - CounterAt) + 1
                /\ UNCHANGED mem_bitmap
  BY DEF FillOwn
<1>6. /\ b \in (StackTop - 124)..(StackTop - 121) \cup (StackTop - 96)..(StackTop - 93)
      /\ From <= b /\ b < mem_bitmap + FillEnd
  BY <1>5, <1>3, Places DEF Own, Word
<1>7. CASE mem_bitmap = Array(mem_upper) /\ page_num = BitmapSize(mem_upper) /\ filled = {}
  <2>1. From <= StackTop - 140 /\ From = Array(mem_upper) + page_num
    BY <1>3, <1>7 DEF From
  <2>2. PointerAt \in Own
    BY <1>3, <1>7, <2>1, Places DEF Own, Word
  <2>3. b = PointerAt
    <3>1. b <= PointerAt
      BY <1>5, <2>2
    <3> QED  BY <1>3, <1>6, <3>1, Places
  <2>4. b \in Word(PointerAt) /\ b - PointerAt = 0
    BY <1>3, <2>3, Places DEF Word
  <2>5. mem_bitmap' = Raised
    BY <1>5, <1>7, <2>4, InBitmap, RaisedPlace
  <2>6. page_num' = PointerAt + 1 - Array(mem_upper)
    <3>1. page_num' = page_num + (b - From) + 1
      BY <1>5, <2>4
    <3> QED  BY <1>3, <1>7, <2>1, <2>3, <3>1, Places
  <2>7. \A run \in filled' : run[2] < ReturnAt
    BY <1>3, <1>5, <1>7, <2>3, Places
  <2> QED  BY <1>1, <1>2, <2>5, <2>6, <2>7 DEF LoopsInv, Filling, LoopsDone
<1>8. CASE /\ mem_bitmap = Raised /\ page_num = PointerAt + 1 - Array(mem_upper)
           /\ \A run \in filled : run[2] < ReturnAt
  <2>1. From = StackTop + 132 - Low
    BY <1>3, <1>8 DEF From
  <2>2. Low \in {228, 244}
    BY <1>3, <1>4, <1>6, <2>1
  <2>3. CounterAt \in Own
    <3>1. From <= CounterAt /\ CounterAt < mem_bitmap + FillEnd
      BY <1>3, <1>8, <2>1, <2>2, Places
    <3> QED  BY <1>3, <3>1, Places DEF Own, Word
  <2>4. b = CounterAt
    <3>1. b <= CounterAt
      BY <1>5, <2>3
    <3> QED  BY <1>3, <1>6, <2>1, <2>2, <3>1, Places
  <2>5. b \notin Word(PointerAt) /\ b - CounterAt = 0
    BY <1>3, <2>4, Places DEF Word
  <2>6. page_num + (b - From) = CounterAt - Raised
    BY <1>3, <1>8, <2>1, <2>4, Places
  <2>7. page_num' = StackTop - 1 - Raised
    <3>1. page_num' = Ones(CounterAt - Raised, 0) + 1
      BY <1>5, <2>5, <2>6
    <3> QED  BY <1>3, <3>1, InBitmap, RaisedPlace
  <2>8. mem_bitmap' = Raised
    BY <1>5, <1>8, <2>5
  <2>9. \A run \in filled' : run[2] < ReturnAt
    BY <1>3, <1>5, <1>8, <2>4, Places
  <2> QED  BY <1>1, <1>2, <2>2, <2>7, <2>8, <2>9 DEF LoopsInv, Filling, LoopsDone
<1>9. CASE mem_bitmap = Raised /\ page_num = StackTop - 1 - Raised
  <2>1. From = StackTop - 1
    BY <1>3, <1>9 DEF From
  <2> QED  BY <1>3, <1>6, <2>1
<1> QED  BY <1>1, <1>7, <1>8, <1>9 DEF Filling

LEMMA LoopsFillRest == BitmapInv /\ LoopsInv /\ FillRest => LoopsInv'
<1> SUFFICES ASSUME BitmapInv, LoopsInv, FillRest, loop \notin {"clear", "overrun"}
             PROVE  LoopsInv'
  BY DEF FillRest
<1>1. /\ loop = "fill" /\ loop' = "reserve" /\ page_num' = 0 /\ marked' = {}
      /\ mem_bitmap' = mem_bitmap /\ mem_upper' = mem_upper /\ Filling
      /\ page_num < FillEnd => Own = {}
      /\ filled' = IF page_num < FillEnd
                   THEN filled \cup {<<From, mem_bitmap + FillEnd - 1>>} ELSE filled
  BY DEF FillRest, LoopsInv
<1>2. Lost' = Lost /\ Raised' = Raised
  BY <1>1 DEF Low, Raised, Lost
<1>3. /\ StackTop \in Nat /\ StackTop >= 1000 /\ Raised \in Nat /\ Raised >= Array(mem_upper)
      /\ Array(mem_upper) \in Nat /\ StackTop < Array(mem_upper) + FillEnd /\ FillEnd \in Nat
      /\ BitmapSize(mem_upper) \in Nat
      /\ Array(mem_upper) + BitmapSize(mem_upper) <= StackTop - 140
      /\ Raised + (PointerAt + 1 - Array(mem_upper)) = StackTop + 132 - Low
  BY InBitmap, ArrayPlace, RaisedPlace, Places
<1>4. PICK k \in 0..15 : Low = 16 * k + 4
  BY InBitmap, ArrayPlace
<1>5. ~ (mem_bitmap = Array(mem_upper) /\ page_num = BitmapSize(mem_upper))
  <2> SUFFICES ASSUME mem_bitmap = Array(mem_upper), page_num = BitmapSize(mem_upper)
               PROVE  FALSE
    OBVIOUS
  <2>1. page_num < FillEnd /\ PointerAt \in Own
    BY <1>3, Places DEF Own, Word, From
  <2> QED  BY <1>1, <2>1
<1>6. /\ mem_bitmap = Raised /\ page_num \in Nat /\ page_num < FillEnd
      /\ \A run \in filled : run[2] < ReturnAt /\ run[2] \in Nat
      /\ \/ From = StackTop + 132 - Low /\ Low <= 212
         \/ From = StackTop - 1 /\ Low \in {228, 244}
  <2>1. CASE mem_bitmap = Raised /\ page_num = PointerAt + 1 - Array(mem_upper)
    <3>1. From = StackTop + 132 - Low /\ page_num < FillEnd /\ page_num \in Nat
      BY <1>3, <2>1, Places, InBitmap DEF From
    <3>2. CounterAt \notin Own
      BY <1>1, <3>1
    <3>3. ~ (From <= CounterAt)
      BY <1>3, <2>1, <3>2, Places DEF Own, Word
    <3>4. Low <= 212
      BY <1>3, <1>4, <3>1, <3>3, Places
    <3> QED  BY <1>1, <1>5, <2>1, <3>1, <3>4, InBitmap DEF Filling
  <2>2. CASE Low \in {228, 244} /\ mem_bitmap = Raised /\ page_num = StackTop - 1 - Raised
    <3>1. From = StackTop - 1 /\ page_num < FillEnd /\ page_num \in Nat
      BY <1>3, <2>2, InBitmap DEF From
    <3> QED  BY <1>1, <1>5, <2>2, <3>1, InBitmap DEF Filling
  <2> QED  BY <1>1, <1>5, <2>1, <2>2 DEF Filling
<1>7. filled' = filled \cup {<<From, mem_bitmap + FillEnd - 1>>}
  BY <1>1, <1>6
<1>8. ASSUME NEW b \in Word(ReturnAt) PROVE Filled(b)' <=> Lost
  <2>1. b \in (StackTop - 64)..(StackTop - 61)
    BY Places DEF Word
  <2>2. ~ Filled(b)
    BY <1>3, <1>6, <2>1, Places DEF Filled, Inside
  <2>3. Filled(b)' <=> From <= b /\ b <= mem_bitmap + FillEnd - 1
    <3> DEFINE r == <<From, mem_bitmap + FillEnd - 1>>
    <3>1. r[1] = From /\ r[2] = mem_bitmap + FillEnd - 1 /\ filled' = filled \cup {r}
      BY <1>7
    <3> HIDE DEF r
    <3>2. Filled(b)' <=> Filled(b) \/ Inside(b, r)
      BY <3>1 DEF Filled
    <3> QED  BY <2>2, <3>1, <3>2 DEF Inside
  <2>4. b <= mem_bitmap + FillEnd - 1
    BY <1>3, <1>6, <2>1
  <2>5. From <= b <=> Lost
    BY <1>3, <1>4, <1>6, <2>1 DEF Lost
  <2> QED  BY <2>3, <2>4, <2>5
<1> QED  BY <1>1, <1>2, <1>6, <1>8 DEF LoopsInv, Word, LoopsDone

(* The first bit of its own pointer that the third loop sets moves the     *)
(* pointer beyond the return address: its low byte has no bit left to set. *)
LEMMA ReserveBits ==
  ASSUME mem_upper \in Memories, ~Overrun,
         mem_bitmap = Raised
  PROVE  /\ \A bit \in 0..7 : (mem_bitmap \div BitValue(0, bit)) % 2 = 1
         /\ \A byte \in 1..2, bit \in 0..7 : BitValue(byte, bit) >= 256
         /\ (mem_bitmap \div BitValue(2, 7)) % 2 = 0
<1>1. PICK a \in Int : Raised = 256 * a + 255
  <2>1. PICK k \in 0..15 : Low = 16 * k + 4
    BY ArrayPlace
  <2> DEFINE A == Array(mem_upper)
             a == A \div 256
  <2>2. A \in Nat
    BY ArrayPlace
  <2>3. A = 256 * a + Low /\ a \in Int
    BY <2>2 DEF Low
  <2>4. Raised = 256 * a + 255
    BY <2>1, <2>3 DEF Raised
  <2> HIDE DEF a
  <2> QED  BY <2>3, <2>4
<1>2. \A bit \in 0..7 : ((256 * a + 255) \div BitValue(0, bit)) % 2 = 1
  <2> SUFFICES ASSUME NEW bit \in 0..7
               PROVE  ((256 * a + 255) \div BitValue(0, bit)) % 2 = 1
    OBVIOUS
  <2>1. BitValue(0, bit) \in {1, 2, 4, 8, 16, 32, 64, 128}
    BY DEF BitValue, Power
  <2>2. /\ ((256 * a + 255) \div 1) % 2 = 1 /\ ((256 * a + 255) \div 2) % 2 = 1
        /\ ((256 * a + 255) \div 4) % 2 = 1 /\ ((256 * a + 255) \div 8) % 2 = 1
        /\ ((256 * a + 255) \div 16) % 2 = 1 /\ ((256 * a + 255) \div 32) % 2 = 1
        /\ ((256 * a + 255) \div 64) % 2 = 1 /\ ((256 * a + 255) \div 128) % 2 = 1
    BY SMT
  <2> QED  BY <2>1, <2>2
<1>3. \A byte \in 1..2, bit \in 0..7 : BitValue(byte, bit) >= 256
  <2> SUFFICES ASSUME NEW byte \in 1..2, NEW bit \in 0..7 PROVE BitValue(byte, bit) >= 256
    OBVIOUS
  <2>1. Power[byte + 1] \in {256, 65536}
    BY SMT DEF Power
  <2>2. <<1, 2, 4, 8, 16, 32, 64, 128>>[bit + 1] \in 1..128
    OBVIOUS
  <2>3. \A u \in {256, 65536}, v \in 1..128 : u * v >= 256
    BY SMT
  <2> QED  BY <2>1, <2>2, <2>3, SMT DEF BitValue
<1>4. (Raised \div BitValue(2, 7)) % 2 = 0
  <2>1. BitValue(2, 7) = 8388608
    BY SMT DEF BitValue, Power
  <2>2. Raised \in Nat /\ Raised < 8388608
    BY RaisedPlace, StackAssumption, SMT
  <2>3. \A x \in Nat : x < 8388608 => (x \div 8388608) % 2 = 0
    BY SMT
  <2> QED  BY <2>1, <2>2, <2>3, SMT
<1> QED  BY <1>1, <1>2, <1>3, <1>4

LEMMA LoopsReserveOwn == BitmapInv /\ LoopsInv /\ ReserveOwn => LoopsInv'
<1> SUFFICES ASSUME BitmapInv, LoopsInv, ReserveOwn, loop \notin {"clear", "overrun"}
             PROVE  LoopsInv'
  BY DEF ReserveOwn
<1>1. /\ loop = "reserve" /\ loop' = "reserve" /\ UNCHANGED <<mem_upper, filled>>
      /\ \A b \in Word(ReturnAt) : Filled(b) <=> Lost
      /\ \A run \in marked : Misses(run)
      /\ \/ mem_bitmap = Raised /\ page_num = 0
         \/ mem_bitmap + page_num \div 8 > ReturnAt + 3
  BY DEF ReserveOwn, LoopsInv
<1>2. Lost' = Lost /\ Raised' = Raised /\ \A b : Filled(b)' <=> Filled(b)
  BY <1>1 DEF Low, Raised, Lost, Filled
<1>3. PICK p \in OwnBits :
        /\ marked' = marked \cup {<<mem_bitmap, page_num, Frame(p[1], p[2])>>}
        /\ mem_bitmap' = mem_bitmap + BitValue(p[1], p[2])
        /\ page_num' = Frame(p[1], p[2]) + 1
  BY DEF ReserveOwn
<1>4. /\ p[1] \in 0..2 /\ p[2] \in 0..7 /\ StackTop \in Nat /\ StackTop >= 1000
      /\ page_num <= Frame(p[1], p[2]) /\ (mem_bitmap \div BitValue(p[1], p[2])) % 2 = 0
      /\ mem_bitmap \in Nat /\ page_num \in Nat /\ BitValue(p[1], p[2]) \in Nat
  BY InBitmap, Places, BitValues DEF OwnBits
<1> DEFINE byte == p[1]
           bit == p[2]
           frame == Frame(byte, bit)
           value == BitValue(byte, bit)
           r == <<mem_bitmap, page_num, frame>>
<1>5. /\ frame \in Nat /\ mem_bitmap + frame \div 8 = PointerAt + byte
      /\ mem_bitmap + (frame + 1) \div 8 >= PointerAt + byte
  <2>1. frame = 8 * (PointerAt + byte - mem_bitmap) + bit
    BY DEF Frame
  <2>2. PointerAt + byte - mem_bitmap \in Int
    BY <1>4, Places
  <2> HIDE DEF frame, byte, bit
  <2>3. byte \in 0..2 /\ bit \in 0..7 /\ frame \in Nat
    BY <1>4, <2>1, <2>2 DEF frame, byte, bit
  <2> QED  BY <1>4, <2>1, <2>2, <2>3, Places
<1>6. r[1] = mem_bitmap /\ r[2] = page_num /\ r[3] = frame /\ marked' = marked \cup {r}
  BY <1>3
<1> HIDE DEF r, frame, value, byte, bit
<1>7. byte \in 0..2 /\ bit \in 0..7 /\ mem_bitmap' = mem_bitmap + value /\ page_num' = frame + 1
      /\ value \in Nat
  BY <1>3, <1>4 DEF frame, value, byte, bit
<1>8. CASE mem_bitmap = Raised /\ page_num = 0
  <2>a. /\ \A d \in 0..7 : (mem_bitmap \div BitValue(0, d)) % 2 = 1
        /\ \A c \in 1..2, d \in 0..7 : BitValue(c, d) >= 256
    BY <1>8, InBitmap, ReserveBits
  <2>b. byte # 0
    <3> SUFFICES ASSUME byte = 0 PROVE FALSE
      OBVIOUS
    <3>1. (mem_bitmap \div BitValue(0, bit)) % 2 = 0
      BY <1>4 DEF byte, bit
    <3>2. (mem_bitmap \div BitValue(0, bit)) % 2 = 1
      BY <1>7, <2>a
    <3> QED  BY <3>1, <3>2
  <2>c. byte \in 1..2
    BY <1>7, <2>b
  <2>1. byte # 0 /\ value >= 256
    BY <1>7, <2>a, <2>b, <2>c DEF value
  <2>2. mem_bitmap' + page_num' \div 8 > ReturnAt + 3
    BY <1>4, <1>5, <1>7, <2>1, Places
  <2>3. Misses(r)
    BY <1>4, <1>5, <1>6, <1>7, Places DEF Misses
  <2> QED  BY <1>1, <1>2, <1>6, <2>2, <2>3 DEF LoopsInv, Misses, LoopsDone
<1>9. CASE mem_bitmap + page_num \div 8 > ReturnAt + 3
  <2>1. mem_bitmap' + page_num' \div 8 > ReturnAt + 3
    <3>1. page_num <= frame
      BY <1>4 DEF frame, byte, bit
    <3>2. page_num \div 8 <= (frame + 1) \div 8
      BY <1>4, <1>5, <3>1
    <3> QED  BY <1>4, <1>5, <1>7, <1>9, <3>2, Places
  <2>2. Misses(r)
    BY <1>6, <1>9 DEF Misses
  <2> QED  BY <1>1, <1>2, <1>6, <2>1, <2>2 DEF LoopsInv, Misses, LoopsDone
<1> QED  BY <1>1, <1>8, <1>9

LEMMA LoopsReserveRest == BitmapInv /\ LoopsInv /\ ReserveRest => LoopsInv'
<1> SUFFICES ASSUME BitmapInv, LoopsInv, ReserveRest, loop \notin {"clear", "overrun"}
             PROVE  LoopsInv'
  BY DEF ReserveRest
<1>1. /\ loop = "reserve" /\ loop' = "tables" /\ UNCHANGED <<mem_upper, filled>>
      /\ \A b \in Word(ReturnAt) : Filled(b) <=> Lost
      /\ \A run \in marked : Misses(run)
      /\ \/ mem_bitmap = Raised /\ page_num = 0
         \/ mem_bitmap + page_num \div 8 > ReturnAt + 3
      /\ OwnBits = {}
  BY DEF ReserveRest, LoopsInv
<1>2. Lost' = Lost /\ \A b : Filled(b)' <=> Filled(b)
  BY <1>1 DEF Low, Lost, Filled
<1> DEFINE r == <<mem_bitmap, page_num, KernelPages - 1>>
<1>3. r[1] = mem_bitmap /\ r[2] = page_num /\ r[3] = KernelPages - 1 /\ marked' = marked \cup {r}
  BY DEF ReserveRest
<1> HIDE DEF r
<1>4. mem_bitmap \in Nat /\ page_num \in Nat /\ StackTop \in Nat /\ StackTop >= 1000
  BY InBitmap, Places
<1>5. ASSUME mem_bitmap + page_num \div 8 > ReturnAt + 3 PROVE Misses(r)
  BY <1>3, <1>5 DEF Misses
<1>6. ASSUME mem_bitmap = Raised, page_num = 0, Raised = StackTop - 1 PROVE Misses(r)
  <2>1. mem_bitmap + page_num \div 8 > ReturnAt + 3
    BY <1>4, <1>6, Places
  <2> QED  BY <1>5, <2>1
<1>7. ASSUME mem_bitmap = Raised, page_num = 0, Raised <= StackTop - 257 PROVE Misses(r)
  <2>1. <<2, 7>> \notin OwnBits
    BY <1>1
  <2>2. (mem_bitmap \div BitValue(2, 7)) % 2 = 0
    BY <1>7, InBitmap, ReserveBits
  <2>3. Frame(2, 7) = 8 * (PointerAt + 2 - mem_bitmap) + 7
    BY DEF Frame
  <2>4. page_num <= Frame(2, 7)
    BY <1>4, <1>7, <2>3, Places
  <2>5. ~ (Frame(2, 7) < KernelPages)
    BY <2>1, <2>2, <2>4 DEF OwnBits
  <2>6. KernelPages \in Nat /\ KernelPages > 0
    BY StackNumbers
  <2>7. mem_bitmap + (KernelPages - 1) \div 8 < ReturnAt
    BY <1>4, <2>3, <2>5, <2>6, Places
  <2> QED  BY <1>3, <2>7 DEF Misses
<1>8. Misses(r)
  BY <1>1, <1>5, <1>6, <1>7, InBitmap, RaisedPlace
<1> QED  BY <1>1, <1>2, <1>3, <1>8 DEF LoopsInv, Misses, LoopsDone

LEMMA LoopsAreOver == BitmapInv /\ LoopsInv /\ (BuildTables \/ PushAndEnable) => LoopsInv'
<1> SUFFICES ASSUME BitmapInv, LoopsInv, BuildTables \/ PushAndEnable PROVE LoopsInv'
  OBVIOUS
<1>1. /\ loop \in LoopsDone /\ loop' \in {"calls", "paging"}
      /\ UNCHANGED <<mem_upper, filled, marked>>
  BY DEF BuildTables, PushAndEnable, LoopsDone
<1>2. Lost' = Lost /\ \A b : Filled(b)' <=> Filled(b)
  BY <1>1 DEF Low, Lost, Filled
<1> QED  BY <1>1, <1>2 DEF LoopsInv, Misses, LoopsDone

(* What paging_init() leaves of its return address, for every amount of    *)
(* memory with which its loops come to an end: nothing changed, or         *)
(* 0xFFFFFFFF.                                                             *)
(* The loops overwrite the address only when the fill's own writes into    *)
(* its pointer and counter do not carry it past, and the third loop, whose *)
(* pointer grows under it, never sets a bit there.                         *)
THEOREM ReturnKeptOrLost == BitmapSpec => []ReturnsOrFaults
<1>1. BitmapInit => BitmapInv /\ LoopsInv
  BY InitBitmap, LoopsStart
<1>2. BitmapInv /\ LoopsInv /\ [BitmapNext]_bitmapVars => BitmapInv' /\ LoopsInv'
  <2>1. LoopsInv /\ UNCHANGED bitmapVars => LoopsInv'
    BY DEF bitmapVars, LoopsInv, Filling, Misses, Filled, Lost, Low, Raised
  <2> QED  BY <2>1, BitmapStays, LoopsClear, LoopsFillOwn, LoopsFillRest,
              LoopsReserveOwn, LoopsReserveRest, LoopsAreOver
           DEF BitmapNext
<1>3. BitmapInv /\ LoopsInv => ReturnsOrFaults
  <2> SUFFICES ASSUME BitmapInv, LoopsInv, loop \in LoopsDone
               PROVE  /\ ReturnLost = IF Lost THEN Word(ReturnAt) ELSE {}
                      /\ \A b \in ReturnLost : Filled(b)
    BY DEF ReturnsOrFaults, Lost, Low
  <2>0. loop \notin {"clear", "overrun"}
    BY DEF LoopsDone
  <2>1. /\ \A b \in Word(ReturnAt) : Filled(b) <=> Lost
        /\ \A run \in marked : Misses(run)
    BY DEF LoopsInv
  <2>2. ASSUME NEW b \in Word(ReturnAt), NEW run \in marked,
               run[1] + run[2] \div 8 <= b, b <= run[1] + run[3] \div 8
        PROVE  FALSE
    <3>1. run[1] \in Nat /\ run[2] \in Nat /\ run[3] \in Nat /\ Misses(run)
      BY <2>0, <2>1, InBitmap
    <3>2. b \in Int /\ ReturnAt \in Int /\ ReturnAt <= b /\ b <= ReturnAt + 3
      BY Places DEF Word
    <3> QED  BY <2>2, <3>1, <3>2 DEF Misses
  <2>3. \A b \in Word(ReturnAt) : Hit(b) <=> Lost
    BY <2>1, <2>2 DEF Hit
  <2>4. \A b \in Word(ReturnAt) : b \notin pushed
    <3>1. mem_upper \in Memories /\ ~Overrun /\ \A at \in pushed : at < Array(mem_upper)
      BY <2>0, InBitmap DEF BitmapInv, Reach
    <3>2. \A b \in Word(ReturnAt) : b \in Int /\ b >= ReturnAt
      BY Places DEF Word
    <3> QED  BY <3>1, <3>2, ArrayPlace, Places
  <2>5. ReturnLost = IF Lost THEN Word(ReturnAt) ELSE {}
    BY <2>3, <2>4 DEF ReturnLost
  <2>6. \A b \in ReturnLost : Filled(b)
    BY <2>1, <2>3, <2>4 DEF ReturnLost
  <2> QED  BY <2>5, <2>6
<1> QED  BY <1>1, <1>2, <1>3, PTL DEF BitmapSpec
-----------------------------------------------------------------------------
(* The handoff.                                                            *)

(* The header's words sum to zero, as a loader demands of them.            *)
LEMMA HeaderAccepted == (HeaderMagic + HeaderFlags + Checksum) % WordSize = 0
<1> DEFINE sum == HeaderMagic + HeaderFlags
           q == (-sum) \div WordSize
<1>1. sum \in Nat /\ WordSize \in Nat /\ WordSize > 0
  BY WordAssumption DEF HeaderFlags
<1>2. ASSUME NEW s \in Nat, NEW w \in Nat, w > 0
      PROVE  /\ (-s) \div w \in Int
             /\ s + ((-s) % w) = w * (-((-s) \div w))
  <2>1. -s = w * ((-s) \div w) + ((-s) % w) /\ (-s) \div w \in Int /\ (-s) % w \in Int
    BY <1>2, SMT
  <2> QED  BY <2>1, SMT
<1>3. \A k \in Int, w \in Nat \ {0} : (w * k) % w = 0
  BY SMT
<1> QED  BY <1>1, <1>2, <1>3, SMTT(40) DEF Checksum

LEMMA Bits == Demanded(Memory) /\ Demanded(Video)
  BY DEF Demanded, Memory, Video, HeaderFlags

(* The fields kmain() reads lie before those in which the two structures   *)
(* differ.                                                                 *)
ReadFields == {"boot_loader_name", "cmdline", "mem_lower", "mem_upper", "mmap_addr", "mmap_length"}

LEMMA FieldNumbers ==
  /\ DOMAIN FieldNames = 1..24
  /\ \A name \in ReadFields : Number(name) \in 1..20 /\ FieldNames[Number(name)] = name
  /\ Number("mode_info") = 20
<1>1. DOMAIN FieldNames = 1..24
  BY DEF FieldNames
<1>2. /\ FieldNames[2] = "mem_lower" /\ FieldNames[3] = "mem_upper" /\ FieldNames[5] = "cmdline"
      /\ FieldNames[12] = "mmap_length" /\ FieldNames[13] = "mmap_addr"
      /\ FieldNames[17] = "boot_loader_name" /\ FieldNames[20] = "mode_info"
  BY DEF FieldNames
<1>3. /\ FieldNames[21] = "mode" /\ FieldNames[22] = "interface_seg"
      /\ FieldNames[23] = "interface_off" /\ FieldNames[24] = "interface_len"
  BY DEF FieldNames
<1>4. ASSUME NEW name \in ReadFields
      PROVE  Number(name) \in 1..20 /\ FieldNames[Number(name)] = name
  <2>1. \E m \in 1..24 : FieldNames[m] = name
    BY <1>2 DEF ReadFields
  <2>2. Number(name) \in 1..24 /\ FieldNames[Number(name)] = name
    BY <1>1, <2>1 DEF Number
  <2>3. \A m \in 21..24 : FieldNames[m] # name
    BY <1>3 DEF ReadFields
  <2> QED  BY <2>2, <2>3
<1>5. Number("mode_info") = 20
  <2>1. \A m \in 1..24 : FieldNames[m] = "mode_info" => m = 20
    BY DEF FieldNames
  <2>2. Number("mode_info") = CHOOSE m \in 1..24 : FieldNames[m] = "mode_info"
    BY <1>1 DEF Number
  <2>3. 20 \in 1..24
    OBVIOUS
  <2> QED  BY <1>2, <2>1, <2>2, <2>3
<1> QED  BY <1>1, <1>4, <1>5

(* Each field starts where the one before it ends.                         *)
LEMMA StartsAre ==
  \A struct \in [1..24 -> {2, 4}] :
    /\ Starts(struct)[1] = 0
    /\ \A m \in 2..24 : Starts(struct)[m] = Starts(struct)[m - 1] + struct[m - 1]
    /\ Starts(struct) \in [1..24 -> Nat]
<1> SUFFICES ASSUME NEW struct \in [1..24 -> {2, 4}]
             PROVE  /\ Starts(struct)[1] = 0
                    /\ \A m \in 2..24 : Starts(struct)[m] = Starts(struct)[m - 1] + struct[m - 1]
                    /\ Starts(struct) \in [1..24 -> Nat]
  OBVIOUS
<1> DEFINE Of(F) == [m \in DOMAIN struct |-> IF m = 1 THEN 0 ELSE F[m - 1] + struct[m - 1]]
           K == CHOOSE F : F = Of(F)
<1>0. DOMAIN struct = 1..24 /\ \A m \in 1..24 : struct[m] \in Nat
  OBVIOUS
<1>1. PICK f \in [0..23 -> Nat] : f[0] = 0 /\ \A m \in 1..23 : f[m] = f[m - 1] + struct[m]
  <2> DEFINE d == [m \in 1..23 |-> struct[m]]
  <2>1. d \in [1..23 -> Nat] /\ \A m \in 1..23 : d[m] = struct[m]
    BY <1>0
  <2> HIDE DEF d
  <2>2. 23 \in Nat
    OBVIOUS
  <2> QED  BY <2>1, <2>2, Sums, ZenonT(40)
<1> DEFINE F == [m \in 1..24 |-> f[m - 1]]
<1>2. \A m \in 1..24 : F[m] = f[m - 1] /\ F[m] \in Nat
  BY <1>1
<1>3. F = Of(F)
  <2>1. ASSUME NEW m \in 1..24, m # 1 PROVE f[m - 1] = f[(m - 1) - 1] + struct[m - 1]
    <3>1. m - 1 \in 1..23
      BY <2>1
    <3> QED  BY <1>1, <3>1
  <2>2. ASSUME NEW m \in 1..24, m # 1 PROVE F[m - 1] = f[(m - 1) - 1]
    <3>1. m - 1 \in 1..24
      BY <2>2
    <3> QED  BY <3>1
  <2>3. \A m \in 1..24 : F[m] = IF m = 1 THEN 0 ELSE F[m - 1] + struct[m - 1]
    BY <1>1, <1>2, <2>1, <2>2
  <2> HIDE DEF F
  <2>4. DOMAIN F = 1..24
    BY DEF F
  <2>5. F = [m \in DOMAIN F |-> F[m]]
    BY DEF F
  <2>6. F = [m \in 1..24 |-> IF m = 1 THEN 0 ELSE F[m - 1] + struct[m - 1]]
    BY <2>3, <2>4, <2>5, Zenon
  <2> QED  BY <1>0, <2>6
<1> HIDE DEF F
<1>4. K = Of(K)
  <2> HIDE DEF Of
  <2> QED  BY <1>3
<1>5. Starts(struct) = K
  BY DEF Starts
<1> HIDE DEF K
<1>6. \A m \in 1..24 : K[m] = IF m = 1 THEN 0 ELSE K[m - 1] + struct[m - 1]
  BY <1>0, <1>4, Zenon
<1>7. DOMAIN K = 1..24
  BY <1>0, <1>4
<1>8. K[1] = 0 /\ \A m \in 2..24 : K[m] = K[m - 1] + struct[m - 1]
  BY <1>6
<1>9. \A m \in 1..24 : K[m] \in Nat
  <2> DEFINE N == {c \in Nat : c + 1 \in 1..24 => K[c + 1] \in Nat}
  <2>1. 0 \in N
    BY <1>8
  <2>2. ASSUME NEW c \in Nat, c \in N PROVE c + 1 \in N
    <3>1. CASE c + 2 > 24
      BY <3>1
    <3>2. CASE c + 2 <= 24
      <4>1. K[c + 1] \in Nat /\ c + 2 \in 2..24 /\ (c + 2) - 1 = c + 1 /\ (c + 1) + 1 = c + 2
        BY <2>2, <3>2
      <4>2. K[c + 2] = K[c + 1] + struct[c + 1] /\ struct[c + 1] \in Nat
        BY <1>0, <1>8, <4>1
      <4> QED  BY <4>1, <4>2
    <3> QED  BY <3>1, <3>2
  <2> HIDE DEF N
  <2>3. Nat \subseteq N
    BY <2>1, <2>2, SetInduction
  <2>4. ASSUME NEW m \in 1..24 PROVE K[m] \in Nat
    <3>1. m - 1 \in N /\ (m - 1) + 1 = m
      BY <2>3
    <3> QED  BY <3>1 DEF N
  <2> QED  BY <2>4
<1>10. K = [m \in 1..24 |-> K[m]]
  BY <1>0, <1>4, <1>7
<1>11. K \in [1..24 -> Nat]
  BY <1>9, <1>10
<1> QED  BY <1>5, <1>8, <1>11

(* The fields follow each other.                                           *)
LEMMA StartsGrow ==
  \A struct \in [1..24 -> {2, 4}] :
    \A m, j \in 1..24 : m < j => Starts(struct)[m] < Starts(struct)[j]
<1> SUFFICES ASSUME NEW struct \in [1..24 -> {2, 4}], NEW m \in 1..24
             PROVE  \A j \in 1..24 : m < j => Starts(struct)[m] < Starts(struct)[j]
  OBVIOUS
<1> DEFINE S == Starts(struct)
           N == {c \in Nat : \A j \in 1..24 : m < j /\ j <= m + c => S[m] < S[j]}
<1>1. \A k \in 1..24 : S[k] \in Nat
  BY StartsAre
<1>2. \A k \in 2..24 : S[k - 1] < S[k]
  <2>1. \A k \in 2..24 : S[k] = S[k - 1] + struct[k - 1]
    BY StartsAre
  <2>2. \A k \in 2..24 : k - 1 \in 1..24
    OBVIOUS
  <2>3. \A k \in 1..24 : struct[k] \in {2, 4}
    OBVIOUS
  <2> HIDE DEF S
  <2> QED  BY <1>1, <2>1, <2>2, <2>3
<1> HIDE DEF S
<1>3. 0 \in N
  OBVIOUS
<1>4. ASSUME NEW c \in Nat, c \in N PROVE c + 1 \in N
  <2> SUFFICES ASSUME NEW j \in 1..24, m < j, j <= m + (c + 1) PROVE S[m] < S[j]
    OBVIOUS
  <2>1. CASE j <= m + c
    BY <1>4, <2>1
  <2>2. CASE j = m + 1
    <3>1. j \in 2..24 /\ j - 1 = m
      BY <2>2
    <3> QED  BY <1>2, <3>1
  <2>3. CASE j = m + (c + 1) /\ c > 0
    <3>1. j - 1 \in 1..24 /\ m < j - 1 /\ j - 1 <= m + c /\ j \in 2..24
      BY <2>3
    <3>2. S[m] < S[j - 1] /\ S[j - 1] < S[j]
      BY <1>2, <1>4, <3>1
    <3> QED  BY <1>1, <3>1, <3>2
  <2> QED  BY <2>1, <2>2, <2>3
<1> HIDE DEF N
<1>5. Nat \subseteq N
  BY <1>3, <1>4, SetInduction
<1>6. ASSUME NEW j \in 1..24, m < j PROVE S[m] < S[j]
  <2>1. j \in N
    BY <1>5
  <2> QED  BY <1>6, <2>1 DEF N
<1> QED  BY <1>6 DEF S

(* Up to the mode of the display they are the same in both structures.     *)
LEMMA SameStarts == \A m \in 1..20 : Starts(multiboot_info)[m] = Starts(Protocol)[m]
<1>1. multiboot_info \in [1..24 -> {2, 4}] /\ Protocol \in [1..24 -> {2, 4}]
  BY FieldNumbers DEF multiboot_info, Protocol
<1>2. \A m \in 1..20 : multiboot_info[m] = 4 /\ Protocol[m] = 4
  <2>1. \A m \in 1..20 : ~ (m > Number("mode_info"))
    BY FieldNumbers
  <2> QED  BY <2>1, FieldNumbers DEF multiboot_info, Protocol
<1> DEFINE M == Starts(multiboot_info)
           S == Starts(Protocol)
           N == {c \in Nat : c + 1 \in 1..20 => M[c + 1] = S[c + 1]}
<1>3. M[1] = 0 /\ \A m \in 2..24 : M[m] = M[m - 1] + multiboot_info[m - 1]
  BY <1>1, StartsAre
<1>4. S[1] = 0 /\ \A m \in 2..24 : S[m] = S[m - 1] + Protocol[m - 1]
  BY <1>1, StartsAre
<1> HIDE DEF M, S
<1>5. 0 \in N
  BY <1>3, <1>4
<1>6. ASSUME NEW c \in Nat, c \in N PROVE c + 1 \in N
  <2>1. CASE c + 2 > 20
    BY <2>1
  <2>2. CASE c + 2 <= 20
    <3>1. c + 2 \in 2..24 /\ (c + 2) - 1 = c + 1 /\ (c + 1) + 1 = c + 2 /\ c + 1 \in 1..20
      BY <2>2
    <3>2. M[c + 1] = S[c + 1]
      BY <1>6, <3>1
    <3>3. M[c + 2] = M[c + 1] + multiboot_info[c + 1] /\ S[c + 2] = S[c + 1] + Protocol[c + 1]
      BY <1>3, <1>4, <3>1
    <3>4. M[c + 2] = S[c + 2]
      BY <1>2, <3>1, <3>2, <3>3
    <3> QED  BY <3>1, <3>4
  <2> QED  BY <2>1, <2>2
<1> HIDE DEF N
<1>7. Nat \subseteq N
  BY <1>5, <1>6, SetInduction
<1>8. ASSUME NEW m \in 1..20 PROVE M[m] = S[m]
  <2>1. m - 1 \in N /\ (m - 1) + 1 = m
    BY <1>7
  <2> QED  BY <2>1 DEF N
<1> QED  BY <1>8 DEF M, S

(* What the kernel finds where it looks for a field.                       *)
LEMMA FieldFound ==
  ASSUME NEW name \in ReadFields, NEW announced
  PROVE  /\ FieldOffset(multiboot_info, name) \in DOMAIN Layout(announced)
         /\ Layout(announced)[FieldOffset(multiboot_info, name)]
              = IF name \in announced THEN name ELSE Junk
<1> DEFINE S == Starts(Protocol)
           k == Number(name)
<1>1. k \in 1..20 /\ FieldNames[k] = name
  BY FieldNumbers
<1>2. Protocol \in [1..24 -> {2, 4}] /\ DOMAIN Protocol = 1..24
  BY FieldNumbers DEF Protocol
<1>3. FieldOffset(multiboot_info, name) = S[k]
  BY <1>1, SameStarts DEF FieldOffset
<1>4. \A m, j \in 1..24 : S[m] = S[j] => m = j
  <2>1. \A m, j \in 1..24 : m < j => S[m] < S[j]
    BY <1>2, StartsGrow
  <2>2. \A m \in 1..24 : S[m] \in Nat
    BY <1>2, StartsAre
  <2> HIDE DEF S
  <2>3. \A m, j \in 1..24 : m < j \/ j < m \/ m = j
    OBVIOUS
  <2> QED  BY <2>1, <2>2, <2>3, SMTT(40)
<1> HIDE DEF k
<1>5. k \in 1..24
  BY <1>1
<1>6. (CHOOSE m \in DOMAIN Protocol : S[m] = S[k]) = k
  <2> HIDE DEF S
  <2>1. \A m \in 1..24 : S[m] = S[k] => m = k
    BY <1>4, <1>5
  <2> QED  BY <1>2, <1>5, <2>1
<1>7. S[k] \in {S[m] : m \in DOMAIN Protocol}
  BY <1>2, <1>5
<1> HIDE DEF S
<1>8. /\ DOMAIN Layout(announced) = {S[m] : m \in DOMAIN Protocol}
      /\ \A o \in {S[m] : m \in DOMAIN Protocol} :
           Layout(announced)[o] =
             LET f == FieldNames[CHOOSE m \in DOMAIN Protocol : S[m] = o]
             IN IF f \in announced THEN f ELSE Junk
  BY DEF Layout, S
<1>9. Layout(announced)[S[k]] = IF name \in announced THEN name ELSE Junk
  BY <1>1, <1>6, <1>7, <1>8
<1> QED  BY <1>3, <1>7, <1>8, <1>9

(* What the entry point has pushed, and what the loader has left, at each  *)
(* point of the way to kmain() and in it.                                  *)
Pushed(a, word) == a \in DOMAIN stack /\ stack[a] = word
Running == {"kmain", "check", "panic"} \cup Reading
Entering == {"start", "push esp", "push eax", "push ebx", "call"}

Stacked ==
  /\ hpc = "push esp" => esp = Top
  /\ hpc = "push eax" => esp = Top - 4 /\ Pushed(Top - 4, Top)
  /\ hpc = "push ebx" => esp = Top - 8 /\ Pushed(Top - 4, Top) /\ Pushed(Top - 8, eax)
  /\ hpc = "call" => /\ esp = Top - 12
                     /\ Pushed(Top - 4, Top) /\ Pushed(Top - 8, eax) /\ Pushed(Top - 12, ebx)
  /\ hpc \in Running =>
       /\ esp = Top - 16
       /\ Pushed(Top - 4, Top) /\ Pushed(Top - 8, eax) /\ Pushed(Top - 12, ebx)

Loaded ==
  hpc # "load" =>
    IF loader = "multiboot"
    THEN /\ eax = LoaderMagic /\ mode = VideoMode
         /\ MemFields \subseteq valid /\ info = Layout(valid)
    ELSE eax # LoaderMagic

HandoffInv ==
  /\ hpc \in {"load"} \cup Entering \cup Running
  /\ loader \in {"multiboot", "foreign"}
  /\ Stacked /\ Loaded
  /\ hpc \in {"check", "panic"} \cup Reading => initial_esp = Top
  /\ hpc \in Reading => loader = "multiboot"
  /\ hpc = "panic" => loader = "foreign"
  /\ hpc \notin Reading => seen = {}
  /\ \A s \in seen : \E name \in ReadFields :
       s = <<name, IF name \in valid THEN name ELSE Junk>>

LEMMA HandoffPoints ==
  /\ Reading = ReadFields \cup {"paging", "done"}
  /\ \A name \in ReadFields : After[name] \in ReadFields \cup {"paging"}
  /\ DOMAIN After = ReadFields
  BY DEF Reading, After, ReadFields

LEMMA HandoffStarts == HandoffInit => HandoffInv
  BY HandoffPoints DEF HandoffInit, HandoffInv, Stacked, Loaded, Running, Entering, ReadFields

LEMMA StepLoad == HandoffInv /\ Load => HandoffInv'
<1> SUFFICES ASSUME HandoffInv, Load PROVE HandoffInv'
  OBVIOUS
<1>1. /\ hpc = "load" /\ loader = "multiboot" /\ hpc' = "start"
      /\ info' = Layout(valid') /\ MemFields \subseteq valid'
      /\ mode' = VideoMode /\ eax' = LoaderMagic
      /\ UNCHANGED <<loader, esp, stack, initial_esp, seen>>
  <2>1. PICK more \in SUBSET Optional, memory \in BOOLEAN :
          /\ Demanded(Memory) => memory
          /\ valid' = (UNION more) \cup (IF memory THEN MemFields ELSE {})
    BY HeaderAccepted DEF Load
  <2>2. valid' = (UNION more) \cup MemFields
    BY <2>1, Bits, Zenon
  <2>3. \A f \in MemFields : f \in valid'
    BY <2>2
  <2> QED  BY <2>3, HeaderAccepted, Bits DEF Load
<1>2. seen = {}
  BY <1>1, HandoffPoints DEF HandoffInv, ReadFields
<1> QED  BY <1>1, <1>2, HandoffPoints
         DEF HandoffInv, Stacked, Loaded, Running, Entering, ReadFields

LEMMA StepLoadForeign == HandoffInv /\ LoadForeign => HandoffInv'
<1> SUFFICES ASSUME HandoffInv, LoadForeign PROVE HandoffInv'
  OBVIOUS
<1>1. /\ hpc = "load" /\ loader = "foreign" /\ hpc' = "start" /\ eax' # LoaderMagic
      /\ UNCHANGED <<loader, esp, stack, initial_esp, seen>>
  BY DEF LoadForeign
<1>2. seen = {}
  BY <1>1, HandoffPoints DEF HandoffInv, ReadFields
<1> QED  BY <1>1, <1>2, HandoffPoints
         DEF HandoffInv, Stacked, Loaded, Running, Entering, ReadFields

LEMMA StepStart == HandoffInv /\ Start => HandoffInv'
  BY HandoffPoints
  DEF HandoffInv, Start, Stacked, Loaded, Running, Entering, ReadFields

(* A push leaves what was pushed before where it is.                       *)
LEMMA PushKeeps ==
  ASSUME NEW from, NEW to, NEW word, Push(from, to, word)
  PROVE  /\ esp - 4 \in DOMAIN stack' /\ stack'[esp - 4] = word /\ esp' = esp - 4
         /\ \A a : a \in DOMAIN stack /\ a # esp - 4 => a \in DOMAIN stack' /\ stack'[a] = stack[a]
         /\ hpc = from /\ hpc' = to
         /\ UNCHANGED <<loader, valid, info, mode, eax, ebx, initial_esp, seen>>
  BY DEF Push

LEMMA StepEntryPoint == HandoffInv /\ EntryPoint => HandoffInv'
<1> SUFFICES ASSUME HandoffInv, EntryPoint PROVE HandoffInv'
  OBVIOUS
<1>0. Top \in Nat
  BY WordAssumption
<1>1. ASSUME NEW from, NEW to, NEW word, Push(from, to, word), from \in Entering,
             to \in Entering \/ to = "kmain", to # "load", Stacked'
      PROVE  HandoffInv'
  <2>1. hpc = from /\ hpc' = to
        /\ UNCHANGED <<loader, valid, info, mode, eax, ebx, initial_esp, seen>>
    BY <1>1, PushKeeps
  <2>2. seen = {} /\ hpc # "load" /\ hpc' \notin Reading \cup {"check", "panic"}
    BY <1>1, <2>1, HandoffPoints DEF HandoffInv, Entering, ReadFields
  <2> QED  BY <1>1, <2>1, <2>2, HandoffPoints DEF HandoffInv, Loaded, Running
<1>2. CASE Push("push esp", "push eax", esp)
  <2>1. /\ esp - 4 \in DOMAIN stack' /\ stack'[esp - 4] = esp /\ esp' = esp - 4
        /\ \A a : a \in DOMAIN stack /\ a # esp - 4 => a \in DOMAIN stack' /\ stack'[a] = stack[a]
        /\ hpc = "push esp" /\ hpc' = "push eax" /\ UNCHANGED <<eax, ebx>>
    BY <1>2, PushKeeps
  <2>2. hpc' \notin Running
    BY <2>1, HandoffPoints DEF Running, ReadFields
  <2>3. Stacked'
    BY <1>0, <2>1, <2>2 DEF HandoffInv, Stacked, Pushed
  <2> QED  BY <1>1, <1>2, <2>3 DEF Entering
<1>3. CASE Push("push eax", "push ebx", eax)
  <2>1. /\ esp - 4 \in DOMAIN stack' /\ stack'[esp - 4] = eax /\ esp' = esp - 4
        /\ \A a : a \in DOMAIN stack /\ a # esp - 4 => a \in DOMAIN stack' /\ stack'[a] = stack[a]
        /\ hpc = "push eax" /\ hpc' = "push ebx" /\ UNCHANGED <<eax, ebx>>
    BY <1>3, PushKeeps
  <2>2. hpc' \notin Running
    BY <2>1, HandoffPoints DEF Running, ReadFields
  <2>3. esp = Top - 4 /\ Pushed(Top - 4, Top)
    BY <2>1 DEF HandoffInv, Stacked
  <2>4. esp - 4 = Top - 8 /\ Top - 4 # Top - 8
    BY <1>0, <2>3
  <2>5. /\ Pushed(Top - 4, Top)' /\ Pushed(Top - 8, eax)'
    BY <2>1, <2>3, <2>4 DEF Pushed
  <2>6. Stacked'
    BY <2>1, <2>2, <2>4, <2>5 DEF Stacked
  <2> QED  BY <1>1, <1>3, <2>6 DEF Entering
<1>4. CASE Push("push ebx", "call", ebx)
  <2>1. /\ esp - 4 \in DOMAIN stack' /\ stack'[esp - 4] = ebx /\ esp' = esp - 4
        /\ \A a : a \in DOMAIN stack /\ a # esp - 4 => a \in DOMAIN stack' /\ stack'[a] = stack[a]
        /\ hpc = "push ebx" /\ hpc' = "call" /\ UNCHANGED <<eax, ebx>>
    BY <1>4, PushKeeps
  <2>2. hpc' \notin Running
    BY <2>1, HandoffPoints DEF Running, ReadFields
  <2>3. esp = Top - 8 /\ Pushed(Top - 4, Top) /\ Pushed(Top - 8, eax)
    BY <2>1 DEF HandoffInv, Stacked
  <2>4. esp - 4 = Top - 12 /\ Top - 4 # Top - 12 /\ Top - 8 # Top - 12
    BY <1>0, <2>3
  <2>5. /\ Pushed(Top - 4, Top)' /\ Pushed(Top - 8, eax)' /\ Pushed(Top - 12, ebx)'
    BY <2>1, <2>3, <2>4 DEF Pushed
  <2>6. Stacked'
    BY <2>1, <2>2, <2>4, <2>5 DEF Stacked
  <2> QED  BY <1>1, <1>4, <2>6 DEF Entering
<1>5. CASE Push("call", "kmain", 0)
  <2>1. /\ esp - 4 \in DOMAIN stack' /\ stack'[esp - 4] = 0 /\ esp' = esp - 4
        /\ \A a : a \in DOMAIN stack /\ a # esp - 4 => a \in DOMAIN stack' /\ stack'[a] = stack[a]
        /\ hpc = "call" /\ hpc' = "kmain" /\ UNCHANGED <<eax, ebx>>
    BY <1>5, PushKeeps
  <2>2. hpc' \in Running
    BY <2>1, HandoffPoints DEF Running, ReadFields
  <2>3. esp = Top - 12 /\ Pushed(Top - 4, Top) /\ Pushed(Top - 8, eax) /\ Pushed(Top - 12, ebx)
    BY <2>1 DEF HandoffInv, Stacked
  <2>4. esp - 4 = Top - 16 /\ Top - 4 # Top - 16 /\ Top - 8 # Top - 16 /\ Top - 12 # Top - 16
    BY <1>0, <2>3
  <2>5. /\ Pushed(Top - 4, Top)' /\ Pushed(Top - 8, eax)' /\ Pushed(Top - 12, ebx)'
    BY <2>1, <2>3, <2>4 DEF Pushed
  <2>6. Stacked'
    BY <2>1, <2>2, <2>4, <2>5 DEF Stacked
  <2> QED  BY <1>1, <1>5, <2>6 DEF Entering
<1> QED  BY <1>2, <1>3, <1>4, <1>5 DEF EntryPoint

(* What kmain() takes for its parameters.                                  *)
LEMMA Parameters ==
  ASSUME HandoffInv, hpc \in Running
  PROVE  mboot_info_ptr = ebx /\ magic = eax /\ initial_stack = Top
<1>1. Top \in Nat /\ esp = Top - 16
  BY WordAssumption DEF HandoffInv, Stacked
<1>2. esp + 4 = Top - 12 /\ esp + 8 = Top - 8 /\ esp + 12 = Top - 4
  BY <1>1
<1> QED  BY <1>2 DEF HandoffInv, Stacked, Pushed, mboot_info_ptr, magic, initial_stack

LEMMA StepKmain == HandoffInv /\ Kmain => HandoffInv'
<1> SUFFICES ASSUME HandoffInv, Kmain PROVE HandoffInv'
  OBVIOUS
<1>1. /\ hpc = "kmain" /\ hpc' = "check" /\ initial_esp' = Top
      /\ UNCHANGED <<loader, valid, info, mode, eax, ebx, esp, stack, seen>>
  BY Parameters DEF Kmain, Running
<1>2. seen = {}
  BY <1>1, HandoffPoints DEF HandoffInv, ReadFields
<1>3. Stacked'
  BY <1>1, HandoffPoints DEF HandoffInv, Stacked, Pushed, Running, ReadFields
<1> QED  BY <1>1, <1>2, <1>3, HandoffPoints DEF HandoffInv, Loaded, Running, ReadFields

LEMMA StepCheckMagic == HandoffInv /\ CheckMagic => HandoffInv'
<1> SUFFICES ASSUME HandoffInv, CheckMagic PROVE HandoffInv'
  OBVIOUS
<1>1. /\ hpc = "check" /\ hpc' = IF magic # Expected THEN "panic" ELSE "boot_loader_name"
      /\ UNCHANGED <<loader, valid, info, mode, eax, ebx, esp, stack, initial_esp, seen>>
  BY DEF CheckMagic
<1>2. seen = {} /\ initial_esp = Top
  BY <1>1, HandoffPoints DEF HandoffInv, ReadFields
<1>3. magic = eax
  BY <1>1, Parameters DEF Running
<1>4. magic # LoaderMagic <=> loader = "foreign"
  BY <1>1, <1>3 DEF HandoffInv, Loaded
<1>5. Stacked'
  BY <1>1, HandoffPoints DEF HandoffInv, Stacked, Pushed, Running, ReadFields
<1> QED  BY <1>1, <1>2, <1>4, <1>5, HandoffPoints
         DEF HandoffInv, Loaded, Running, ReadFields, Expected

(* What kmain() reads is what the loader put there.                        *)
LEMMA ReadsLoaders ==
  ASSUME HandoffInv, hpc \in Reading, NEW name \in ReadFields
  PROVE  At(name) = IF name \in valid THEN name ELSE Junk
<1>1. mboot_info_ptr = ebx
  BY Parameters DEF Running
<1>2. info = Layout(valid)
  BY HandoffPoints DEF HandoffInv, Loaded, ReadFields
<1> QED  BY <1>1, <1>2, FieldFound DEF At

LEMMA StepRead == HandoffInv /\ (ReadField \/ PagingInit) => HandoffInv'
<1> SUFFICES ASSUME HandoffInv, ReadField \/ PagingInit PROVE HandoffInv'
  OBVIOUS
<1>1. PICK name \in ReadFields :
        /\ hpc \in Reading /\ hpc' \in Reading
        /\ seen' = seen \cup {<<name, At(name)>>}
        /\ UNCHANGED <<loader, valid, info, mode, eax, ebx, esp, stack, initial_esp>>
  <2>1. CASE ReadField
    BY <2>1, HandoffPoints DEF ReadField
  <2>2. CASE PagingInit
    BY <2>2, HandoffPoints DEF PagingInit, ReadFields
  <2> QED  BY <2>1, <2>2
<1>2. At(name) = IF name \in valid THEN name ELSE Junk
  BY <1>1, ReadsLoaders
<1>3. hpc # "load" /\ hpc' # "load" /\ hpc' # "panic" /\ hpc' \in Running /\ hpc \in Running
  BY <1>1, HandoffPoints DEF ReadFields, Running
<1>4. Stacked'
  BY <1>1, <1>3, HandoffPoints DEF HandoffInv, Stacked, Pushed, Running, ReadFields
<1>5. Loaded'
  BY <1>1, <1>3 DEF HandoffInv, Loaded
<1>6. \A s \in seen' : \E f \in ReadFields : s = <<f, IF f \in valid' THEN f ELSE Junk>>
  BY <1>1, <1>2 DEF HandoffInv
<1> QED  BY <1>1, <1>3, <1>4, <1>5, <1>6 DEF HandoffInv

LEMMA HandoffInvariant == HandoffSpec => []HandoffInv
<1>1. HandoffInv /\ [HandoffNext]_handoffVars => HandoffInv'
  <2>1. HandoffInv /\ UNCHANGED handoffVars => HandoffInv'
    BY ZenonT(40) DEF handoffVars, HandoffInv, Stacked, Pushed, Loaded
  <2> QED  BY <2>1, StepLoad, StepLoadForeign, StepStart, StepEntryPoint, StepKmain,
              StepCheckMagic, StepRead DEF HandoffNext
<1> QED  BY <1>1, HandoffStarts, PTL DEF HandoffSpec

(* Whatever the magic numbers and the width of a word, a Multiboot loader  *)
(* takes the header, and the display is in the mode the console writes to. *)
THEOREM LoaderServes == HandoffSpec => []HeaderServes
<1>1. HandoffInv => HeaderServes
  <2> SUFFICES ASSUME HandoffInv PROVE HeaderServes
    OBVIOUS
  <2>1. hpc # "refused"
    BY HandoffPoints DEF HandoffInv, Entering, Running, ReadFields
  <2>2. hpc # "load" /\ loader = "multiboot" => mode = "text"
    BY DEF HandoffInv, Loaded, VideoMode
  <2>3. hpc \in {"kmain", "check"} \cup Reading => hpc # "load"
    BY HandoffPoints DEF ReadFields
  <2> QED  BY <2>1, <2>2, <2>3 DEF HeaderServes
<1> QED  BY <1>1, HandoffInvariant, PTL

(* kmain() gets what the entry point was given, and goes on only under a   *)
(* Multiboot loader.                                                       *)
THEOREM KmainGetsItsParameters == HandoffSpec => []ParametersArrive
<1>1. HandoffInv => ParametersArrive
  <2> SUFFICES ASSUME HandoffInv PROVE ParametersArrive
    OBVIOUS
  <2>1. hpc \in {"kmain", "check"} \cup Reading =>
          mboot_info_ptr = ebx /\ magic = eax /\ initial_stack = Top
    BY Parameters DEF Running
  <2> QED  BY <2>1 DEF HandoffInv, ParametersArrive
<1> QED  BY <1>1, HandoffInvariant, PTL

(* The structure as the kernel declares it and as the loader fills it      *)
(* agree on every field the kernel reads.                                  *)
THEOREM FieldsAgree == HandoffSpec => []FieldsAreTheLoaders
<1>1. HandoffInv => FieldsAreTheLoaders
  <2> SUFFICES ASSUME HandoffInv, NEW s \in seen
               PROVE  s[2] = IF s[1] \in valid \cup MemFields THEN s[1] ELSE Junk
    BY DEF FieldsAreTheLoaders
  <2>1. PICK name \in ReadFields : s = <<name, IF name \in valid THEN name ELSE Junk>>
    BY DEF HandoffInv
  <2>2. hpc \in Reading
    BY DEF HandoffInv
  <2>3. MemFields \subseteq valid
    BY <2>2, HandoffPoints DEF HandoffInv, Loaded, ReadFields
  <2> QED  BY <2>1, <2>3
<1> QED  BY <1>1, HandoffInvariant, PTL
=============================================================================
