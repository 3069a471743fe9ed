----------------------------- MODULE Interrupts -----------------------------
(***************************************************************************)
(* The boot of the kernel and its interrupt subsystem.  Three parties      *)
(* share the machine:                                                      *)
(*   - kmain() (kernel/main.c), one action per step that touches the       *)
(*     tables, the chips or the interrupt flag;                            *)
(*   - the interrupt path: the CPU accepting a request, the assembly stubs *)
(*     (arch/x86/kernel/interrupt.asm), irq_handler() and isr_handler()    *)
(*     and the callbacks of the timer and the keyboard;                    *)
(*   - the devices: the PIT, the 8042 keyboard controller and the other    *)
(*     interrupt lines, which act whenever they like.                      *)
(* What is printed on the way belongs to module Console.                   *)
(***************************************************************************)
EXTENDS Pic8259, FiniteSets, Sequences, SequencesExt

CONSTANTS
  Scancodes,     \* the bytes the keyboard may send
  OtherLines,    \* lines other than timer, keyboard and cascade
  MasterMask,    \* lines of the two chips the loader left masked
  SlaveMask,
  EarlyKeys,     \* may keys be typed before kbd_init() has run?
  MaxTicks,      \* bounds on what the devices do
  MaxKeys,
  MaxPulses,
  MaxInputs      \* on keys and requests of other lines together

ASSUME ScancodeAssumption == Scancodes \subseteq 0..255
ASSUME LineAssumption     == OtherLines \subseteq 3..15
ASSUME MaskAssumption     == MasterMask \subseteq Inputs /\ SlaveMask \subseteq Inputs
ASSUME KeyAssumption      == EarlyKeys \in BOOLEAN
ASSUME BoundAssumption    == {MaxTicks, MaxKeys, MaxPulses, MaxInputs} \subseteq Nat

VARIABLES
  kpc,      \* what kmain does next
  cpu,      \* "run", or "fault": an interrupt found no gate, or an iret popped garbage
  ifl,      \* the interrupt flag of EFLAGS
  shadow,   \* sti has just been executed: the next instruction is not interrupted
  frames,   \* the interrupt frames on the kernel stack, innermost first
  gdt,      \* whose descriptor table the CPU uses
  idtr,     \* lidt has been executed
  gates,    \* type byte of every gate of the IDT, 0 when it was never set
  irqtab,   \* numbers with an entry in irq_handlers
  isrtab,   \* numbers with an entry in interrupt_handlers
  paging,   \* the PG bit of cr0
  master, slave,  \* the two 8259A
  pit,      \* what the timer chip expects on port 0x40, or that it counts
  ticks,    \* timer_ticks
  kbq,      \* bytes the keyboard controller holds, the head in port 0x60
  echoed,   \* scancodes kbd_callback() has printed
  typed,    \* history: scancodes sent by the keyboard
  edges,    \* history: periods of the timer, bounded by MaxTicks
  pulses    \* requests of the other lines, bounded by MaxPulses

cpuVars    == <<cpu, ifl, shadow, frames>>
tableVars  == <<gdt, idtr, gates, irqtab, isrtab, paging>>
picVars    == <<master, slave>>
deviceVars == <<pit, ticks, kbq, echoed, typed, edges, pulses>>
vars == <<kpc, cpuVars, tableVars, picVars, deviceVars>>
-----------------------------------------------------------------------------
Lines   == 0..15
Timer   == 0
Kbd     == 1
IRQ0    == 32
IRQ1    == 33
PageFault == 14
Vectors == 0..47 \cup {128}

(* Exceptions with an error code, and the stubs written for one.           *)
ErrorCode == {8} \cup 10..14 \cup {17}
ErrStubs  == {8} \cup 10..14

(* idt_set_gate(): a gate with type byte 0x8E is present and, being an     *)
(* interrupt gate, clears the interrupt flag on entry.                     *)
GateFlags     == 142
Present(flags)       == flags >= 128
InterruptGate(flags) == flags % 16 = 14

Steps == {"magic", "gdt", "idt", "isrs", "pic", "irqs", "sti", "timer",
          "pitcmd", "pitlow", "pithigh", "ticks", "kbd", "paging", "regpf",
          "pgon", "touch", "smashed", "halt", "dead"}
Stages == {"cli", "eoi", "call", "isr", "panic", "sti", "iret"}

Frame == [vec : Vectors, at : Stages, words : {3, 4}, iflag : BOOLEAN]

Init ==
  /\ kpc = "magic" /\ cpu = "run" /\ ifl = FALSE /\ shadow = FALSE
  /\ frames = <<>>
  /\ gdt = "loader" /\ idtr = FALSE /\ gates = [v \in Vectors |-> 0]
  /\ irqtab = {} /\ isrtab = {} /\ paging = FALSE
  /\ master = [irr |-> {}, isr |-> {}, imr |-> MasterMask, base |-> 8,   icw |-> "ready"]
  /\ slave  = [irr |-> {}, isr |-> {}, imr |-> SlaveMask,  base |-> 112, icw |-> "ready"]
  /\ pit = "counting" /\ ticks = 0
  /\ kbq = <<>> /\ echoed = <<>> /\ typed = <<>> /\ edges = 0 /\ pulses = 0
-----------------------------------------------------------------------------
(* kmain() runs when no interrupt frame is on the stack.                   *)
Kmain(from, to) == cpu = "run" /\ frames = <<>> /\ kpc = from /\ kpc' = to

(* Without a Multiboot loader kmain panics before it has enabled anything. *)
CheckMagic ==
  /\ \/ Kmain("magic", "gdt")
     \/ Kmain("magic", "dead")
  /\ UNCHANGED <<cpuVars, tableVars, picVars, deviceVars>>

GdtInit ==
  /\ Kmain("gdt", "idt")
  /\ gdt' = "kernel"
  /\ UNCHANGED <<cpuVars, idtr, gates, irqtab, isrtab, paging, picVars, deviceVars>>

InitIdt ==
  /\ Kmain("idt", "isrs")
  /\ idtr' = TRUE
  /\ UNCHANGED <<cpuVars, gdt, gates, irqtab, isrtab, paging, picVars, deviceVars>>

SetGates(S) == gates' = [v \in Vectors |-> IF v \in S THEN GateFlags ELSE gates[v]]

IsrInstall ==
  /\ Kmain("isrs", "pic")
  /\ SetGates(0..31 \cup {128})
  /\ UNCHANGED <<cpuVars, gdt, idtr, irqtab, isrtab, paging, picVars, deviceVars>>

(* Definitions marked "seeded" are deliberate faults.  No specification     *)
(* uses them: they take the place of the definition that follows, to show  *)
(* that a property notices.                                                *)

(* Seeded: the sequence stops after ICW3.                                  *)
RemappedCutShort(chip, base, icw3) == Data(Data(Command(chip, ICW1), base), icw3)

(* Seeded: the mask is read back when ICW1 has cleared it.                 *)
RemappedUnmasked(chip, base, icw3) ==
  Data(Data(Data(Data(Command(chip, ICW1), base), icw3), 1), Command(chip, ICW1).imr)

(* pic_remap() on one chip: save the mask, ICW1 to ICW4, restore the mask. *)
Remapped(chip, base, icw3) ==
  Data(Data(Data(Data(Command(chip, ICW1), base), icw3), 1), chip.imr)

PicRemap ==
  /\ Kmain("pic", "irqs")
  /\ master' = Remapped(master, 32, {Cascade})
  /\ slave'  = Remapped(slave, 40, Cascade)
  /\ UNCHANGED <<cpuVars, tableVars, deviceVars>>

(* Seeded: the gates of the slave are forgotten.                           *)
IrqInstallMasterOnly ==
  /\ Kmain("irqs", "sti")
  /\ SetGates(32..39)
  /\ UNCHANGED <<cpuVars, gdt, idtr, irqtab, isrtab, paging, picVars, deviceVars>>

IrqInstall ==
  /\ Kmain("irqs", "sti")
  /\ SetGates(32..47)
  /\ UNCHANGED <<cpuVars, gdt, idtr, irqtab, isrtab, paging, picVars, deviceVars>>

(* Seeded: the sti is missing.                                             *)
EnableNothing ==
  /\ Kmain("sti", "timer")
  /\ UNCHANGED <<cpuVars, tableVars, picVars, deviceVars>>

EnableInterrupts ==
  /\ Kmain("sti", "timer")
  /\ ifl' = TRUE
  /\ UNCHANGED <<cpu, shadow, frames, tableVars, picVars, deviceVars>>

RegisterIrqHandler(n) == irqtab' = irqtab \cup {n}

(* timer_init(): the handler, then command, low and high byte of the       *)
(* divisor.  The command stops the counter and raises its output, which    *)
(* is one more edge when the output was low; it counts again once both     *)
(* bytes are there.                                                        *)
TimerRegister ==
  /\ Kmain("timer", "pitcmd")
  /\ RegisterIrqHandler(IRQ0)
  /\ UNCHANGED <<cpuVars, gdt, idtr, gates, isrtab, paging, picVars, deviceVars>>

PitCommand ==
  /\ Kmain("pitcmd", "pitlow")
  /\ pit' = "low"
  /\ \/ UNCHANGED <<master, edges>>
     \/ /\ edges < MaxTicks
        /\ master' = Latch(master, Timer) /\ edges' = edges + 1
  /\ UNCHANGED <<cpuVars, tableVars, slave, ticks, kbq, echoed, typed, pulses>>

PitLow ==
  /\ Kmain("pitlow", "pithigh")
  /\ pit' = "high"
  /\ UNCHANGED <<cpuVars, tableVars, picVars, ticks, kbq, echoed, typed, edges, pulses>>

PitHigh ==
  /\ Kmain("pithigh", "ticks")
  /\ pit' = "counting"
  /\ UNCHANGED <<cpuVars, tableVars, picVars, ticks, kbq, echoed, typed, edges, pulses>>

(* print_timer_ticks(): a delay loop, then the clock is printed.           *)
PrintTicks ==
  /\ Kmain("ticks", "kbd")
  /\ UNCHANGED <<cpuVars, tableVars, picVars, deviceVars>>

KbdInit ==
  /\ Kmain("kbd", "paging")
  /\ RegisterIrqHandler(IRQ1)
  /\ UNCHANGED <<cpuVars, gdt, idtr, gates, isrtab, paging, picVars, deviceVars>>

(* paging_init() up to the registration: the frame bitmap and the tables.  *)
PagingBuild ==
  /\ Kmain("paging", "regpf")
  /\ UNCHANGED <<cpuVars, tableVars, picVars, deviceVars>>

(* Seeded: the handler is not registered.                                  *)
RegisterNoPageFault ==
  /\ Kmain("regpf", "pgon")
  /\ UNCHANGED <<cpuVars, tableVars, picVars, deviceVars>>

RegisterPageFault ==
  /\ Kmain("regpf", "pgon")
  /\ isrtab' = isrtab \cup {PageFault}
  /\ UNCHANGED <<cpuVars, gdt, idtr, gates, irqtab, paging, picVars, deviceVars>>

(* Loads cr3 and sets PG.  The loop that filled the frame bitmap with 0xFF *)
(* ran past its end over the frame of paging_init(): depending on where    *)
(* the stack lies it either jumped over the return address or left it      *)
(* 0xFFFFFFFF.                                                             *)
EnablePaging ==
  /\ \/ Kmain("pgon", "touch")
     \/ Kmain("pgon", "smashed")
  /\ paging' = TRUE
  /\ UNCHANGED <<cpuVars, gdt, idtr, gates, irqtab, isrtab, picVars, deviceVars>>
-----------------------------------------------------------------------------
Top == Head(frames)
Goto(stage) == frames' = <<[Top EXCEPT !.at = stage]>> \o Tail(frames)

(* The CPU enters the gate of a vector: it pushes EFLAGS, CS, EIP and, for *)
(* some exceptions, an error code.                                         *)
Enter(vec, words) ==
  IF vec \in Vectors /\ gdt = "kernel" /\ idtr /\ Present(gates[vec])
  THEN /\ frames' = <<[vec |-> vec, at |-> "cli", words |-> words, iflag |-> ifl]>> \o frames
       /\ ifl' = (ifl /\ ~InterruptGate(gates[vec]))
       /\ UNCHANGED <<cpu, shadow>>
  ELSE cpu' = "fault" /\ UNCHANGED <<ifl, shadow, frames>>

Exception(vec) == Enter(vec, IF vec \in ErrorCode THEN 4 ELSE 3)

(* The read of 0x400000, or the return to 0xFFFFFFFF.  A handler that      *)
(* returned would restart the instruction.                                 *)
TouchUnmapped ==
  /\ cpu = "run" /\ frames = <<>> /\ kpc \in {"touch", "smashed"}
  /\ IF paging
     THEN Exception(PageFault) /\ UNCHANGED kpc
     ELSE kpc' = "halt" /\ UNCHANGED cpuVars
  /\ UNCHANGED <<tableVars, picVars, deviceVars>>

(* An instruction boundary at which the CPU takes a request.               *)
Window == cpu = "run" /\ ifl /\ ~shadow

SlaveRequests  == Eligible(slave, slave.irr)
MasterRequests ==
  Eligible(master, master.irr \cup IF SlaveRequests # {} THEN {Cascade} ELSE {})

MasterInterrupt ==
  /\ Window /\ MasterRequests # {}
  /\ LET i == Min(MasterRequests)
     IN /\ i # Cascade
        /\ master' = Acknowledge(master, i)
        /\ Enter(master.base + i, 3)
  /\ UNCHANGED <<kpc, tableVars, slave, deviceVars>>

SlaveInterrupt ==
  /\ Window /\ MasterRequests # {} /\ Min(MasterRequests) = Cascade
  /\ SlaveRequests # {}
  /\ LET j == Min(SlaveRequests)
     IN /\ master' = Acknowledge(master, Cascade)
        /\ slave' = Acknowledge(slave, j)
        /\ Enter(slave.base + j, 3)
  /\ UNCHANGED <<kpc, tableVars, deviceVars>>

(* The request is gone when the CPU asks for it: the output of the PIT has *)
(* fallen again, or a device has withdrawn it.  The keyboard keeps its     *)
(* line up until port 0x60 is read.                                        *)
SpuriousMaster ==
  /\ Window /\ MasterRequests # {}
  /\ LET i == Min(MasterRequests)
     IN /\ i \notin {Kbd, Cascade}
        /\ master' = Withdraw(master, i)
  /\ Enter(master.base + SpuriousInput, 3)
  /\ UNCHANGED <<kpc, tableVars, slave, deviceVars>>

(* The slave asked the master, which is left with the cascade in service.  *)
SpuriousSlave ==
  /\ Window /\ MasterRequests # {} /\ Min(MasterRequests) = Cascade
  /\ SlaveRequests # {}
  /\ master' = Acknowledge(master, Cascade)
  /\ slave' = Withdraw(slave, Min(SlaveRequests))
  /\ Enter(slave.base + SpuriousInput, 3)
  /\ UNCHANGED <<kpc, tableVars, deviceVars>>

Accept == MasterInterrupt \/ SlaveInterrupt \/ SpuriousMaster \/ SpuriousSlave
-----------------------------------------------------------------------------
(* The code behind a gate, one action per stage of the innermost frame.    *)
Handler(stage) == cpu = "run" /\ frames # <<>> /\ Top.at = stage

IsIrq(vec) == vec \in 32..47

(* Both stubs start with cli and push what the CPU did not.                *)
StubEntry ==
  /\ Handler("cli")
  /\ ifl' = FALSE
  /\ Goto(IF IsIrq(Top.vec) THEN "eoi" ELSE "isr")
  /\ UNCHANGED <<kpc, cpu, shadow, tableVars, picVars, deviceVars>>

(* Seeded: the EOI goes to the slave or to the master, to the master only, *)
(* or is followed by an sti.                                               *)
PicAcknowledgeOne ==
  /\ Handler("eoi")
  /\ IF Top.vec >= 40
     THEN slave' = Command(slave, PIC_EOI) /\ UNCHANGED master
     ELSE master' = Command(master, PIC_EOI) /\ UNCHANGED slave
  /\ Goto("call")
  /\ UNCHANGED <<kpc, cpu, ifl, shadow, tableVars, deviceVars>>
PicAcknowledgeMaster ==
  /\ Handler("eoi")
  /\ master' = Command(master, PIC_EOI)
  /\ Goto("call")
  /\ UNCHANGED <<kpc, cpu, ifl, shadow, tableVars, slave, deviceVars>>
PicAcknowledgeThenSti ==
  /\ Handler("eoi")
  /\ slave' = IF Top.vec >= 40 THEN Command(slave, PIC_EOI) ELSE slave
  /\ master' = Command(master, PIC_EOI)
  /\ ifl' = TRUE
  /\ Goto("call")
  /\ UNCHANGED <<kpc, cpu, shadow, tableVars, deviceVars>>

(* irq_handler() acknowledges before it calls the callback: the slave when *)
(* the interrupt came through it, the master always.                       *)
PicAcknowledge ==
  /\ Handler("eoi")
  /\ slave' = IF Top.vec >= 40 THEN Command(slave, PIC_EOI) ELSE slave
  /\ master' = Command(master, PIC_EOI)
  /\ Goto("call")
  /\ UNCHANGED <<kpc, cpu, ifl, shadow, tableVars, deviceVars>>

(* Seeded: the tick is counted in the callback and once more by its caller.*)
TimerCallbackTwice ==
  /\ Handler("call") /\ Top.vec = IRQ0 /\ IRQ0 \in irqtab
  /\ ticks' = ticks + 2
  /\ Goto("sti")
  /\ UNCHANGED <<kpc, cpu, ifl, shadow, tableVars, picVars,
                 pit, kbq, echoed, typed, edges, pulses>>

(* timer_callback()                                                        *)
TimerCallback ==
  /\ Handler("call") /\ Top.vec = IRQ0 /\ IRQ0 \in irqtab
  /\ ticks' = ticks + 1
  /\ Goto("sti")
  /\ UNCHANGED <<kpc, cpu, ifl, shadow, tableVars, picVars,
                 pit, kbq, echoed, typed, edges, pulses>>

(* kbd_callback(): read port 0x60 and print the key unless it is a release.*)
(* Once the byte is read the controller offers the next one, with a new    *)
(* edge; an empty controller would answer any stale byte.                  *)
Released(scancode) == scancode >= 128

(* Seeded: port 0x60 is not read, or read once to test the byte and once   *)
(* more to print it.                                                       *)
KbdCallbackNoRead ==
  /\ Handler("call") /\ Top.vec = IRQ1 /\ IRQ1 \in irqtab
  /\ Goto("sti")
  /\ UNCHANGED <<kpc, cpu, ifl, shadow, tableVars, picVars, deviceVars>>
KbdCallbackReadsTwice ==
  /\ Handler("call") /\ Top.vec = IRQ1 /\ IRQ1 \in irqtab
  /\ kbq # <<>>
  /\ LET rest == Tail(kbq)
     IN /\ echoed' = IF Released(Head(kbq)) THEN echoed
                     ELSE Append(echoed, Head(IF rest = <<>> THEN kbq ELSE rest))
        /\ kbq' = IF rest = <<>> THEN rest ELSE Tail(rest)
        /\ master' = IF rest # <<>> THEN Latch(master, Kbd) ELSE master
  /\ Goto("sti")
  /\ UNCHANGED <<kpc, cpu, ifl, shadow, tableVars, slave,
                 pit, ticks, typed, edges, pulses>>

KbdCallback ==
  /\ Handler("call") /\ Top.vec = IRQ1 /\ IRQ1 \in irqtab
  /\ \E scancode \in IF kbq = <<>> THEN Scancodes ELSE {Head(kbq)} :
       echoed' = IF Released(scancode) THEN echoed ELSE Append(echoed, scancode)
  /\ kbq' = IF kbq = <<>> THEN kbq ELSE Tail(kbq)
  /\ master' = IF Len(kbq) > 1 THEN Latch(master, Kbd) ELSE master
  /\ Goto("sti")
  /\ UNCHANGED <<kpc, cpu, ifl, shadow, tableVars, slave,
                 pit, ticks, typed, edges, pulses>>

(* irq_handler() finds no callback for this line.                          *)
NoCallback ==
  /\ Handler("call") /\ Top.vec \notin irqtab
  /\ Goto("sti")
  /\ UNCHANGED <<kpc, cpu, ifl, shadow, tableVars, picVars, deviceVars>>

(* Seeded: the loop of the panic lets interrupts in, as "sti; hlt" would.  *)
IsrHandlerStiHlt ==
  /\ Handler("isr")
  /\ Goto(IF Top.vec \in isrtab THEN "panic" ELSE "sti")
  /\ ifl' = TRUE
  /\ UNCHANGED <<kpc, cpu, shadow, tableVars, picVars, deviceVars>>

(* isr_handler(): page_fault_callback() panics, an exception without a     *)
(* handler is reported and returns.                                        *)
IsrHandler ==
  /\ Handler("isr")
  /\ Goto(IF Top.vec \in isrtab THEN "panic" ELSE "sti")
  /\ UNCHANGED <<kpc, cpu, ifl, shadow, tableVars, picVars, deviceVars>>

(* The tail of the stubs: sti, and the iret that its shadow still covers.  *)
StubSti ==
  /\ Handler("sti")
  /\ ifl' = TRUE /\ shadow' = TRUE
  /\ Goto("iret")
  /\ UNCHANGED <<kpc, cpu, tableVars, picVars, deviceVars>>

(* add esp, 8 drops two words; iret needs exactly EIP, CS and EFLAGS left. *)
Leftover(frame) ==
  frame.words + (IF frame.vec \in ErrStubs THEN 1 ELSE 2) - 2

Iret ==
  /\ Handler("iret")
  /\ IF Leftover(Top) = 3
     THEN /\ frames' = Tail(frames)
          /\ ifl' = Top.iflag /\ shadow' = FALSE
          /\ UNCHANGED cpu
     ELSE cpu' = "fault" /\ UNCHANGED <<ifl, shadow, frames>>
  /\ UNCHANGED <<kpc, tableVars, picVars, deviceVars>>
-----------------------------------------------------------------------------
(* The devices.                                                            *)
PitEdge ==
  /\ pit = "counting" /\ edges < MaxTicks
  /\ master' = Latch(master, Timer)
  /\ edges' = edges + 1
  /\ UNCHANGED <<kpc, cpuVars, tableVars, slave, pit, ticks, kbq, echoed, typed, pulses>>

(* A byte raises the line only when port 0x60 was empty.                   *)
KeyTyped ==
  /\ Len(typed) < MaxKeys /\ Len(typed) + pulses < MaxInputs
  /\ EarlyKeys \/ IRQ1 \in irqtab
  /\ \E c \in Scancodes : typed' = Append(typed, c) /\ kbq' = Append(kbq, c)
  /\ master' = IF kbq = <<>> THEN Latch(master, Kbd) ELSE master
  /\ UNCHANGED <<kpc, cpuVars, tableVars, slave, pit, ticks, echoed, edges, pulses>>

Pulse ==
  /\ pulses < MaxPulses /\ Len(typed) + pulses < MaxInputs
  /\ \E l \in OtherLines :
       IF l < 8 THEN master' = Latch(master, l) /\ UNCHANGED slave
                ELSE slave' = Latch(slave, l - 8) /\ UNCHANGED master
  /\ pulses' = pulses + 1
  /\ UNCHANGED <<kpc, cpuVars, tableVars, pit, ticks, kbq, echoed, typed, edges>>
-----------------------------------------------------------------------------
KmainStep ==
  \/ CheckMagic \/ GdtInit \/ InitIdt \/ IsrInstall \/ PicRemap \/ IrqInstall
  \/ EnableInterrupts \/ TimerRegister \/ PitCommand \/ PitLow \/ PitHigh
  \/ PrintTicks \/ KbdInit \/ PagingBuild \/ RegisterPageFault \/ EnablePaging
  \/ TouchUnmapped

HandlerStep ==
  \/ StubEntry \/ PicAcknowledge \/ TimerCallback \/ KbdCallback \/ NoCallback
  \/ IsrHandler \/ StubSti \/ Iret

Device == PitEdge \/ KeyTyped \/ Pulse

Next == KmainStep \/ Accept \/ HandlerStep \/ Device

Spec == Init /\ [][Next]_vars

(* The CPU executes handlers and takes requests; nothing is assumed of the *)
(* devices, nor of how long kmain stays between two of its steps.          *)
IrqFairSpec == Spec /\ WF_vars(HandlerStep) /\ WF_vars(Accept)
-----------------------------------------------------------------------------
Chips == [irr : SUBSET Inputs, isr : SUBSET Inputs, imr : SUBSET Inputs,
          base : Nat, icw : {"ready"}]

TypeOK ==
  /\ kpc \in Steps /\ cpu \in {"run", "fault"}
  /\ ifl \in BOOLEAN /\ shadow \in BOOLEAN
  /\ frames \in Seq(Frame)
  /\ gdt \in {"loader", "kernel"} /\ idtr \in BOOLEAN
  /\ gates \in [Vectors -> 0..255]
  /\ irqtab \subseteq Vectors /\ isrtab \subseteq Vectors /\ paging \in BOOLEAN
  /\ master \in Chips /\ slave \in Chips
  /\ pit \in {"counting", "low", "high"} /\ ticks \in Nat
  /\ kbq \in Seq(Scancodes) /\ echoed \in Seq(Scancodes) /\ typed \in Seq(Scancodes)
  /\ edges \in 0..MaxTicks /\ pulses \in 0..MaxPulses

(* No interrupt or exception ever meets a missing descriptor table or gate,*)
(* and every iret finds the stack as the CPU left it: the order of         *)
(* gdt_init(), irq_init() and sti in kmain, the vectors of pic_remap() and *)
(* the error-code variants of the stubs fit together.                      *)
NeverFaults == cpu = "run"

(* A handler is never interrupted, so one frame is the most the 8 KB       *)
(* kernel stack holds: the gates and cli close the window, and the sti     *)
(* before iret does not reopen it.                                         *)
NoNesting == Len(frames) <= 1

(* The chips hold in service exactly the request whose handler has not     *)
(* sent its EOI yet.  A spurious interrupt 7 or 15 holds nothing of its    *)
(* own, and its EOI retires nobody else's request.                         *)
InServiceOwned ==
  IF frames # <<>> /\ Top.at \in {"cli", "eoi"} /\ IsIrq(Top.vec)
  THEN IF Top.vec < 40
       THEN /\ slave.isr = {}
            /\ master.isr = {Top.vec - 32} \/ (Top.vec = 39 /\ master.isr = {})
       ELSE /\ master.isr = {Cascade}
            /\ slave.isr = {Top.vec - 40} \/ (Top.vec = 47 /\ slave.isr = {})
  ELSE master.isr = {} /\ slave.isr = {}

(* From sti on kmain always runs with interrupts enabled: whatever         *)
(* interrupts it, the iret gives it back the flag it had.                  *)
BeforeSti == {"magic", "gdt", "idt", "isrs", "pic", "irqs", "sti", "dead"}
InterruptsStayOn == frames = <<>> => (ifl <=> kpc \notin BeforeSti)

(* pic_remap() leaves masked exactly the lines the loader had masked.      *)
MasksKept == master.imr = MasterMask /\ slave.imr = SlaveMask

(* A period of the timer is counted at most once: the tick in the request  *)
(* register and the one on its way to timer_callback() are still to come.  *)
InFlight(vec) == frames # <<>> /\ Top.vec = vec /\ Top.at \in {"cli", "eoi", "call"}
Count(condition) == IF condition THEN 1 ELSE 0
NoPhantomTicks ==
  ticks + Count(Timer \in master.irr) + Count(InFlight(IRQ0)) <= edges

(* What kbd_callback() has printed is what was typed, in order, without    *)
(* loss or repetition, up to the bytes the controller still holds.         *)
Pressed(s) ==
  LET kept[i \in 0..Len(s)] ==
        IF i = 0 THEN <<>>
        ELSE IF Released(s[i]) THEN kept[i - 1] ELSE Append(kept[i - 1], s[i])
  IN kept[Len(s)]
KeysInOrder == Pressed(typed) = echoed \o Pressed(kbq)

(* A keyboard interrupt always finds its byte in port 0x60.                *)
KbdHasByte == (Kbd \in master.irr \/ InFlight(IRQ1)) => kbq # <<>>

(* With kbd_init() done, a byte in port 0x60 is on its way to              *)
(* kbd_callback(): "if you hold a key down, you will get repeated key      *)
(* press interrupts" (kernel/keyboard.c:69).                               *)
KbdNotStuck ==
  IRQ1 \in irqtab /\ kbq # <<>> => Kbd \in master.irr \/ InFlight(IRQ1)

(* The panic of page_fault_callback() is the end: nothing runs after it.   *)
Panicked == frames # <<>> /\ Top.at = "panic"
PanicIsFinal == [][Panicked => UNCHANGED <<kpc, cpuVars, ticks, echoed>>]_vars

(* kmain, if only it gets the CPU whenever no handler has it, always gets  *)
(* to the deliberate page fault (or to the panic over the missing loader), *)
(* however the interrupts fall.                                            *)
BootEnds == WF_vars(KmainStep) => <>(Panicked \/ kpc = "dead")

(* Once kbd_init() has run, the keyboard controller is always emptied.     *)
KeysDrained ==
  Kbd \notin MasterMask => (IRQ1 \in irqtab /\ kbq # <<>> ~> kbq = <<>> \/ Panicked)
-----------------------------------------------------------------------------
(* The service the subsystem gives to the lines.  A frame serves the line  *)
(* whose stub it runs, which a spurious request shares.                    *)
Requested(l) == IF l < 8 THEN l \in master.irr ELSE l - 8 \in slave.irr
Waiting == {l \in Lines : Requested(l)}
Served  == {l \in Lines : \E i \in DOMAIN frames : frames[i].vec = l + 32}

Service == INSTANCE IrqService WITH
  SpuriousLines <- {7, 15},
  open <- kpc \notin BeforeSti,
  requested <- Waiting,
  serving <- Served

(* The controllers, the stubs and the stack implement IrqService.          *)
ServesRequests == Service!Spec

(* Once interrupts are enabled every request of an unmasked line leaves    *)
(* the request register, wherever kmain happens to be, and the handler it  *)
(* starts comes to its end.                                                *)
Unmasked(l) == IF l < 8 THEN l \notin MasterMask
                        ELSE l - 8 \notin SlaveMask /\ Cascade \notin MasterMask
RequestsServed ==
  /\ \A l \in Lines : Unmasked(l) =>
       (ifl /\ Requested(l) ~> ~Requested(l) \/ Panicked)
  /\ Service!HandlersEnd
=============================================================================
