-------------------------- MODULE InterruptsProofs --------------------------
(***************************************************************************)
(* Safety of the interrupt subsystem for every set of lines, masks and     *)
(* bounds: first the core invariant of the chips and the handlers; then,   *)
(* on top of it, type correctness, what the subsystem does with the        *)
(* requests of the timer and the keyboard, and that it implements          *)
(* IrqService.                                                             *)
(***************************************************************************)
EXTENDS Interrupts, Induction, TLAPS

LEMMA MinInput ==
  ASSUME NEW S, S \subseteq Inputs, S # {}
  PROVE  Min(S) \in S
<1>1. \E x \in S : \A y \in S : x =< y
  <2>0. PICK e \in S : e \in 0..7  BY DEF Inputs
  <2>1. S \subseteq 0..7  BY DEF Inputs
  <2>2. CASE 0 \in S  BY <2>1, <2>2
  <2>3. CASE 0 \notin S /\ 1 \in S  BY <2>1, <2>3
  <2>4. CASE 0 \notin S /\ 1 \notin S /\ 2 \in S  BY <2>1, <2>4
  <2>5. CASE 0 \notin S /\ 1 \notin S /\ 2 \notin S /\ 3 \in S  BY <2>1, <2>5
  <2>6. CASE \A i \in 0..3 : i \notin S
    <3>1. S \subseteq 4..7  BY <2>1, <2>6
    <3>2. CASE 4 \in S  BY <3>1, <3>2
    <3>3. CASE 4 \notin S /\ 5 \in S  BY <3>1, <3>3
    <3>4. CASE 4 \notin S /\ 5 \notin S /\ 6 \in S  BY <3>1, <3>4
    <3>5. CASE S = {7}  BY <3>5
    <3>6. QED BY <2>0, <3>1, <3>2, <3>3, <3>4, <3>5
  <2>7. QED BY <2>2, <2>3, <2>4, <2>5, <2>6
<1>2. QED BY <1>1 DEF Min
-----------------------------------------------------------------------------
(* What the operations on a chip change, and what they leave alone.        *)
LEMMA LatchChip ==
  ASSUME NEW chip \in Chips, NEW i \in Inputs
  PROVE  /\ Latch(chip, i) \in Chips
         /\ Latch(chip, i) = [chip EXCEPT !.irr = chip.irr \cup {i}]
         /\ Latch(chip, i).irr = chip.irr \cup {i}
         /\ Latch(chip, i).isr = chip.isr
         /\ Latch(chip, i).imr = chip.imr
         /\ Latch(chip, i).base = chip.base
BY DEF Latch, Chips

LEMMA AcknowledgeChip ==
  ASSUME NEW chip \in Chips, NEW i \in Inputs
  PROVE  /\ Acknowledge(chip, i) \in Chips
         /\ Acknowledge(chip, i).irr = chip.irr \ {i}
         /\ Acknowledge(chip, i).isr = chip.isr \cup {i}
         /\ Acknowledge(chip, i).imr = chip.imr
         /\ Acknowledge(chip, i).base = chip.base
BY DEF Acknowledge, Chips

LEMMA WithdrawChip ==
  ASSUME NEW chip \in Chips, NEW i \in Inputs
  PROVE  /\ Withdraw(chip, i) \in Chips
         /\ Withdraw(chip, i).irr = chip.irr \ {i}
         /\ Withdraw(chip, i).isr = chip.isr
         /\ Withdraw(chip, i).imr = chip.imr
         /\ Withdraw(chip, i).base = chip.base
BY DEF Withdraw, Chips

(* The EOI of a handler retires the one request in service, or nothing.    *)
LEMMA EoiChip ==
  ASSUME NEW chip \in Chips, NEW i \in Inputs, chip.isr \in {{}, {i}}
  PROVE  /\ Command(chip, PIC_EOI) \in Chips
         /\ Command(chip, PIC_EOI).irr = chip.irr
         /\ Command(chip, PIC_EOI).isr = {}
         /\ Command(chip, PIC_EOI).imr = chip.imr
         /\ Command(chip, PIC_EOI).base = chip.base
<1>1. CASE chip.isr = {}
  BY <1>1 DEF Command, Chips, PIC_EOI, ICW1
<1>2. CASE chip.isr = {i}
  <2>1. Min(chip.isr) \in chip.isr  BY <1>2, MinInput DEF Chips
  <2>2. Command(chip, PIC_EOI) = [chip EXCEPT !.isr = {}]
    BY <1>2, <2>1 DEF Command, Chips, PIC_EOI, ICW1
  <2>3. QED BY <2>2 DEF Chips
<1>3. QED BY <1>1, <1>2

(* pic_remap() moves a chip to its new vectors with nothing requested or   *)
(* in service, and gives it back its mask.                                 *)
LEMMA RemappedChip ==
  ASSUME NEW chip \in Chips, NEW base \in Nat, NEW icw3
  PROVE  /\ Remapped(chip, base, icw3) \in Chips
         /\ Remapped(chip, base, icw3).irr = {}
         /\ Remapped(chip, base, icw3).isr = {}
         /\ Remapped(chip, base, icw3).imr = chip.imr
         /\ Remapped(chip, base, icw3).base = base
<1> DEFINE c1 == Command(chip, ICW1)
           c2 == Data(c1, base)
           c3 == Data(c2, icw3)
           c4 == Data(c3, 1)
           c5 == Data(c4, chip.imr)
<1>1. c1 \in Chip /\ c1.icw = "icw2" /\ c1.irr = {} /\ c1.isr = {}
  <2>1. c1 = [chip EXCEPT !.irr = {}, !.isr = {}, !.imr = {}, !.icw = "icw2"]
    BY DEF Command, ICW1, PIC_EOI
  <2> HIDE DEF c1
  <2>2. QED BY <2>1 DEF Chips, Chip
<1>2. c2 \in Chip /\ c2.icw = "icw3" /\ c2.base = base /\ c2.irr = {} /\ c2.isr = {}
  <2> HIDE DEF c1
  <2> QED BY <1>1 DEF Data, Chip
<1>3. c3 \in Chip /\ c3.icw = "icw4" /\ c3.base = base /\ c3.irr = {} /\ c3.isr = {}
  <2> HIDE DEF c2
  <2> QED BY <1>2 DEF Data, Chip
<1>4. c4 \in Chip /\ c4.icw = "ready" /\ c4.base = base /\ c4.irr = {} /\ c4.isr = {}
  <2> HIDE DEF c3
  <2> QED BY <1>3 DEF Data, Chip
<1>5. c5 \in Chips /\ c5.base = base /\ c5.irr = {} /\ c5.isr = {} /\ c5.imr = chip.imr
  <2> HIDE DEF c4
  <2> QED BY <1>4 DEF Data, Chip, Chips
<1>6. QED BY <1>5 DEF Remapped

LEMMA Requests ==
  ASSUME master \in Chips, slave \in Chips
  PROVE  /\ MasterRequests \subseteq Inputs /\ SlaveRequests \subseteq Inputs
         /\ MasterRequests # {} => Min(MasterRequests) \in MasterRequests
         /\ SlaveRequests # {} => Min(SlaveRequests) \in SlaveRequests
<1>1. SlaveRequests \subseteq Inputs  BY DEF SlaveRequests, Eligible, Chips
<1>2. MasterRequests \subseteq Inputs
  BY DEF MasterRequests, Eligible, Chips, Cascade, Inputs
<1>3. QED BY <1>1, <1>2, MinInput
-----------------------------------------------------------------------------
(* The inductive invariant.  The tables fill up in the order of kmain, so  *)
(* that everything an interrupt needs is there from sti on; there is at    *)
(* most one frame, and it runs with interrupts disabled up to the iret.    *)
Tables ==
  /\ kpc \notin {"magic", "gdt", "dead"} => gdt = "kernel"
  /\ kpc \notin {"magic", "gdt", "idt", "dead"} => idtr
  /\ kpc \notin {"magic", "gdt", "idt", "isrs", "dead"} =>
       \A v \in 0..31 : gates[v] = GateFlags
  /\ kpc \notin {"magic", "gdt", "idt", "isrs", "pic", "dead"} =>
       master.base = 32 /\ slave.base = 40
  /\ kpc \notin {"magic", "gdt", "idt", "isrs", "pic", "irqs", "dead"} =>
       \A v \in 32..47 : gates[v] = GateFlags

FrameOK(f) ==
  /\ f \in Frame /\ f.iflag
  /\ \/ /\ f.vec = PageFault /\ f.words = 4
        /\ f.at \in {"cli", "isr", "panic", "sti", "iret"}
     \/ /\ f.vec \in 32..47 /\ f.words = 3
        /\ f.at \in {"cli", "eoi", "call", "sti", "iret"}
  /\ ifl <=> f.at = "iret"
  /\ shadow <=> f.at = "iret"

Stack ==
  \/ frames = <<>> /\ ~shadow /\ (ifl <=> kpc \notin BeforeSti)
  \/ kpc \notin BeforeSti /\ \E f \in Frame : frames = <<f>> /\ FrameOK(f)

IInv ==
  /\ cpu = "run" /\ kpc \in Steps /\ ifl \in BOOLEAN /\ shadow \in BOOLEAN
  /\ gates \in [Vectors -> 0..255]
  /\ master \in Chips /\ slave \in Chips
  /\ Tables
  /\ Stack
  /\ InServiceOwned
  /\ MasksKept

(* A gate that irq_init() has set lets the CPU in and closes the window.   *)
LEMMA EnterGate ==
  ASSUME NEW vec \in 0..47, NEW words \in {3, 4},
         IInv, kpc \notin BeforeSti, frames = <<>>, ifl, Enter(vec, words)
  PROVE  /\ frames' = <<[vec |-> vec, at |-> "cli", words |-> words, iflag |-> ifl]>>
         /\ ifl' = FALSE /\ UNCHANGED <<cpu, shadow>>
<1>1. gdt = "kernel" /\ idtr
  BY DEF IInv, Tables, BeforeSti
<1>2. gates[vec] = GateFlags
  <2>1. CASE vec \in 0..31  BY <2>1 DEF IInv, Tables, BeforeSti
  <2>2. CASE vec \in 32..47  BY <2>2 DEF IInv, Tables, BeforeSti
  <2>3. QED BY <2>1, <2>2
<1>3. vec \in Vectors /\ Present(gates[vec]) /\ InterruptGate(gates[vec])
  BY <1>2 DEF Vectors, Present, InterruptGate, GateFlags
<1> DEFINE f == [vec |-> vec, at |-> "cli", words |-> words, iflag |-> ifl]
<1>4. frames' = <<f>> \o frames /\ ifl' = (ifl /\ ~InterruptGate(gates[vec]))
      /\ UNCHANGED <<cpu, shadow>>
  BY <1>1, <1>3, Zenon DEF Enter
<1>5. <<f>> \o <<>> = <<f>>
  <2> HIDE DEF f
  <2> QED OBVIOUS
<1>6. QED BY <1>3, <1>4, <1>5

(* A request is only taken from kmain, with everything in place.           *)
LEMMA OpenWindow ==
  ASSUME IInv, Window
  PROVE  /\ frames = <<>> /\ kpc \notin BeforeSti /\ ifl /\ ~shadow
         /\ master.base = 32 /\ slave.base = 40
         /\ master.isr = {} /\ slave.isr = {}
BY DEF IInv, Window, Stack, FrameOK, Tables, BeforeSti, InServiceOwned

(* A new frame satisfies the invariant when its request is in service.     *)
LEMMA NewFrame ==
  ASSUME IInv, Window, NEW vec \in 32..47, Enter(vec, 3),
         UNCHANGED <<kpc, tableVars>>,
         master' \in Chips, slave' \in Chips,
         master'.imr = master.imr, master'.base = master.base,
         slave'.imr = slave.imr, slave'.base = slave.base,
         \/ /\ vec < 40 /\ slave'.isr = {}
            /\ master'.isr = {vec - 32} \/ (vec = 39 /\ master'.isr = {})
         \/ /\ vec >= 40 /\ master'.isr = {Cascade}
            /\ slave'.isr = {vec - 40} \/ (vec = 47 /\ slave'.isr = {})
  PROVE  IInv'
<1>1. /\ frames' = <<[vec |-> vec, at |-> "cli", words |-> 3, iflag |-> ifl]>>
      /\ ifl' = FALSE /\ UNCHANGED <<cpu, shadow>> /\ ifl /\ ~shadow
  <2>1. vec \in 0..47 /\ frames = <<>> /\ kpc \notin BeforeSti /\ ifl /\ ~shadow
    BY OpenWindow
  <2>2. QED BY <2>1, EnterGate
<1> DEFINE f == [vec |-> vec, at |-> "cli", words |-> 3, iflag |-> TRUE]
<1>2. frames' = <<f>> /\ f \in Frame /\ f.vec = vec /\ f.at = "cli"
      /\ f.words = 3 /\ f.iflag = TRUE
  BY <1>1, SMTT(30) DEF IInv, Frame, Vectors, Stages
<1> HIDE DEF f
<1>3. Stack'
  BY <1>1, <1>2, OpenWindow DEF Stack, FrameOK
<1>4. InServiceOwned'
  <2>1. frames' # <<>> /\ Top' = f  BY <1>2 DEF Top
  <2>2. IsIrq(f.vec)  BY <1>2 DEF IsIrq
  <2>3. QED BY <1>2, <2>1, <2>2 DEF InServiceOwned
<1>5. QED BY <1>1, <1>3, <1>4, ZenonT(40) DEF IInv, Tables, MasksKept, tableVars

(* The next stage of a handler keeps the rest of its frame.                *)
LEMMA NextStage ==
  ASSUME IInv, NEW stage, Handler(stage)
  PROVE  \E f \in Frame :
           /\ frames = <<f>> /\ Top = f /\ f.at = stage /\ FrameOK(f)
           /\ kpc \notin BeforeSti
           /\ Tail(frames) = <<>>
           /\ \A to : Goto(to) => frames' = <<[f EXCEPT !.at = to]>>
<1>1. PICK f \in Frame : frames = <<f>> /\ FrameOK(f) /\ kpc \notin BeforeSti
  BY DEF IInv, Stack, Handler
<1>2. Top = f /\ Tail(frames) = <<>> /\ f.at = stage
  BY <1>1 DEF Top, Handler
<1>3. ASSUME NEW to, Goto(to) PROVE frames' = <<[f EXCEPT !.at = to]>>
  <2> DEFINE g == [f EXCEPT !.at = to]
  <2>1. frames' = <<g>> \o <<>>  BY <1>2, <1>3 DEF Goto
  <2> HIDE DEF g
  <2>2. <<g>> \o <<>> = <<g>>  OBVIOUS
  <2>3. frames' = <<g>>  BY <2>1, <2>2
  <2>4. QED BY <2>3 DEF g
<1>4. QED BY <1>1, <1>2, <1>3

(* A stage that changes neither the chips nor the tables keeps the         *)
(* invariant when the flags fit the stage it leads to.                     *)
LEMMA StageKeepsInv ==
  ASSUME IInv, NEW from, NEW to \in Stages, Handler(from), Goto(to),
         UNCHANGED <<kpc, cpu, tableVars>>,
         master' \in Chips, slave' \in Chips,
         master'.imr = master.imr, master'.base = master.base,
         slave'.imr = slave.imr, slave'.base = slave.base,
         IF Top.vec = PageFault
         THEN to \in {"cli", "isr", "panic", "sti", "iret"}
         ELSE to \in {"cli", "eoi", "call", "sti", "iret"},
         ifl' \in BOOLEAN, ifl' <=> to = "iret",
         shadow' \in BOOLEAN, shadow' <=> to = "iret",
         IF to \in {"cli", "eoi"}
         THEN master'.isr = master.isr /\ slave'.isr = slave.isr /\ from \in {"cli", "eoi"}
         ELSE master'.isr = {} /\ slave'.isr = {}
  PROVE  IInv'
<1>1. PICK f \in Frame :
        /\ frames = <<f>> /\ Top = f /\ f.at = from /\ FrameOK(f)
        /\ kpc \notin BeforeSti
        /\ frames' = <<[f EXCEPT !.at = to]>>
  BY NextStage
<1> DEFINE g == [f EXCEPT !.at = to]
<1>2. g \in Frame /\ g.at = to /\ g.vec = f.vec /\ g.words = f.words /\ g.iflag = f.iflag
  BY <1>1 DEF Frame
<1>3. frames' = <<g>>  BY <1>1
<1> HIDE DEF g
<1>4. Top' = g /\ frames' # <<>>  BY <1>3 DEF Top
<1>5. FrameOK(g)'
  <2>1. IF g.vec = PageFault
        THEN g.words = 4 /\ to \in {"cli", "isr", "panic", "sti", "iret"}
        ELSE g.vec \in 32..47 /\ g.words = 3 /\ to \in {"cli", "eoi", "call", "sti", "iret"}
    BY <1>1, <1>2 DEF FrameOK, PageFault
  <2>2. g.iflag  BY <1>1, <1>2 DEF FrameOK
  <2>3. QED BY <1>2, <2>1, <2>2 DEF FrameOK
<1>6. Stack'  BY <1>1, <1>2, <1>3, <1>5 DEF Stack
<1>7. InServiceOwned'
  BY <1>1, <1>2, <1>3, <1>4 DEF InServiceOwned, IInv
<1>8. Tables' /\ MasksKept'
  BY DEF IInv, Tables, MasksKept, tableVars
<1>9. QED BY <1>6, <1>7, <1>8 DEF IInv, tableVars
-----------------------------------------------------------------------------
LEMMA InitCore == Init => IInv
<1> SUFFICES ASSUME Init PROVE IInv  OBVIOUS
<1>1. master \in Chips /\ slave \in Chips
  BY MaskAssumption DEF Init, Chips
<1>2. gates \in [Vectors -> 0..255]  BY DEF Init
<1>3. Tables /\ Stack /\ InServiceOwned /\ MasksKept
  BY DEF Init, Tables, Stack, InServiceOwned, MasksKept, BeforeSti
<1>4. QED BY <1>1, <1>2, <1>3 DEF Init, IInv, Steps

(* What the invariant says while kmain has the CPU.                        *)
LEMMA KmainCore ==
  ASSUME IInv, frames = <<>>
  PROVE  /\ ~shadow /\ (ifl <=> kpc \notin BeforeSti)
         /\ master.isr = {} /\ slave.isr = {}
BY DEF IInv, Stack, InServiceOwned

(* A step of kmain that leaves the stack, the flags and the chips alone.   *)
LEMMA KmainKeepsInv ==
  ASSUME IInv, NEW from \in Steps, NEW to \in Steps, Kmain(from, to),
         UNCHANGED <<cpu, ifl, shadow, frames>>,
         from \in BeforeSti <=> to \in BeforeSti,
         gates' \in [Vectors -> 0..255],
         master' \in Chips, slave' \in Chips,
         master'.imr = master.imr, slave'.imr = slave.imr,
         master'.isr = {}, slave'.isr = {},
         Tables'
  PROVE  IInv'
<1>1. Stack'  BY DEF Kmain, IInv, Stack
<1>2. InServiceOwned'  BY DEF Kmain, InServiceOwned
<1>3. MasksKept'  BY DEF IInv, MasksKept
<1>4. QED BY <1>1, <1>2, <1>3 DEF IInv, Kmain

LEMMA SetGatesFills ==
  ASSUME gates \in [Vectors -> 0..255], NEW S, SetGates(S)
  PROVE  /\ gates' \in [Vectors -> 0..255]
         /\ \A v \in Vectors : v \in S => gates'[v] = GateFlags
         /\ \A v \in Vectors : v \notin S => gates'[v] = gates[v]
BY DEF SetGates, GateFlags

LEMMA KmainStepCore == IInv /\ KmainStep => IInv'
<1> SUFFICES ASSUME IInv, KmainStep PROVE IInv'  OBVIOUS
<1> USE DEF cpuVars, tableVars, picVars
<1>0. /\ frames = <<>>
      /\ master.isr = {} /\ slave.isr = {} /\ master \in Chips /\ slave \in Chips
      /\ gates \in [Vectors -> 0..255] /\ Tables
  BY KmainCore, SMTT(40) DEF KmainStep, CheckMagic, GdtInit, InitIdt, IsrInstall, PicRemap,
     IrqInstall, EnableInterrupts, TimerRegister, PitCommand, PitLow, PitHigh,
     PrintTicks, KbdInit, PagingBuild, RegisterPageFault, EnablePaging,
     TouchUnmapped, Kmain, IInv
<1>1. CASE CheckMagic
  <2>1. Tables'  BY <1>0, <1>1 DEF CheckMagic, Kmain, Tables
  <2>2. CASE Kmain("magic", "gdt")
    BY <1>0, <1>1, <2>1, <2>2, KmainKeepsInv, ZenonT(40) DEF CheckMagic, Steps, BeforeSti
  <2>3. CASE Kmain("magic", "dead")
    BY <1>0, <1>1, <2>1, <2>3, KmainKeepsInv, ZenonT(40) DEF CheckMagic, Steps, BeforeSti
  <2>4. QED BY <1>1, <2>2, <2>3 DEF CheckMagic
<1>2. CASE GdtInit
  <2>1. Kmain("gdt", "idt")  BY <1>2 DEF GdtInit
  <2>2. Tables'  BY <1>0, <1>2, <2>1 DEF GdtInit, Kmain, Tables
  <2>3. QED BY <1>0, <1>2, <2>1, <2>2, KmainKeepsInv, ZenonT(40)
    DEF GdtInit, Steps, BeforeSti
<1>3. CASE InitIdt
  <2>1. Kmain("idt", "isrs")  BY <1>3 DEF InitIdt
  <2>2. Tables'  BY <1>0, <1>3, <2>1 DEF InitIdt, Kmain, Tables
  <2>3. QED BY <1>0, <1>3, <2>1, <2>2, KmainKeepsInv, ZenonT(40)
    DEF InitIdt, Steps, BeforeSti
<1>4. CASE TimerRegister
  <2>1. Kmain("timer", "pitcmd")  BY <1>4 DEF TimerRegister
  <2>2. Tables'  BY <1>0, <1>4, <2>1, SMTT(40) DEF TimerRegister, Kmain, Tables
  <2>3. QED BY <1>0, <1>4, <2>1, <2>2, KmainKeepsInv, ZenonT(40)
    DEF TimerRegister, Steps, BeforeSti
<1>5. CASE PitLow
  <2>1. Kmain("pitlow", "pithigh")  BY <1>5 DEF PitLow
  <2>2. Tables'  BY <1>0, <1>5, <2>1 DEF PitLow, Kmain, Tables
  <2>3. QED BY <1>0, <1>5, <2>1, <2>2, KmainKeepsInv, ZenonT(40)
    DEF PitLow, Steps, BeforeSti
<1>6. CASE PitHigh
  <2>1. Kmain("pithigh", "ticks")  BY <1>6 DEF PitHigh
  <2>2. Tables'  BY <1>0, <1>6, <2>1, SMTT(40) DEF PitHigh, Kmain, Tables
  <2>3. QED BY <1>0, <1>6, <2>1, <2>2, KmainKeepsInv, ZenonT(40)
    DEF PitHigh, Steps, BeforeSti
<1>7. CASE PrintTicks
  <2>1. Kmain("ticks", "kbd")  BY <1>7 DEF PrintTicks
  <2>2. Tables'  BY <1>0, <1>7, <2>1 DEF PrintTicks, Kmain, Tables
  <2>3. QED BY <1>0, <1>7, <2>1, <2>2, KmainKeepsInv, ZenonT(40)
    DEF PrintTicks, Steps, BeforeSti
<1>8. CASE KbdInit
  <2>1. Kmain("kbd", "paging")  BY <1>8 DEF KbdInit
  <2>2. Tables'  BY <1>0, <1>8, <2>1, SMTT(40) DEF KbdInit, Kmain, Tables
  <2>3. QED BY <1>0, <1>8, <2>1, <2>2, KmainKeepsInv, ZenonT(40)
    DEF KbdInit, Steps, BeforeSti
<1>9. CASE PagingBuild
  <2>1. Kmain("paging", "regpf")  BY <1>9 DEF PagingBuild
  <2>2. Tables'  BY <1>0, <1>9, <2>1, SMTT(40) DEF PagingBuild, Kmain, Tables
  <2>3. QED BY <1>0, <1>9, <2>1, <2>2, KmainKeepsInv, ZenonT(40)
    DEF PagingBuild, Steps, BeforeSti
<1>10. CASE RegisterPageFault
  <2>1. Kmain("regpf", "pgon")  BY <1>10 DEF RegisterPageFault
  <2>2. Tables'  BY <1>0, <1>10, <2>1 DEF RegisterPageFault, Kmain, Tables
  <2>3. QED BY <1>0, <1>10, <2>1, <2>2, KmainKeepsInv, ZenonT(40)
    DEF RegisterPageFault, Steps, BeforeSti
<1>11. CASE EnablePaging
  <2>1. Tables'  BY <1>0, <1>11, SMTT(40) DEF EnablePaging, Kmain, Tables
  <2>2. CASE Kmain("pgon", "touch")
    BY <1>0, <1>11, <2>1, <2>2, KmainKeepsInv, ZenonT(40) DEF EnablePaging, Steps, BeforeSti
  <2>3. CASE Kmain("pgon", "smashed")
    BY <1>0, <1>11, <2>1, <2>3, KmainKeepsInv, ZenonT(40) DEF EnablePaging, Steps, BeforeSti
  <2>4. QED BY <1>11, <2>2, <2>3 DEF EnablePaging
<1>12. CASE IsrInstall
  <2>1. Kmain("isrs", "pic")  BY <1>12 DEF IsrInstall
  <2>2. /\ gates' \in [Vectors -> 0..255]
        /\ \A v \in Vectors : v \in 0..31 \cup {128} => gates'[v] = GateFlags
        /\ \A v \in Vectors : v \notin 0..31 \cup {128} => gates'[v] = gates[v]
    <3>1. SetGates(0..31 \cup {128})  BY <1>12 DEF IsrInstall
    <3>2. QED BY <1>0, <3>1, SetGatesFills, ZenonT(40)
  <2>3. 0..31 \subseteq Vectors /\ 32..47 \subseteq Vectors  BY DEF Vectors
  <2>4. Tables'
    BY <1>0, <1>12, <2>1, <2>2, <2>3 DEF IsrInstall, Kmain, Tables
  <2>5. QED BY <1>0, <1>12, <2>1, <2>2, <2>4, KmainKeepsInv, ZenonT(40)
    DEF IsrInstall, Steps, BeforeSti
<1>13. CASE IrqInstall
  <2>1. Kmain("irqs", "sti")  BY <1>13 DEF IrqInstall
  <2>2. /\ gates' \in [Vectors -> 0..255]
        /\ \A v \in Vectors : v \in 32..47 => gates'[v] = GateFlags
        /\ \A v \in Vectors : v \notin 32..47 => gates'[v] = gates[v]
    <3>1. SetGates(32..47)  BY <1>13 DEF IrqInstall
    <3>2. QED BY <1>0, <3>1, SetGatesFills
  <2>3. 0..31 \subseteq Vectors /\ 32..47 \subseteq Vectors  BY DEF Vectors
  <2>4. /\ \A v \in 32..47 : gates'[v] = GateFlags
        /\ \A v \in 0..31 : gates'[v] = gates[v]
    BY <2>2, <2>3
  <2>5. Tables'
    BY <1>0, <1>13, <2>1, <2>4, ZenonT(40) DEF IrqInstall, Kmain, Tables
  <2>6. QED BY <1>0, <1>13, <2>1, <2>2, <2>5, KmainKeepsInv, ZenonT(40)
    DEF IrqInstall, Steps, BeforeSti
<1>14. CASE PicRemap
  <2>1. Kmain("pic", "irqs")  BY <1>14 DEF PicRemap
  <2>2. /\ master' \in Chips /\ master'.isr = {} /\ master'.imr = master.imr
        /\ master'.base = 32
    <3>1. master' = Remapped(master, 32, {Cascade})  BY <1>14 DEF PicRemap
    <3>2. QED BY <1>0, <3>1, RemappedChip
  <2>3. /\ slave' \in Chips /\ slave'.isr = {} /\ slave'.imr = slave.imr
        /\ slave'.base = 40
    <3>1. slave' = Remapped(slave, 40, Cascade)  BY <1>14 DEF PicRemap
    <3>2. QED BY <1>0, <3>1, RemappedChip
  <2>4. Tables'
    BY <1>0, <1>14, <2>1, <2>2, <2>3, SMTT(40) DEF PicRemap, Kmain, Tables
  <2>5. QED BY <1>0, <1>14, <2>1, <2>2, <2>3, <2>4, KmainKeepsInv, ZenonT(40)
            DEF PicRemap, Steps, BeforeSti
<1>15. CASE PitCommand
  <2>1. Kmain("pitcmd", "pitlow")  BY <1>15 DEF PitCommand
  <2>2. /\ master' \in Chips /\ master'.isr = {}
        /\ master'.imr = master.imr /\ master'.base = master.base
    BY <1>0, <1>15, LatchChip DEF PitCommand, Timer, Inputs
  <2>3. Tables'  BY <1>0, <1>15, <2>1, <2>2 DEF PitCommand, Kmain, Tables
  <2>4. QED BY <1>0, <1>15, <2>1, <2>2, <2>3, KmainKeepsInv, ZenonT(40)
            DEF PitCommand, Steps, BeforeSti
<1>16. CASE EnableInterrupts
  <2>1. Kmain("sti", "timer")  BY <1>16 DEF EnableInterrupts
  <2>2. Tables'  BY <1>0, <1>16, <2>1 DEF EnableInterrupts, Kmain, Tables
  <2>3. Stack'
    BY <1>16, <2>1, KmainCore DEF EnableInterrupts, Kmain, Stack, BeforeSti
  <2>4. InServiceOwned' /\ MasksKept'
    BY <1>0, <1>16, <2>1 DEF EnableInterrupts, Kmain, InServiceOwned, MasksKept, IInv
  <2>5. QED BY <1>0, <1>16, <2>1, <2>2, <2>3, <2>4 DEF EnableInterrupts, Kmain, IInv, Steps
<1>17. CASE TouchUnmapped
  <2>1. frames = <<>> /\ kpc \in {"touch", "smashed"} /\ kpc \notin BeforeSti /\ ifl /\ ~shadow
    BY <1>17, KmainCore DEF TouchUnmapped, BeforeSti
  <2>2. CASE paging
    <3>1. Enter(PageFault, 4) /\ UNCHANGED kpc
      BY <1>17, <2>2 DEF TouchUnmapped, Exception, ErrorCode, PageFault
    <3> DEFINE f == [vec |-> PageFault, at |-> "cli", words |-> 4, iflag |-> ifl]
    <3>2. frames' = <<f>> /\ ifl' = FALSE /\ UNCHANGED <<cpu, shadow>>
      <4>1. PageFault \in 0..47  BY DEF PageFault
      <4>2. QED BY <2>1, <3>1, <4>1, EnterGate
    <3>3. /\ f \in Frame /\ f.vec = PageFault /\ f.at = "cli" /\ f.words = 4
          /\ f.iflag
      BY <2>1, SMTT(30) DEF Frame, Vectors, Stages, PageFault, IInv
    <3> HIDE DEF f
    <3>4. Stack'  BY <2>1, <3>1, <3>2, <3>3 DEF Stack, FrameOK
    <3>5. Top' = f /\ ~IsIrq(f.vec)
      BY <3>2, <3>3 DEF Top, IsIrq, PageFault
    <3>6. InServiceOwned'
      BY <1>0, <1>17, <3>5 DEF TouchUnmapped, InServiceOwned
    <3>7. Tables' /\ MasksKept'
      BY <1>0, <1>17, <3>1 DEF TouchUnmapped, Tables, MasksKept, IInv
    <3>8. QED BY <1>0, <1>17, <3>1, <3>2, <3>4, <3>6, <3>7 DEF TouchUnmapped, IInv
  <2>3. CASE ~paging
    <3>1. kpc' = "halt" /\ UNCHANGED <<cpuVars, tableVars, picVars>>
      BY <1>17, <2>3 DEF TouchUnmapped
    <3>2. Stack'  BY <2>1, <3>1 DEF Stack, BeforeSti
    <3>3. Tables'  BY <1>0, <2>1, <3>1 DEF Tables
    <3>4. InServiceOwned' /\ MasksKept'
      BY <1>0, <2>1, <3>1 DEF InServiceOwned, MasksKept, IInv
    <3>5. QED BY <1>0, <3>1, <3>2, <3>3, <3>4 DEF IInv, Steps
  <2>4. QED BY <2>2, <2>3
<1>18. QED
  BY <1>1, <1>2, <1>3, <1>4, <1>5, <1>6, <1>7, <1>8, <1>9, <1>10, <1>11, <1>12, <1>13, <1>14, <1>15, <1>16, <1>17
     DEF KmainStep

LEMMA AcceptCore == IInv /\ Accept => IInv'
<1> SUFFICES ASSUME IInv, Accept PROVE IInv'  OBVIOUS
<1>0. Window /\ UNCHANGED <<kpc, tableVars>> /\ master \in Chips /\ slave \in Chips
  BY DEF Accept, MasterInterrupt, SlaveInterrupt, SpuriousMaster, SpuriousSlave, IInv
<1>1. /\ master.base = 32 /\ slave.base = 40 /\ master.isr = {} /\ slave.isr = {}
      /\ MasterRequests # {} /\ Min(MasterRequests) \in Inputs
      /\ SlaveRequests # {} => Min(SlaveRequests) \in Inputs
  BY <1>0, OpenWindow, Requests
     DEF Accept, MasterInterrupt, SlaveInterrupt, SpuriousMaster, SpuriousSlave
<1>2. CASE MasterInterrupt
  <2> DEFINE i == Min(MasterRequests)
  <2>1. i \in 0..7  BY <1>1 DEF Inputs
  <2>2. Enter(32 + i, 3) /\ master' = Acknowledge(master, i) /\ slave' = slave
    BY <1>1, <1>2 DEF MasterInterrupt
  <2> HIDE DEF i
  <2>3. /\ master' \in Chips /\ master'.isr = {i} /\ master'.imr = master.imr
        /\ master'.base = master.base
    BY <1>0, <1>1, <2>1, <2>2, AcknowledgeChip DEF Inputs
  <2>4. 32 + i \in 32..47 /\ 32 + i < 40 /\ (32 + i) - 32 = i  BY <2>1
  <2>5. QED BY <1>0, <1>1, <2>2, <2>3, <2>4, NewFrame
<1>3. CASE SlaveInterrupt
  <2> DEFINE j == Min(SlaveRequests)
  <2>1. j \in 0..7  BY <1>1, <1>3 DEF SlaveInterrupt, Inputs
  <2>2. /\ Enter(40 + j, 3) /\ slave' = Acknowledge(slave, j)
        /\ master' = Acknowledge(master, Cascade)
    BY <1>1, <1>3 DEF SlaveInterrupt
  <2> HIDE DEF j
  <2>3. /\ slave' \in Chips /\ slave'.isr = {j} /\ slave'.imr = slave.imr
        /\ slave'.base = slave.base
    BY <1>0, <1>1, <2>1, <2>2, AcknowledgeChip DEF Inputs
  <2>4. /\ master' \in Chips /\ master'.isr = {Cascade} /\ master'.imr = master.imr
        /\ master'.base = master.base
    BY <1>0, <1>1, <2>2, AcknowledgeChip DEF Inputs, Cascade
  <2>5. 40 + j \in 32..47 /\ 40 + j >= 40 /\ (40 + j) - 40 = j  BY <2>1
  <2>6. QED BY <1>0, <1>1, <2>2, <2>3, <2>4, <2>5, NewFrame
<1>4. CASE SpuriousMaster
  <2>1. Enter(39, 3) /\ slave' = slave /\ master' = Withdraw(master, Min(MasterRequests))
    BY <1>1, <1>4 DEF SpuriousMaster, SpuriousInput
  <2>2. /\ master' \in Chips /\ master'.isr = {} /\ master'.imr = master.imr
        /\ master'.base = master.base
    BY <1>0, <1>1, <2>1, WithdrawChip
  <2>3. 39 \in 32..47  OBVIOUS
  <2>4. QED BY <1>0, <1>1, <2>1, <2>2, <2>3, NewFrame
<1>5. CASE SpuriousSlave
  <2>1. /\ Enter(47, 3) /\ slave' = Withdraw(slave, Min(SlaveRequests))
        /\ master' = Acknowledge(master, Cascade) /\ Min(SlaveRequests) \in Inputs
    BY <1>1, <1>5 DEF SpuriousSlave, SpuriousInput
  <2>2. /\ slave' \in Chips /\ slave'.isr = {} /\ slave'.imr = slave.imr
        /\ slave'.base = slave.base
    BY <1>0, <1>1, <2>1, WithdrawChip
  <2>3. /\ master' \in Chips /\ master'.isr = {Cascade} /\ master'.imr = master.imr
        /\ master'.base = master.base
    BY <1>0, <1>1, <2>1, AcknowledgeChip DEF Inputs, Cascade
  <2>4. 47 \in 32..47  OBVIOUS
  <2>5. QED BY <1>0, <1>1, <2>1, <2>2, <2>3, <2>4, NewFrame
<1>6. QED BY <1>2, <1>3, <1>4, <1>5 DEF Accept

LEMMA HandlerCore == IInv /\ HandlerStep => IInv'
<1> SUFFICES ASSUME IInv, HandlerStep PROVE IInv'  OBVIOUS
<1>0. /\ master \in Chips /\ slave \in Chips
      /\ ifl \in BOOLEAN /\ shadow \in BOOLEAN
  BY DEF IInv
<1>1. ASSUME NEW stage, Handler(stage), stage \notin {"cli", "eoi"}
      PROVE  master.isr = {} /\ slave.isr = {}
  BY <1>1 DEF IInv, InServiceOwned, Handler
<1>2. ASSUME NEW stage, Handler(stage), stage # "iret"
      PROVE  /\ ~ifl /\ ~shadow
             /\ Top.vec \in 32..47 \cup {PageFault}
             /\ stage \in {"eoi", "call"} => Top.vec \in 32..47
             /\ stage = "isr" => Top.vec = PageFault
  BY <1>2, NextStage, SMTT(40) DEF FrameOK, PageFault
<1>3. CASE StubEntry
  <2>1. Handler("cli") /\ ~ifl' /\ ifl' \in BOOLEAN /\ UNCHANGED <<kpc, cpu, shadow, tableVars, picVars>>
    BY <1>3 DEF StubEntry
  <2>2. CASE IsIrq(Top.vec)
    <3>1. Goto("eoi") /\ Top.vec # PageFault  BY <1>3, <2>2 DEF StubEntry, IsIrq, PageFault
    <3>2. QED BY <1>0, <1>2, <2>1, <3>1, StageKeepsInv DEF Stages, picVars
  <2>3. CASE ~IsIrq(Top.vec)
    <3>1. Goto("isr") /\ Top.vec = PageFault
      BY <1>2, <1>3, <2>1, <2>3 DEF StubEntry, IsIrq
    <3>2. master.isr = {} /\ slave.isr = {}
      BY <2>3 DEF IInv, InServiceOwned
    <3>3. QED BY <1>0, <1>2, <2>1, <3>1, <3>2, StageKeepsInv DEF Stages, picVars
  <2>4. QED BY <2>2, <2>3
<1>4. CASE PicAcknowledge
  <2>1. /\ Handler("eoi") /\ Goto("call") /\ UNCHANGED <<kpc, cpu, ifl, shadow, tableVars>>
        /\ Top.vec \in 32..47 /\ Top.vec # PageFault
    BY <1>2, <1>4 DEF PicAcknowledge, PageFault
  <2>2. InServiceOwned /\ frames # <<>> /\ Top.at = "eoi" /\ IsIrq(Top.vec)
    BY <2>1 DEF IInv, Handler, IsIrq
  <2>3. PICK i \in Inputs : master.isr \in {{}, {i}}
    <3>1. CASE Top.vec < 40
      <4>1. Top.vec - 32 \in Inputs  BY <2>1, <3>1 DEF Inputs
      <4>2. QED BY <2>2, <3>1, <4>1 DEF InServiceOwned
    <3>2. CASE ~(Top.vec < 40)  BY <2>2, <3>2 DEF InServiceOwned, Inputs, Cascade
    <3>3. QED BY <3>1, <3>2
  <2>4. /\ master' \in Chips /\ master'.isr = {} /\ master'.imr = master.imr
        /\ master'.base = master.base
    BY <1>0, <1>4, <2>3, EoiChip DEF PicAcknowledge
  <2>5. /\ slave' \in Chips /\ slave'.isr = {} /\ slave'.imr = slave.imr
        /\ slave'.base = slave.base
    <3>1. CASE Top.vec < 40
      BY <1>0, <1>4, <2>1, <2>2, <3>1 DEF PicAcknowledge, InServiceOwned
    <3>2. CASE Top.vec >= 40
      <4>1. PICK j \in Inputs : slave.isr \in {{}, {j}}
        BY <2>1, <2>2, <3>2, SMTT(40) DEF InServiceOwned, Inputs
      <4>2. slave' = Command(slave, PIC_EOI)  BY <1>4, <3>2 DEF PicAcknowledge
      <4>3. QED BY <1>0, <4>1, <4>2, EoiChip
    <3>3. QED BY <2>1, <3>1, <3>2
  <2>6. QED BY <1>0, <1>2, <2>1, <2>4, <2>5, StageKeepsInv DEF Stages
<1>5. CASE TimerCallback
  <2>1. /\ Handler("call") /\ Goto("sti")
        /\ UNCHANGED <<kpc, cpu, ifl, shadow, tableVars, picVars>>
    BY <1>5 DEF TimerCallback
  <2>2. QED BY <1>0, <1>1, <1>2, <2>1, StageKeepsInv DEF Stages, picVars
<1>6. CASE NoCallback
  <2>1. /\ Handler("call") /\ Goto("sti")
        /\ UNCHANGED <<kpc, cpu, ifl, shadow, tableVars, picVars>>
    BY <1>6 DEF NoCallback
  <2>2. QED BY <1>0, <1>1, <1>2, <2>1, StageKeepsInv DEF Stages, picVars
<1>7. CASE KbdCallback
  <2>1. /\ Handler("call") /\ Goto("sti") /\ slave' = slave
        /\ UNCHANGED <<kpc, cpu, ifl, shadow, tableVars>>
    BY <1>7 DEF KbdCallback
  <2>2. /\ master' \in Chips /\ master'.isr = {} /\ master'.imr = master.imr
        /\ master'.base = master.base
    BY <1>0, <1>1, <1>7, <2>1, LatchChip DEF KbdCallback, Kbd, Inputs
  <2>3. QED BY <1>0, <1>1, <1>2, <2>1, <2>2, StageKeepsInv DEF Stages
<1>8. CASE IsrHandler
  <2>1. /\ Handler("isr") /\ Goto(IF Top.vec \in isrtab THEN "panic" ELSE "sti")
        /\ UNCHANGED <<kpc, cpu, ifl, shadow, tableVars, picVars>>
    BY <1>8 DEF IsrHandler
  <2>2. CASE Top.vec \in isrtab
    BY <1>0, <1>1, <1>2, <2>1, <2>2, StageKeepsInv DEF Stages, picVars
  <2>3. CASE Top.vec \notin isrtab
    BY <1>0, <1>1, <1>2, <2>1, <2>3, StageKeepsInv DEF Stages, picVars
  <2>4. QED BY <2>2, <2>3
<1>9. CASE StubSti
  <2>1. /\ Handler("sti") /\ Goto("iret") /\ ifl' = TRUE /\ shadow' = TRUE
        /\ UNCHANGED <<kpc, cpu, tableVars, picVars>>
    BY <1>9 DEF StubSti
  <2>2. QED BY <1>0, <1>1, <2>1, StageKeepsInv DEF Stages, picVars
<1>10. CASE Iret
  <2>1. PICK f \in Frame :
          /\ frames = <<f>> /\ Top = f /\ FrameOK(f) /\ f.at = "iret"
          /\ Tail(frames) = <<>> /\ kpc \notin BeforeSti
    BY <1>10, NextStage DEF Iret
  <2>2. Leftover(Top) = 3
    BY <2>1 DEF Leftover, ErrStubs, FrameOK, PageFault
  <2>3. /\ frames' = <<>> /\ ifl' = f.iflag /\ ~shadow' /\ shadow' \in BOOLEAN
        /\ UNCHANGED <<cpu, kpc, tableVars, picVars>>
    BY <1>10, <2>1, <2>2 DEF Iret
  <2>4. ifl' /\ ifl' \in BOOLEAN  BY <2>1, <2>3 DEF FrameOK, Frame
  <2>5. Stack'  BY <2>1, <2>3, <2>4 DEF Stack
  <2>6. master.isr = {} /\ slave.isr = {}  BY <1>1, <1>10 DEF Iret
  <2>7. InServiceOwned' /\ Tables' /\ MasksKept'
    BY <2>3, <2>6 DEF InServiceOwned, IInv, Tables, MasksKept, tableVars, picVars
  <2>8. QED BY <2>3, <2>4, <2>5, <2>7 DEF IInv, tableVars, picVars
<1>11. QED
  BY <1>3, <1>4, <1>5, <1>6, <1>7, <1>8, <1>9, <1>10 DEF HandlerStep

(* The devices only ever add requests.                                     *)
LEMMA DeviceCore == IInv /\ Device => IInv'
<1> SUFFICES ASSUME IInv, Device PROVE IInv'  OBVIOUS
<1>1. /\ UNCHANGED <<kpc, cpuVars, tableVars>>
      /\ master' \in Chips /\ master'.isr = master.isr /\ master'.imr = master.imr
      /\ master'.base = master.base
      /\ slave' \in Chips /\ slave'.isr = slave.isr /\ slave'.imr = slave.imr
      /\ slave'.base = slave.base
  <2>0. master \in Chips /\ slave \in Chips  BY DEF IInv
  <2>1. CASE PitEdge
    BY <2>0, <2>1, LatchChip DEF PitEdge, Timer, Inputs
  <2>2. CASE KeyTyped
    BY <2>0, <2>2, LatchChip DEF KeyTyped, Kbd, Inputs
  <2>3. CASE Pulse
    <3>1. PICK l \in OtherLines :
            IF l < 8 THEN master' = Latch(master, l) /\ UNCHANGED slave
                     ELSE slave' = Latch(slave, l - 8) /\ UNCHANGED master
      BY <2>3 DEF Pulse
    <3>2. l \in 3..15  BY LineAssumption
    <3>3. CASE l < 8
      BY <2>0, <2>3, <3>1, <3>2, <3>3, LatchChip DEF Pulse, Inputs
    <3>4. CASE ~(l < 8)
      <4>1. l - 8 \in Inputs  BY <3>2, <3>4 DEF Inputs
      <4>2. QED BY <2>0, <2>3, <3>1, <3>4, <4>1, LatchChip DEF Pulse
    <3>5. QED BY <3>3, <3>4
  <2>4. QED BY <2>1, <2>2, <2>3 DEF Device
<1>2. Stack' /\ Tables' /\ MasksKept'
  BY <1>1 DEF IInv, Stack, FrameOK, Tables, MasksKept, cpuVars, tableVars
<1>3. InServiceOwned'
  BY <1>1 DEF IInv, InServiceOwned, Top, cpuVars
<1>4. QED BY <1>1, <1>2, <1>3 DEF IInv, cpuVars, tableVars

LEMMA StutterCore == IInv /\ UNCHANGED vars => IInv'
<1> SUFFICES ASSUME IInv, UNCHANGED vars PROVE IInv'  OBVIOUS
<1> USE DEF vars, cpuVars, tableVars, picVars
<1>1. Stack'  BY DEF IInv, Stack, FrameOK
<1>2. Tables' /\ MasksKept'  BY DEF IInv, Tables, MasksKept
<1>3. InServiceOwned'  BY DEF IInv, InServiceOwned, Top
<1>4. QED BY <1>1, <1>2, <1>3 DEF IInv

(* The core of the subsystem is inductive.                                 *)
THEOREM CoreInvariant == Spec => []IInv
<1>1. Init => IInv  BY InitCore
<1>2. IInv /\ [Next]_vars => IInv'
  BY KmainStepCore, AcceptCore, HandlerCore, DeviceCore, StutterCore DEF Next
<1>3. QED BY <1>1, <1>2, PTL DEF Spec

(* No interrupt, exception or iret ever faults: see NeverFaults.           *)
THEOREM BootNeverFaults == Spec => []NeverFaults
<1>1. IInv => NeverFaults  BY DEF IInv, NeverFaults
<1>2. QED BY <1>1, CoreInvariant, PTL

(* Handlers are never nested, for every number of lines and requests.      *)
THEOREM HandlersNeverNest == Spec => []NoNesting
<1>1. IInv => NoNesting
  <2>1. \A f : Len(<<f>>) = 1  OBVIOUS
  <2>2. QED BY <2>1 DEF IInv, Stack, NoNesting
<1>2. QED BY <1>1, CoreInvariant, PTL

(* The chips hold in service exactly what still owes its EOI.              *)
THEOREM EoisMatch == Spec => []InServiceOwned
<1>1. IInv => InServiceOwned  BY DEF IInv
<1>2. QED BY <1>1, CoreInvariant, PTL

(* kmain always gets its interrupt flag back.                              *)
THEOREM KmainKeepsInterrupts == Spec => []InterruptsStayOn
<1>1. IInv => InterruptsStayOn  BY DEF IInv, Stack, InterruptsStayOn
<1>2. QED BY <1>1, CoreInvariant, PTL

(* The masks of the loader survive pic_remap().                            *)
THEOREM RemapKeepsMasks == Spec => []MasksKept
<1>1. IInv => MasksKept  BY DEF IInv
<1>2. QED BY <1>1, CoreInvariant, PTL
-----------------------------------------------------------------------------
(* The part of TypeOK that the core invariant does not cover.              *)
RestOK ==
  /\ gdt \in {"loader", "kernel"} /\ idtr \in BOOLEAN
  /\ irqtab \subseteq Vectors /\ isrtab \subseteq Vectors /\ paging \in BOOLEAN
  /\ pit \in {"counting", "low", "high"} /\ ticks \in Nat
  /\ kbq \in Seq(Scancodes) /\ echoed \in Seq(Scancodes) /\ typed \in Seq(Scancodes)
  /\ edges \in 0..MaxTicks /\ pulses \in 0..MaxPulses

LEMMA SeqFacts ==
  ASSUME NEW s \in Seq(Scancodes)
  PROVE  /\ \A c \in Scancodes : Append(s, c) \in Seq(Scancodes) /\ Append(s, c) # <<>>
         /\ s # <<>> => Head(s) \in Scancodes /\ Tail(s) \in Seq(Scancodes)
         /\ s # <<>> => (Tail(s) = <<>> <=> ~(Len(s) > 1))
         /\ s = <<>> => ~(Len(s) > 1)
OBVIOUS

LEMMA RestStep == RestOK /\ [Next]_vars => RestOK'
<1> SUFFICES ASSUME RestOK, [Next]_vars PROVE RestOK'  OBVIOUS
<1> USE DEF RestOK, cpuVars, tableVars, picVars, deviceVars
<1>1. CASE KmainStep
  <2>0. {IRQ0, IRQ1, PageFault} \subseteq Vectors
    BY DEF IRQ0, IRQ1, PageFault, Vectors
  <2>1. CASE CheckMagic \/ PrintTicks \/ PagingBuild \/ TouchUnmapped
    BY <2>1 DEF CheckMagic, PrintTicks, PagingBuild, TouchUnmapped
  <2>2. CASE GdtInit \/ InitIdt \/ IsrInstall \/ IrqInstall
    BY <2>2, ZenonT(40) DEF GdtInit, InitIdt, IsrInstall, IrqInstall
  <2>3. CASE PicRemap \/ EnableInterrupts
    BY <2>3 DEF PicRemap, EnableInterrupts
  <2>4. CASE TimerRegister \/ KbdInit
    BY <2>0, <2>4 DEF TimerRegister, KbdInit, RegisterIrqHandler
  <2>5. CASE RegisterPageFault
    BY <2>0, <2>5 DEF RegisterPageFault
  <2>6. CASE EnablePaging
    BY <2>6 DEF EnablePaging
  <2>7. CASE PitCommand
    BY <2>7, BoundAssumption DEF PitCommand
  <2>8. CASE PitLow \/ PitHigh
    BY <2>8 DEF PitLow, PitHigh
  <2>9. QED
    BY <1>1, <2>1, <2>2, <2>3, <2>4, <2>5, <2>6, <2>7, <2>8 DEF KmainStep
<1>2. CASE Accept
  BY <1>2 DEF Accept, MasterInterrupt, SlaveInterrupt, SpuriousMaster, SpuriousSlave
<1>3. CASE HandlerStep
  <2>1. CASE StubEntry \/ PicAcknowledge \/ NoCallback \/ IsrHandler \/ StubSti \/ Iret
    BY <2>1 DEF StubEntry, PicAcknowledge, NoCallback, IsrHandler, StubSti, Iret
  <2>2. CASE TimerCallback
    BY <2>2 DEF TimerCallback
  <2>3. CASE KbdCallback
    <3>1. PICK scancode \in Scancodes :
            echoed' = IF Released(scancode) THEN echoed ELSE Append(echoed, scancode)
      BY <2>3, SeqFacts DEF KbdCallback
    <3>2. echoed' \in Seq(Scancodes)  BY <3>1
    <3>3. kbq' \in Seq(Scancodes)  BY <2>3, SeqFacts DEF KbdCallback
    <3>4. QED BY <2>3, <3>2, <3>3 DEF KbdCallback
  <2>4. QED BY <1>3, <2>1, <2>2, <2>3 DEF HandlerStep
<1>4. CASE Device
  <2>1. CASE PitEdge  BY <2>1, BoundAssumption DEF PitEdge
  <2>2. CASE KeyTyped  BY <2>2 DEF KeyTyped
  <2>3. CASE Pulse  BY <2>3, BoundAssumption DEF Pulse
  <2>4. QED BY <1>4, <2>1, <2>2, <2>3 DEF Device
<1>5. CASE UNCHANGED vars  BY <1>5 DEF vars
<1>6. QED BY <1>1, <1>2, <1>3, <1>4, <1>5 DEF Next

LEMMA RestInvariant == Spec => []RestOK
<1>1. Init => RestOK
  <2>1. 0 \in 0..MaxTicks /\ 0 \in 0..MaxPulses  BY BoundAssumption
  <2> SUFFICES ASSUME Init PROVE RestOK  OBVIOUS
  <2>2. kbq \in Seq(Scancodes) /\ echoed \in Seq(Scancodes) /\ typed \in Seq(Scancodes)
    BY DEF Init
  <2>3. edges \in 0..MaxTicks /\ pulses \in 0..MaxPulses /\ ticks \in Nat
    BY <2>1 DEF Init
  <2>4. QED BY <2>2, <2>3, Zenon DEF Init, RestOK
<1>2. QED BY <1>1, RestStep, PTL DEF Spec

(* Every variable keeps its type.                                          *)
THEOREM TypeCorrect == Spec => []TypeOK
<1>1. IInv /\ RestOK => TypeOK
  <2> SUFFICES ASSUME IInv, RestOK PROVE TypeOK  OBVIOUS
  <2>1. frames \in Seq(Frame)
    <3>1. CASE frames = <<>>  BY <3>1
    <3>2. CASE \E f \in Frame : frames = <<f>>  BY <3>2
    <3>3. QED BY <3>1, <3>2 DEF IInv, Stack
  <2>2. QED BY <2>1 DEF IInv, RestOK, TypeOK
<1>2. QED BY <1>1, CoreInvariant, RestInvariant, PTL
-----------------------------------------------------------------------------
(* How a step moves the requests of the timer and the keyboard: from the   *)
(* request register into the frame that is to call back, and out of it.    *)
LEMMA IdleFlight ==
  ASSUME IInv, frames = <<>>
  PROVE  ~InFlight(IRQ0) /\ ~InFlight(IRQ1)
BY DEF InFlight

LEMMA AcceptFlight ==
  ASSUME IInv, Accept
  PROVE  /\ ~InFlight(IRQ0) /\ ~InFlight(IRQ1)
         /\ UNCHANGED <<kpc, tableVars, deviceVars>>
         /\ \/ \E i \in master.irr :
                 /\ master'.irr = master.irr \ {i}
                 /\ \A v \in {IRQ0, IRQ1} : InFlight(v)' <=> v = 32 + i
            \/ \E i \in master.irr \ {Kbd} :
                 /\ master'.irr = master.irr \ {i}
                 /\ \A v \in {IRQ0, IRQ1} : ~InFlight(v)'
            \/ /\ master'.irr = master.irr \ {Cascade}
               /\ \A v \in {IRQ0, IRQ1} : ~InFlight(v)'
<1> USE DEF IRQ0, IRQ1
<1>1. /\ Window /\ UNCHANGED <<kpc, tableVars, deviceVars>>
      /\ master \in Chips /\ slave \in Chips
  BY DEF Accept, MasterInterrupt, SlaveInterrupt, SpuriousMaster, SpuriousSlave, IInv
<1>2. /\ frames = <<>> /\ kpc \notin BeforeSti /\ ifl
      /\ master.base = 32 /\ slave.base = 40
      /\ MasterRequests # {} /\ Min(MasterRequests) \in Inputs
      /\ SlaveRequests # {} => Min(SlaveRequests) \in Inputs
      /\ Min(MasterRequests) # Cascade => Min(MasterRequests) \in master.irr
  <2>1. MasterRequests # {}
    BY DEF Accept, MasterInterrupt, SlaveInterrupt, SpuriousMaster, SpuriousSlave
  <2>2. MasterRequests \subseteq master.irr \cup {Cascade}
    BY DEF MasterRequests, Eligible
  <2>3. QED BY <1>1, <2>1, <2>2, OpenWindow, Requests
<1>3. ~InFlight(IRQ0) /\ ~InFlight(IRQ1)  BY <1>2, IdleFlight
<1>4. ASSUME NEW vec \in 0..47, Enter(vec, 3)
      PROVE  \A v \in {IRQ0, IRQ1} : InFlight(v)' <=> v = vec
  <2> DEFINE f == [vec |-> vec, at |-> "cli", words |-> 3, iflag |-> ifl]
  <2>1. frames' = <<f>>  BY <1>2, <1>4, EnterGate
  <2>2. f.vec = vec /\ f.at = "cli"  OBVIOUS
  <2> HIDE DEF f
  <2>3. QED BY <2>1, <2>2 DEF InFlight, Top
<1>5. CASE MasterInterrupt
  <2> DEFINE i == Min(MasterRequests)
  <2>1. /\ i \in master.irr /\ i \in 0..7 /\ Enter(32 + i, 3)
        /\ master' = Acknowledge(master, i)
    BY <1>2, <1>5 DEF MasterInterrupt, Inputs
  <2> HIDE DEF i
  <2>2. master'.irr = master.irr \ {i}
    BY <1>1, <2>1, AcknowledgeChip DEF Inputs
  <2>3. 32 + i \in 0..47  BY <2>1
  <2>4. QED BY <1>1, <1>3, <1>4, <2>1, <2>2, <2>3
<1>6. CASE SpuriousMaster
  <2> DEFINE i == Min(MasterRequests)
  <2>1. /\ i \in master.irr \ {Kbd} /\ i \in Inputs /\ Enter(39, 3)
        /\ master' = Withdraw(master, i)
    BY <1>2, <1>6 DEF SpuriousMaster, SpuriousInput
  <2> HIDE DEF i
  <2>2. master'.irr = master.irr \ {i}  BY <1>1, <2>1, WithdrawChip
  <2>3. \A v \in {IRQ0, IRQ1} : ~InFlight(v)'
    <3>1. 39 \in 0..47  OBVIOUS
    <3>2. QED BY <1>4, <2>1, <3>1
  <2>4. QED BY <1>1, <1>3, <2>1, <2>2, <2>3
<1>7. CASE SlaveInterrupt \/ SpuriousSlave
  <2>1. master' = Acknowledge(master, Cascade)
    BY <1>7 DEF SlaveInterrupt, SpuriousSlave
  <2>2. PICK vec \in 40..47 : Enter(vec, 3)
    <3>1. CASE SlaveInterrupt
      <4>1. 40 + Min(SlaveRequests) \in 40..47  BY <1>2, <3>1 DEF SlaveInterrupt, Inputs
      <4>2. Enter(40 + Min(SlaveRequests), 3)  BY <1>2, <3>1 DEF SlaveInterrupt
      <4>3. QED BY <4>1, <4>2
    <3>2. CASE SpuriousSlave
      <4>1. Enter(47, 3)  BY <1>2, <3>2 DEF SpuriousSlave, SpuriousInput
      <4>2. QED BY <4>1
    <3>3. QED BY <1>7, <3>1, <3>2
  <2>3. \A v \in {IRQ0, IRQ1} : ~InFlight(v)'
    <3>1. vec \in 0..47 /\ vec # 32 /\ vec # 33  OBVIOUS
    <3>2. QED BY <1>4, <2>2, <3>1
  <2>4. master'.irr = master.irr \ {Cascade}
    BY <1>1, <2>1, AcknowledgeChip DEF Cascade, Inputs
  <2>5. QED BY <1>1, <1>3, <2>3, <2>4
<1>8. QED BY <1>5, <1>6, <1>7 DEF Accept

LEMMA StageFlight ==
  ASSUME IInv, NEW from, NEW to \in Stages, Handler(from), Goto(to), NEW vec
  PROVE  /\ InFlight(vec) <=> Top.vec = vec /\ from \in {"cli", "eoi", "call"}
         /\ InFlight(vec)' <=> Top.vec = vec /\ to \in {"cli", "eoi", "call"}
<1>1. PICK f \in Frame :
        /\ frames = <<f>> /\ Top = f /\ f.at = from
        /\ frames' = <<[f EXCEPT !.at = to]>>
  BY NextStage
<1> DEFINE g == [f EXCEPT !.at = to]
<1>2. g.at = to /\ g.vec = f.vec  BY DEF Frame
<1>3. frames' = <<g>>  BY <1>1
<1> HIDE DEF g
<1>4. Top' = g /\ frames' # <<>> /\ frames # <<>>  BY <1>1, <1>3 DEF Top
<1>5. QED BY <1>1, <1>2, <1>4 DEF InFlight

(* Entering, acknowledging and returning move no request of a callback.    *)
LEMMA QuietFlight ==
  ASSUME IInv, NEW vec \in {IRQ0, IRQ1},
         StubEntry \/ PicAcknowledge \/ IsrHandler \/ StubSti \/ Iret
  PROVE  InFlight(vec)' <=> InFlight(vec)
<1>0. IsIrq(vec)  BY DEF IsIrq, IRQ0, IRQ1
<1>1. CASE StubEntry
  <2>1. Handler("cli") /\ Goto(IF IsIrq(Top.vec) THEN "eoi" ELSE "isr")
    BY <1>1 DEF StubEntry
  <2>2. CASE IsIrq(Top.vec)  BY <2>1, <2>2, StageFlight DEF Stages
  <2>3. CASE ~IsIrq(Top.vec)  BY <1>0, <2>1, <2>3, StageFlight DEF Stages
  <2>4. QED BY <2>2, <2>3
<1>2. CASE PicAcknowledge
  <2>1. Handler("eoi") /\ Goto("call")  BY <1>2 DEF PicAcknowledge
  <2>2. QED BY <2>1, StageFlight DEF Stages
<1>3. CASE IsrHandler
  <2>1. Handler("isr") /\ (Goto("panic") \/ Goto("sti"))  BY <1>3 DEF IsrHandler
  <2>2. QED BY <2>1, StageFlight DEF Stages
<1>4. CASE StubSti
  <2>1. Handler("sti") /\ Goto("iret")  BY <1>4 DEF StubSti
  <2>2. QED BY <2>1, StageFlight DEF Stages
<1>5. CASE Iret
  <2>1. PICK f \in Frame : /\ frames = <<f>> /\ Top = f /\ f.at = "iret"
                          /\ FrameOK(f) /\ Tail(frames) = <<>>
    BY <1>5, NextStage DEF Iret
  <2>2. Leftover(Top) = 3  BY <2>1 DEF Leftover, ErrStubs, FrameOK, PageFault
  <2>3. frames' = <<>>  BY <1>5, <2>1, <2>2 DEF Iret
  <2>4. QED BY <2>1, <2>3 DEF InFlight
<1>6. QED BY <1>1, <1>2, <1>3, <1>4, <1>5

(* Steps of kmain take nothing from the stack.                             *)
LEMMA KmainFlight ==
  ASSUME IInv, KmainStep
  PROVE  \A vec \in {IRQ0, IRQ1} : ~InFlight(vec) /\ ~InFlight(vec)'
<1>1. frames = <<>>
  BY DEF KmainStep, CheckMagic, GdtInit, InitIdt, IsrInstall, PicRemap,
     IrqInstall, EnableInterrupts, TimerRegister, PitCommand, PitLow, PitHigh,
     PrintTicks, KbdInit, PagingBuild, RegisterPageFault, EnablePaging,
     TouchUnmapped, Kmain
<1>2. CASE TouchUnmapped /\ paging
  <2>1. /\ Enter(PageFault, 4) /\ kpc \notin BeforeSti /\ ifl
    BY <1>1, <1>2, KmainCore
       DEF TouchUnmapped, Exception, ErrorCode, PageFault, BeforeSti
  <2> DEFINE f == [vec |-> PageFault, at |-> "cli", words |-> 4, iflag |-> ifl]
  <2>2. frames' = <<f>>
    <3>1. PageFault \in 0..47  BY DEF PageFault
    <3>2. QED BY <1>1, <2>1, <3>1, EnterGate
  <2>3. f.vec = PageFault  OBVIOUS
  <2> HIDE DEF f
  <2>4. QED BY <1>1, <2>2, <2>3 DEF InFlight, Top, PageFault, IRQ0, IRQ1
<1>3. CASE ~(TouchUnmapped /\ paging)
  <2>1. frames' = <<>>
    BY <1>1, <1>3
       DEF KmainStep, CheckMagic, GdtInit, InitIdt, IsrInstall, PicRemap,
       IrqInstall, EnableInterrupts, TimerRegister, PitCommand, PitLow, PitHigh,
       PrintTicks, KbdInit, PagingBuild, RegisterPageFault, EnablePaging,
       TouchUnmapped, cpuVars
  <2>2. QED BY <1>1, <2>1 DEF InFlight
<1>4. QED BY <1>2, <1>3

(* What the requests of the master become when kmain or a handler runs.    *)
LEMMA KmainRequests ==
  ASSUME IInv, KmainStep
  PROVE  /\ UNCHANGED <<ticks, kbq, echoed, typed>>
         /\ \/ master'.irr = master.irr /\ edges' = edges
            \/ master'.irr = {} /\ edges' = edges
            \/ master'.irr = master.irr \cup {Timer} /\ edges' = edges + 1
<1> USE DEF tableVars, picVars, deviceVars
<1>0. master \in Chips  BY DEF IInv
<1>1. CASE PicRemap
  <2>1. master' = Remapped(master, 32, {Cascade})  BY <1>1 DEF PicRemap
  <2>2. master'.irr = {}  BY <1>0, <2>1, RemappedChip
  <2>3. QED BY <1>1, <2>2 DEF PicRemap
<1>2. CASE PitCommand
  BY <1>0, <1>2, LatchChip DEF PitCommand, Timer, Inputs
<1>3. CASE ~(PicRemap \/ PitCommand)
  BY <1>3 DEF KmainStep, CheckMagic, GdtInit, InitIdt, IsrInstall,
     IrqInstall, EnableInterrupts, TimerRegister, PitLow, PitHigh,
     PrintTicks, KbdInit, PagingBuild, RegisterPageFault, EnablePaging, TouchUnmapped
<1>4. QED BY <1>1, <1>2, <1>3

LEMMA AcknowledgeRequests ==
  ASSUME IInv, PicAcknowledge
  PROVE  master'.irr = master.irr
<1>1. Handler("eoi") /\ master' = Command(master, PIC_EOI) /\ master \in Chips
  BY DEF PicAcknowledge, IInv
<1>2. Top.vec \in 32..47
  BY <1>1, NextStage DEF FrameOK
<1>3. InServiceOwned /\ frames # <<>> /\ Top.at = "eoi" /\ IsIrq(Top.vec)
  BY <1>1, <1>2 DEF IInv, Handler, IsIrq
<1>4. PICK i \in Inputs : master.isr \in {{}, {i}}
  <2>1. CASE Top.vec < 40
    <3>1. Top.vec - 32 \in Inputs  BY <1>2, <2>1 DEF Inputs
    <3>2. QED BY <1>3, <2>1, <3>1 DEF InServiceOwned
  <2>2. CASE ~(Top.vec < 40)  BY <1>3, <2>2 DEF InServiceOwned, Inputs, Cascade
  <2>3. QED BY <2>1, <2>2
<1>5. QED BY <1>1, <1>4, EoiChip

(* A handler leaves the requests alone, unless it reads the keyboard.      *)
LEMMA HandlerRequests ==
  ASSUME IInv, HandlerStep
  PROVE  /\ edges' = edges /\ typed' = typed
         /\ master'.irr = master.irr \/ (KbdCallback /\ master'.irr = master.irr \cup {Kbd})
<1>1. CASE PicAcknowledge
  BY <1>1, AcknowledgeRequests DEF PicAcknowledge, deviceVars
<1>2. CASE KbdCallback
  <2>1. master \in Chips  BY DEF IInv
  <2>2. QED BY <1>2, <2>1, LatchChip DEF KbdCallback, Kbd, Inputs
<1>3. CASE ~(PicAcknowledge \/ KbdCallback)
  BY <1>3 DEF HandlerStep, StubEntry, TimerCallback, NoCallback, IsrHandler,
     StubSti, Iret, picVars, deviceVars
<1>4. QED BY <1>1, <1>2, <1>3

LEMMA DeviceFlight ==
  ASSUME Device \/ UNCHANGED vars
  PROVE  UNCHANGED <<kpc, frames, ticks, irqtab>> /\ \A vec : InFlight(vec)' <=> InFlight(vec)
<1>1. UNCHANGED <<kpc, frames, ticks, irqtab>>
  BY DEF Device, PitEdge, KeyTyped, Pulse, vars, cpuVars, tableVars, deviceVars
<1>2. QED BY <1>1 DEF InFlight, Top

(* A pulse of another line is no request of the timer or the keyboard.     *)
LEMMA PulseRequests ==
  ASSUME IInv, Pulse
  PROVE  \A i \in {Timer, Kbd} : i \in master'.irr <=> i \in master.irr
<1>1. PICK l \in OtherLines :
        IF l < 8 THEN master' = Latch(master, l) /\ UNCHANGED slave
                 ELSE slave' = Latch(slave, l - 8) /\ UNCHANGED master
  BY DEF Pulse
<1>2. l \in 3..15 /\ master \in Chips  BY LineAssumption DEF IInv
<1>3. CASE l < 8
  <2>1. l \in Inputs /\ l # Timer /\ l # Kbd  BY <1>2, <1>3 DEF Inputs, Timer, Kbd
  <2>2. master'.irr = master.irr \cup {l}  BY <1>1, <1>2, <1>3, <2>1, LatchChip
  <2>3. QED BY <2>1, <2>2
<1>4. CASE ~(l < 8)  BY <1>1, <1>4
<1>5. QED BY <1>3, <1>4
-----------------------------------------------------------------------------
LEMMA TicksStep ==
  IInv /\ RestOK /\ NoPhantomTicks /\ [Next]_vars => NoPhantomTicks'
<1> SUFFICES ASSUME IInv, RestOK, NoPhantomTicks, [Next]_vars PROVE NoPhantomTicks'
  OBVIOUS
<1>0. ticks \in Nat /\ edges \in Nat /\ IRQ0 \in {IRQ0, IRQ1}
      /\ ticks + Count(Timer \in master.irr) + Count(InFlight(IRQ0)) <= edges
  BY BoundAssumption DEF RestOK, NoPhantomTicks
<1>1. CASE KmainStep
  BY <1>0, <1>1, KmainFlight, KmainRequests DEF NoPhantomTicks, Count
<1>2. CASE Accept
  <2>1. UNCHANGED <<ticks, edges>> /\ ~InFlight(IRQ0)
    BY <1>2, AcceptFlight DEF deviceVars
  <2>2. CASE InFlight(IRQ0)'
    <3>1. Timer \in master.irr /\ Timer \notin master'.irr
      <4>1. PICK i \in master.irr : master'.irr = master.irr \ {i} /\ 32 = 32 + i
        BY <1>2, <2>2, AcceptFlight DEF IRQ0
      <4>2. i \in 0..7  BY DEF IInv, Chips, Inputs
      <4>3. i = 0  BY <4>1, <4>2
      <4>4. QED BY <4>1, <4>3 DEF Timer
    <3>2. QED BY <1>0, <2>1, <2>2, <3>1 DEF NoPhantomTicks, Count
  <2>3. CASE ~InFlight(IRQ0)'
    <3>1. Timer \in master'.irr => Timer \in master.irr
      BY <1>2, AcceptFlight
    <3>2. QED BY <1>0, <2>1, <2>3, <3>1 DEF NoPhantomTicks, Count
  <2>4. QED BY <2>2, <2>3
<1>3. CASE HandlerStep
  <2>1. edges' = edges /\ (Timer \in master'.irr <=> Timer \in master.irr)
    BY <1>3, HandlerRequests DEF Timer, Kbd
  <2>2. CASE TimerCallback
    <3>1. Handler("call") /\ Goto("sti") /\ Top.vec = IRQ0 /\ ticks' = ticks + 1
      BY <2>2 DEF TimerCallback
    <3>2. InFlight(IRQ0) /\ ~InFlight(IRQ0)'
      BY <3>1, StageFlight DEF Stages
    <3>3. QED BY <1>0, <2>1, <3>1, <3>2 DEF NoPhantomTicks, Count
  <2>3. CASE NoCallback \/ KbdCallback
    <3>1. Handler("call") /\ Goto("sti") /\ ticks' = ticks
      BY <2>3 DEF NoCallback, KbdCallback, deviceVars
    <3>2. ~InFlight(IRQ0)'
      BY <3>1, StageFlight DEF Stages
    <3>3. QED BY <1>0, <2>1, <3>1, <3>2 DEF NoPhantomTicks, Count
  <2>4. CASE ~(TimerCallback \/ NoCallback \/ KbdCallback)
    <3>1. InFlight(IRQ0)' <=> InFlight(IRQ0)
      BY <1>0, <1>3, <2>4, QuietFlight DEF HandlerStep
    <3>2. ticks' = ticks
      BY <1>3, <2>4 DEF HandlerStep, StubEntry, PicAcknowledge, IsrHandler,
         StubSti, Iret, deviceVars
    <3>3. QED BY <1>0, <2>1, <3>1, <3>2 DEF NoPhantomTicks, Count
  <2>5. QED BY <2>2, <2>3, <2>4
<1>4. CASE Device \/ UNCHANGED vars
  <2>1. ticks' = ticks /\ (InFlight(IRQ0)' <=> InFlight(IRQ0))
    BY <1>4, DeviceFlight
  <2>2. CASE PitEdge
    <3>1. edges' = edges + 1  BY <2>2 DEF PitEdge
    <3>2. QED BY <1>0, <2>1, <3>1 DEF NoPhantomTicks, Count
  <2>3. CASE ~PitEdge
    <3>1. edges' = edges /\ (Timer \in master'.irr <=> Timer \in master.irr)
      <4>1. CASE KeyTyped
        <5>1. master \in Chips  BY DEF IInv
        <5>2. QED BY <4>1, <5>1, LatchChip DEF KeyTyped, Timer, Kbd, Inputs
      <4>2. CASE Pulse  BY <4>2, PulseRequests DEF Pulse
      <4>3. CASE UNCHANGED vars  BY <4>3 DEF vars, picVars, deviceVars
      <4>4. QED BY <1>4, <2>3, <4>1, <4>2, <4>3 DEF Device
    <3>2. QED BY <1>0, <2>1, <3>1 DEF NoPhantomTicks, Count
  <2>4. QED BY <2>2, <2>3
<1>5. QED BY <1>1, <1>2, <1>3, <1>4 DEF Next

(* A period of the timer is never counted twice.                           *)
THEOREM TicksAreEdges == Spec => []NoPhantomTicks
<1>1. Init => NoPhantomTicks
  BY DEF Init, NoPhantomTicks, Count, InFlight
<1>2. QED BY <1>1, TicksStep, CoreInvariant, RestInvariant, PTL DEF Spec
-----------------------------------------------------------------------------
(* The byte in port 0x60 has one request: latched, or on its way to the    *)
(* callback, never both.  Without early keys there is no byte before       *)
(* kbd_init(), and none without a request after it.                        *)
KbdInv ==
  /\ KbdHasByte
  /\ ~(Kbd \in master.irr /\ InFlight(IRQ1))
  /\ ~EarlyKeys => KbdNotStuck /\ (IRQ1 \notin irqtab => kbq = <<>>)

(* pic_remap() forgets requests while kbd_init() is still to come.         *)
BeforePic == {"magic", "gdt", "idt", "isrs", "pic"}
NoKbdYet  == kpc \in BeforePic => irqtab = {}

LEMMA NoKbdYetStep == IInv /\ NoKbdYet /\ [Next]_vars => NoKbdYet'
<1> SUFFICES ASSUME IInv, NoKbdYet, [Next]_vars PROVE NoKbdYet'  OBVIOUS
<1> USE DEF NoKbdYet, BeforePic
<1>1. CASE KmainStep
  BY <1>1 DEF KmainStep, CheckMagic, GdtInit, InitIdt, IsrInstall, PicRemap,
     IrqInstall, EnableInterrupts, TimerRegister, PitCommand, PitLow, PitHigh,
     PrintTicks, KbdInit, PagingBuild, RegisterPageFault, EnablePaging,
     TouchUnmapped, Kmain, tableVars
<1>2. CASE Accept  BY <1>2, AcceptFlight DEF tableVars
<1>3. CASE HandlerStep
  BY <1>3 DEF HandlerStep, StubEntry, PicAcknowledge, TimerCallback, KbdCallback,
     NoCallback, IsrHandler, StubSti, Iret, tableVars
<1>4. CASE Device \/ UNCHANGED vars  BY <1>4, DeviceFlight
<1>5. QED BY <1>1, <1>2, <1>3, <1>4 DEF Next

LEMMA KbdStep ==
  IInv /\ RestOK /\ NoKbdYet /\ KbdInv /\ [Next]_vars => KbdInv'
<1> SUFFICES ASSUME IInv, RestOK, NoKbdYet, KbdInv, [Next]_vars PROVE KbdInv'
  OBVIOUS
<1> USE DEF KbdInv, KbdHasByte, KbdNotStuck
<1>0. IRQ1 \in {IRQ0, IRQ1} /\ kbq \in Seq(Scancodes)  BY DEF RestOK
<1>1. CASE KmainStep
  <2>1. /\ ~InFlight(IRQ1) /\ ~InFlight(IRQ1)' /\ kbq' = kbq
    BY <1>0, <1>1, KmainFlight, KmainRequests
  <2>2. CASE PicRemap
    <3>1. master'.irr = {}
      <4>1. master' = Remapped(master, 32, {Cascade}) /\ master \in Chips
        BY <2>2 DEF PicRemap, IInv
      <4>2. QED BY <4>1, RemappedChip
    <3>2. irqtab' = irqtab /\ irqtab = {}
      BY <2>2 DEF PicRemap, Kmain, NoKbdYet, BeforePic, tableVars
    <3>3. QED BY <2>1, <3>1, <3>2
  <2>3. CASE ~PicRemap
    <3>1. Kbd \in master'.irr <=> Kbd \in master.irr
      <4>1. CASE PitCommand
        <5>1. master \in Chips  BY DEF IInv
        <5>2. QED BY <4>1, <5>1, LatchChip DEF PitCommand, Timer, Kbd, Inputs
      <4>2. CASE ~PitCommand
        BY <1>1, <2>3, <4>2 DEF KmainStep, CheckMagic, GdtInit, InitIdt, IsrInstall,
           IrqInstall, EnableInterrupts, TimerRegister, PitLow, PitHigh,
           PrintTicks, KbdInit, PagingBuild, RegisterPageFault, EnablePaging,
           TouchUnmapped, picVars
      <4>3. QED BY <4>1, <4>2
    <3>2. irqtab \subseteq irqtab'
      BY <1>1, <2>3 DEF KmainStep, CheckMagic, GdtInit, InitIdt, IsrInstall,
         IrqInstall, EnableInterrupts, TimerRegister, PitCommand, PitLow, PitHigh,
         PrintTicks, KbdInit, PagingBuild, RegisterPageFault, EnablePaging,
         TouchUnmapped, RegisterIrqHandler, tableVars
    <3>3. QED BY <2>1, <3>1, <3>2
  <2>4. QED BY <2>2, <2>3
<1>2. CASE Accept
  <2>1. /\ ~InFlight(IRQ1) /\ kbq' = kbq /\ irqtab' = irqtab
    BY <1>2, AcceptFlight DEF deviceVars, tableVars
  <2>2. CASE InFlight(IRQ1)'
    <3>1. Kbd \in master.irr /\ Kbd \notin master'.irr
      <4>1. PICK i \in master.irr : master'.irr = master.irr \ {i} /\ 33 = 32 + i
        BY <1>2, <2>2, AcceptFlight DEF IRQ1
      <4>2. i \in 0..7  BY DEF IInv, Chips, Inputs
      <4>3. i = 1  BY <4>1, <4>2
      <4>4. QED BY <4>1, <4>3 DEF Kbd
    <3>2. QED BY <2>1, <2>2, <3>1
  <2>3. CASE ~InFlight(IRQ1)'
    <3>1. Kbd \in master'.irr <=> Kbd \in master.irr
      <4>1. CASE \E i \in master.irr :
                   master'.irr = master.irr \ {i} /\ (InFlight(IRQ1)' <=> IRQ1 = 32 + i)
        BY <2>3, <4>1 DEF IRQ1, Kbd
      <4>2. CASE \E i \in master.irr \ {Kbd} : master'.irr = master.irr \ {i}
        BY <4>2
      <4>3. CASE master'.irr = master.irr \ {Cascade}
        BY <4>3 DEF Kbd, Cascade
      <4>4. QED BY <1>0, <1>2, <4>1, <4>2, <4>3, AcceptFlight
    <3>2. QED BY <2>1, <2>3, <3>1
  <2>4. QED BY <2>2, <2>3
<1>3. CASE HandlerStep
  <2>0. irqtab' = irqtab
    BY <1>3 DEF HandlerStep, StubEntry, PicAcknowledge, TimerCallback, KbdCallback,
       NoCallback, IsrHandler, StubSti, Iret, tableVars
  <2>1. CASE KbdCallback
    <3>1. Handler("call") /\ Goto("sti") /\ Top.vec = IRQ1
      BY <2>1 DEF KbdCallback
    <3>2. InFlight(IRQ1) /\ ~InFlight(IRQ1)'
      BY <3>1, StageFlight DEF Stages
    <3>3. kbq # <<>> /\ Kbd \notin master.irr /\ kbq' = Tail(kbq)
      BY <2>1, <3>2 DEF KbdCallback
    <3>4. Kbd \in master'.irr <=> kbq' # <<>>
      <4>1. master \in Chips /\ (Tail(kbq) = <<>> <=> ~(Len(kbq) > 1))
        BY <1>0, <3>3, SeqFacts DEF IInv
      <4>2. QED BY <2>1, <3>3, <4>1, LatchChip, SMTT(40) DEF KbdCallback, Kbd, Inputs
    <3>5. IRQ1 \in irqtab  BY <2>1 DEF KbdCallback
    <3>6. QED BY <2>0, <3>2, <3>4, <3>5
  <2>2. CASE ~KbdCallback
    <3>1. kbq' = kbq /\ master'.irr = master.irr
      <4>1. master'.irr = master.irr  BY <1>3, <2>2, HandlerRequests
      <4>2. QED BY <1>3, <2>2, <4>1 DEF HandlerStep, StubEntry, PicAcknowledge,
              TimerCallback, NoCallback, IsrHandler, StubSti, Iret, deviceVars
    <3>2. InFlight(IRQ1)' => InFlight(IRQ1)
      <4>1. CASE TimerCallback \/ NoCallback
        <5>1. Handler("call") /\ Goto("sti")  BY <4>1 DEF TimerCallback, NoCallback
        <5>2. QED BY <5>1, StageFlight DEF Stages
      <4>2. CASE ~(TimerCallback \/ NoCallback)
        BY <1>0, <1>3, <2>2, <4>2, QuietFlight DEF HandlerStep
      <4>3. QED BY <4>1, <4>2
    <3>3. InFlight(IRQ1) => InFlight(IRQ1)' \/ IRQ1 \notin irqtab
      <4>1. CASE TimerCallback \/ NoCallback
        <5>1. /\ Handler("call") /\ Goto("sti")
              /\ Top.vec = IRQ1 => IRQ1 \notin irqtab
          BY <4>1 DEF TimerCallback, NoCallback, IRQ0, IRQ1
        <5>2. QED BY <5>1, StageFlight DEF Stages
      <4>2. CASE ~(TimerCallback \/ NoCallback)
        BY <1>0, <1>3, <2>2, <4>2, QuietFlight DEF HandlerStep
      <4>3. QED BY <4>1, <4>2
    <3>4. QED BY <2>0, <3>1, <3>2, <3>3
  <2>3. QED BY <2>1, <2>2
<1>4. CASE Device \/ UNCHANGED vars
  <2>1. irqtab' = irqtab /\ (InFlight(IRQ1)' <=> InFlight(IRQ1))
    BY <1>4, DeviceFlight
  <2>2. CASE KeyTyped
    <3>1. kbq' # <<>>
      <4>1. PICK c \in Scancodes : kbq' = Append(kbq, c)  BY <2>2 DEF KeyTyped
      <4>2. QED BY <1>0, <4>1, SeqFacts
    <3>2. Kbd \in master'.irr <=> Kbd \in master.irr \/ kbq = <<>>
      <4>1. master \in Chips  BY DEF IInv
      <4>2. QED BY <2>2, <4>1, LatchChip DEF KeyTyped, Kbd, Inputs
    <3>3. EarlyKeys \/ IRQ1 \in irqtab  BY <2>2 DEF KeyTyped
    <3>4. QED BY <2>1, <3>1, <3>2, <3>3
  <2>3. CASE ~KeyTyped
    <3>1. kbq' = kbq /\ (Kbd \in master'.irr <=> Kbd \in master.irr)
      <4>1. CASE PitEdge
        <5>1. master \in Chips  BY DEF IInv
        <5>2. QED BY <4>1, <5>1, LatchChip DEF PitEdge, Timer, Kbd, Inputs
      <4>2. CASE Pulse  BY <4>2, PulseRequests DEF Pulse
      <4>3. CASE UNCHANGED vars  BY <4>3 DEF vars, picVars, deviceVars
      <4>4. QED BY <1>4, <2>3, <4>1, <4>2, <4>3 DEF Device
    <3>2. QED BY <2>1, <3>1
  <2>4. QED BY <2>2, <2>3
<1>5. QED BY <1>1, <1>2, <1>3, <1>4 DEF Next

LEMMA KbdInvariant == Spec => []KbdInv
<1>1. Init => KbdInv /\ NoKbdYet
  BY DEF Init, KbdInv, KbdHasByte, KbdNotStuck, InFlight, NoKbdYet
<1>2. QED
  BY <1>1, KbdStep, NoKbdYetStep, CoreInvariant, RestInvariant, PTL DEF Spec

(* kbd_callback() never reads an empty controller, early keys or not.      *)
THEOREM KeyboardHasByte == Spec => []KbdHasByte
<1>1. KbdInv => KbdHasByte  BY DEF KbdInv
<1>2. QED BY <1>1, KbdInvariant, PTL

(* The keyboard is never stuck, provided that nobody types before          *)
(* kbd_init(): with early keys the run irq_early_key refutes it.           *)
THEOREM KeyboardNotStuck == ASSUME ~EarlyKeys PROVE Spec => []KbdNotStuck
<1>1. KbdInv => KbdNotStuck  BY DEF KbdInv
<1>2. QED BY <1>1, KbdInvariant, PTL

(* Nothing runs after the panic of the page fault handler.                 *)
THEOREM PanicEnds == Spec => PanicIsFinal
<1>1. IInv /\ [Next]_vars => [Panicked => UNCHANGED <<kpc, cpuVars, ticks, echoed>>]_vars
  <2> SUFFICES ASSUME IInv, Next, Panicked
               PROVE  UNCHANGED <<kpc, cpuVars, ticks, echoed>>
    OBVIOUS
  <2>1. Handler("panic") /\ frames # <<>>  BY DEF Panicked, Handler, IInv
  <2>2. ~ifl
    <3>1. PICK f \in Frame : Top = f /\ f.at = "panic" /\ FrameOK(f)
      BY <2>1, NextStage
    <3>2. QED BY <3>1 DEF FrameOK
  <2>3. ~KmainStep
    BY <2>1 DEF KmainStep, CheckMagic, GdtInit, InitIdt, IsrInstall, PicRemap,
       IrqInstall, EnableInterrupts, TimerRegister, PitCommand, PitLow, PitHigh,
       PrintTicks, KbdInit, PagingBuild, RegisterPageFault, EnablePaging,
       TouchUnmapped, Kmain
  <2>4. ~Accept
    BY <2>2 DEF Accept, MasterInterrupt, SlaveInterrupt, SpuriousMaster, SpuriousSlave, Window
  <2>5. ~HandlerStep
    BY <2>1 DEF HandlerStep, StubEntry, PicAcknowledge, TimerCallback, KbdCallback,
       NoCallback, IsrHandler, StubSti, Iret, Handler
  <2>6. CASE Device
    BY <2>6 DEF Device, PitEdge, KeyTyped, Pulse
  <2>7. QED BY <2>3, <2>4, <2>5, <2>6 DEF Next
<1>2. QED BY <1>1, CoreInvariant, PTL DEF Spec, PanicIsFinal
-----------------------------------------------------------------------------
(* The interrupt subsystem implements IrqService, for every set of lines,  *)
(* masks and bounds: each step serves, collects, drops or leaves alone     *)
(* what the lines wait for.                                                *)

(* No device is wired to the cascade, so that nothing is ever latched at   *)
(* the input of the master that stands for all of the slave.               *)
CascadeQuiet == Cascade \notin master.irr

(* What a latch, an acknowledgement or an empty step makes of the lines    *)
(* that wait.                                                              *)
LEMMA WaitingMore ==
  ASSUME NEW l \in Lines,
         IF l < 8 THEN master'.irr = master.irr \cup {l} /\ slave'.irr = slave.irr
                  ELSE master'.irr = master.irr /\ slave'.irr = slave.irr \cup {l - 8}
  PROVE  Waiting' = Waiting \cup {l}
<1>1. \A k \in Lines : k - 8 = l - 8 <=> k = l  BY DEF Lines
<1>2. \A k \in Lines : Requested(k)' <=> Requested(k) \/ k = l
  <2> SUFFICES ASSUME NEW k \in Lines PROVE Requested(k)' <=> Requested(k) \/ k = l
    OBVIOUS
  <2>1. CASE l < 8  BY <2>1 DEF Requested, Lines
  <2>2. CASE ~(l < 8)  BY <1>1, <2>2 DEF Requested, Lines
  <2>3. QED BY <2>1, <2>2
<1>3. QED BY <1>2 DEF Waiting

LEMMA WaitingLess ==
  ASSUME NEW l \in Lines,
         IF l < 8 THEN master'.irr = master.irr \ {l} /\ slave'.irr = slave.irr
                  ELSE master'.irr = master.irr /\ slave'.irr = slave.irr \ {l - 8}
  PROVE  Waiting' = Waiting \ {l}
<1>1. \A k \in Lines : k - 8 = l - 8 <=> k = l  BY DEF Lines
<1>2. \A k \in Lines : Requested(k)' <=> Requested(k) /\ k # l
  <2> SUFFICES ASSUME NEW k \in Lines PROVE Requested(k)' <=> Requested(k) /\ k # l
    OBVIOUS
  <2>1. CASE l < 8  BY <2>1 DEF Requested, Lines
  <2>2. CASE ~(l < 8)  BY <1>1, <2>2 DEF Requested, Lines
  <2>3. QED BY <2>1, <2>2
<1>3. QED BY <1>2 DEF Waiting

LEMMA WaitingSame ==
  ASSUME master'.irr = master.irr, slave'.irr = slave.irr
  PROVE  Waiting' = Waiting
BY DEF Waiting, Requested

LEMMA WaitingNone ==
  ASSUME master'.irr = {}, slave'.irr = {}
  PROVE  Waiting' = {}
BY DEF Waiting, Requested

(* The line that is served, from the one frame on the stack.               *)
LEMMA ServedNone ==
  /\ frames = <<>> => Served = {}
  /\ frames' = <<>> => Served' = {}
BY DEF Served

LEMMA ServedOne ==
  ASSUME NEW f \in Frame, frames = <<f>>, f.vec \in 32..47 \cup {PageFault}
  PROVE  Served = IF f.vec = PageFault THEN {} ELSE {f.vec - 32}
<1>1. DOMAIN frames = {1} /\ frames[1] = f  OBVIOUS
<1>2. Served = {l \in Lines : f.vec = l + 32}  BY <1>1 DEF Served
<1>3. CASE f.vec = PageFault  BY <1>2, <1>3 DEF Lines, PageFault
<1>4. CASE f.vec \in 32..47
  <2>1. f.vec - 32 \in Lines /\ \A l \in Lines : f.vec = l + 32 <=> l = f.vec - 32
    BY <1>4 DEF Lines
  <2>2. QED BY <1>2, <1>4, <2>1 DEF PageFault
<1>5. QED BY <1>3, <1>4

LEMMA ServedOneNext ==
  ASSUME NEW f \in Frame, frames' = <<f>>, f.vec \in 32..47 \cup {PageFault}
  PROVE  Served' = IF f.vec = PageFault THEN {} ELSE {f.vec - 32}
<1>1. DOMAIN frames' = {1} /\ frames'[1] = f  OBVIOUS
<1>2. Served' = {l \in Lines : f.vec = l + 32}  BY <1>1 DEF Served
<1>3. CASE f.vec = PageFault  BY <1>2, <1>3 DEF Lines, PageFault
<1>4. CASE f.vec \in 32..47
  <2>1. f.vec - 32 \in Lines /\ \A l \in Lines : f.vec = l + 32 <=> l = f.vec - 32
    BY <1>4 DEF Lines
  <2>2. QED BY <1>2, <1>4, <2>1 DEF PageFault
<1>5. QED BY <1>3, <1>4

(* A stage of a handler goes on with the same line.                        *)
LEMMA ServedStage ==
  ASSUME IInv, NEW from, NEW to \in Stages, Handler(from), Goto(to)
  PROVE  Served' = Served
<1>1. PICK f \in Frame :
        /\ frames = <<f>> /\ FrameOK(f) /\ frames' = <<[f EXCEPT !.at = to]>>
  BY NextStage
<1> DEFINE g == [f EXCEPT !.at = to]
<1>2. g \in Frame /\ g.vec = f.vec /\ f.vec \in 32..47 \cup {PageFault}
  BY <1>1 DEF Frame, FrameOK
<1>3. frames' = <<g>>  BY <1>1
<1> HIDE DEF g
<1>4. QED BY <1>1, <1>2, <1>3, ServedOne, ServedOneNext
-----------------------------------------------------------------------------
(* Each kind of step, as a step of IrqService.                             *)
ServiceStep == [Service!Next]_(Service!vars)

LEMMA KmainServes == ASSUME IInv, KmainStep PROVE ServiceStep
<1> USE DEF tableVars, picVars, deviceVars
<1>1. frames = <<>>
  BY DEF KmainStep, CheckMagic, GdtInit, InitIdt, IsrInstall, PicRemap,
     IrqInstall, EnableInterrupts, TimerRegister, PitCommand, PitLow, PitHigh,
     PrintTicks, KbdInit, PagingBuild, RegisterPageFault, EnablePaging,
     TouchUnmapped, Kmain
<1>2. Served = {} /\ Served' = {}
  <2>1. CASE TouchUnmapped /\ paging
    <3>1. /\ Enter(PageFault, 4) /\ kpc \notin BeforeSti /\ ifl
      BY <1>1, <2>1, KmainCore, SMTT(40)
         DEF TouchUnmapped, Exception, ErrorCode, PageFault, BeforeSti
    <3> DEFINE f == [vec |-> PageFault, at |-> "cli", words |-> 4, iflag |-> ifl]
    <3>2. frames' = <<f>>
      <4>1. PageFault \in 0..47  BY DEF PageFault
      <4>2. QED BY <1>1, <3>1, <4>1, EnterGate
    <3>3. f \in Frame /\ f.vec = PageFault
      BY DEF IInv, Frame, Vectors, Stages, PageFault
    <3> HIDE DEF f
    <3>4. QED BY <1>1, <3>2, <3>3, ServedNone, ServedOneNext
  <2>2. CASE ~(TouchUnmapped /\ paging)
    <3>1. frames' = <<>>
      BY <1>1, <2>2
         DEF KmainStep, CheckMagic, GdtInit, InitIdt, IsrInstall, PicRemap,
         IrqInstall, EnableInterrupts, TimerRegister, PitCommand, PitLow, PitHigh,
         PrintTicks, KbdInit, PagingBuild, RegisterPageFault, EnablePaging,
         TouchUnmapped, cpuVars
    <3>2. QED BY <1>1, <3>1, ServedNone
  <2>3. QED BY <2>1, <2>2
<1>3. CASE PicRemap
  <2>1. master'.irr = {} /\ slave'.irr = {}
    <3>1. /\ master' = Remapped(master, 32, {Cascade}) /\ slave' = Remapped(slave, 40, Cascade)
          /\ master \in Chips /\ slave \in Chips
      BY <1>3 DEF PicRemap, IInv
    <3>2. QED BY <3>1, RemappedChip
  <2>2. ~(kpc \notin BeforeSti) /\ ~(kpc \notin BeforeSti)'
    BY <1>3 DEF PicRemap, Kmain, BeforeSti
  <2>3. Service!Forget
    BY <1>2, <2>1, <2>2, WaitingNone DEF Service!Forget
  <2>4. QED BY <2>3 DEF ServiceStep, Service!Next
<1>4. CASE EnableInterrupts
  <2>1. Waiting' = Waiting  BY <1>4, WaitingSame DEF EnableInterrupts
  <2>2. Service!Open
    BY <1>2, <1>4, <2>1 DEF Service!Open, EnableInterrupts, Kmain, BeforeSti
  <2>3. QED BY <2>2 DEF ServiceStep, Service!Next
<1>5. CASE PitCommand
  <2>1. (kpc \notin BeforeSti)' <=> kpc \notin BeforeSti
    BY <1>5 DEF PitCommand, Kmain, BeforeSti
  <2>2. CASE master' = Latch(master, Timer)
    <3>1. master'.irr = master.irr \cup {Timer} /\ slave' = slave
      BY <1>5, <2>2, LatchChip DEF PitCommand, Timer, Inputs, IInv
    <3>2. Timer \in Lines /\ Timer < 8  BY DEF Timer, Lines
    <3>3. Waiting' = Waiting \cup {Timer}  BY <3>1, <3>2, WaitingMore
    <3>4. Service!Request(Timer)  BY <1>2, <2>1, <3>3 DEF Service!Request
    <3>5. QED BY <3>2, <3>4 DEF ServiceStep, Service!Next
  <2>3. CASE master' = master
    <3>1. Waiting' = Waiting  BY <1>5, <2>3, WaitingSame DEF PitCommand
    <3>2. QED BY <1>2, <2>1, <3>1 DEF ServiceStep, Service!vars
  <2>4. QED BY <1>5, <2>2, <2>3 DEF PitCommand
<1>6. CASE ~(PicRemap \/ EnableInterrupts \/ PitCommand)
  <2>1. UNCHANGED <<master, slave>>
    BY <1>6 DEF KmainStep, CheckMagic, GdtInit, InitIdt, IsrInstall,
       IrqInstall, TimerRegister, PitLow, PitHigh,
       PrintTicks, KbdInit, PagingBuild, RegisterPageFault, EnablePaging, TouchUnmapped
  <2>2. (kpc \notin BeforeSti)' <=> kpc \notin BeforeSti
    BY <1>6 DEF KmainStep, CheckMagic, GdtInit, InitIdt, IsrInstall,
       IrqInstall, TimerRegister, PitLow, PitHigh, Kmain, BeforeSti,
       PrintTicks, KbdInit, PagingBuild, RegisterPageFault, EnablePaging, TouchUnmapped
  <2>3. Waiting' = Waiting  BY <2>1, WaitingSame
  <2>4. QED BY <1>2, <2>2, <2>3 DEF ServiceStep, Service!vars
<1>7. QED BY <1>3, <1>4, <1>5, <1>6

(* The request that the CPU takes is served, or a spurious line in its     *)
(* place.                                                                  *)
LEMMA BeginServes ==
  ASSUME IInv, Window, NEW l \in Lines, NEW vec \in 32..47, Enter(vec, 3),
         kpc' = kpc, Requested(l), Waiting' = Waiting \ {l},
         vec - 32 \in {l, 7, 15}
  PROVE  ServiceStep
<1>1. frames = <<>> /\ kpc \notin BeforeSti /\ ifl  BY OpenWindow
<1> DEFINE f == [vec |-> vec, at |-> "cli", words |-> 3, iflag |-> ifl]
<1>2. frames' = <<f>>
  <2>1. vec \in 0..47  OBVIOUS
  <2>2. QED BY <1>1, <2>1, EnterGate
<1>3. f \in Frame /\ f.vec = vec  BY DEF IInv, Frame, Vectors, Stages
<1> HIDE DEF f
<1>4. Served = {} /\ Served' = {vec - 32}
  BY <1>1, <1>2, <1>3, ServedNone, ServedOneNext, SMTT(40) DEF PageFault
<1>5. vec - 32 \in Lines  BY DEF Lines
<1>6. l \in Waiting  BY DEF Waiting
<1>7. Service!Begin(l, vec - 32)
  BY <1>1, <1>4, <1>6 DEF Service!Begin
<1>8. QED BY <1>5, <1>7 DEF ServiceStep, Service!Next

LEMMA AcceptServes == ASSUME IInv, CascadeQuiet, Accept PROVE ServiceStep
<1>1. /\ Window /\ kpc' = kpc
      /\ master \in Chips /\ slave \in Chips
  BY DEF Accept, MasterInterrupt, SlaveInterrupt, SpuriousMaster, SpuriousSlave, IInv
<1>2. /\ master.base = 32 /\ slave.base = 40
      /\ MasterRequests # {} /\ Min(MasterRequests) \in Inputs
      /\ SlaveRequests # {} => Min(SlaveRequests) \in slave.irr \cap 0..7
      /\ Min(MasterRequests) # Cascade => Min(MasterRequests) \in master.irr \cap 0..7
  <2>1. MasterRequests # {}
    BY DEF Accept, MasterInterrupt, SlaveInterrupt, SpuriousMaster, SpuriousSlave
  <2>2. MasterRequests \subseteq master.irr \cup {Cascade} /\ SlaveRequests \subseteq slave.irr
    BY DEF MasterRequests, SlaveRequests, Eligible
  <2>3. QED BY <1>1, <2>1, <2>2, OpenWindow, Requests DEF Inputs
<1>3. Acknowledge(master, Cascade).irr = master.irr
  <2>1. Cascade \in Inputs  BY DEF Cascade, Inputs
  <2>2. Acknowledge(master, Cascade).irr = master.irr \ {Cascade}
    BY <1>1, <2>1, AcknowledgeChip
  <2>3. QED BY <2>2 DEF CascadeQuiet
<1>4. CASE MasterInterrupt
  <2> DEFINE i == Min(MasterRequests)
  <2>1. /\ i \in master.irr /\ i \in 0..7 /\ Enter(32 + i, 3)
        /\ master' = Acknowledge(master, i) /\ slave' = slave
    BY <1>2, <1>4 DEF MasterInterrupt
  <2> HIDE DEF i
  <2>2. master'.irr = master.irr \ {i}
    BY <1>1, <2>1, AcknowledgeChip DEF Inputs
  <2>3. i \in Lines /\ i < 8 /\ 32 + i \in 32..47 /\ (32 + i) - 32 = i
    BY <2>1 DEF Lines
  <2>4. Waiting' = Waiting \ {i}  BY <2>1, <2>2, <2>3, WaitingLess
  <2>5. Requested(i)  BY <2>1, <2>3 DEF Requested
  <2>6. QED BY <1>1, <2>1, <2>3, <2>4, <2>5, BeginServes
<1>5. CASE SpuriousMaster
  <2> DEFINE i == Min(MasterRequests)
  <2>1. /\ i \in master.irr /\ i \in 0..7 /\ Enter(39, 3)
        /\ master' = Withdraw(master, i) /\ slave' = slave
    BY <1>2, <1>5 DEF SpuriousMaster, SpuriousInput
  <2> HIDE DEF i
  <2>2. master'.irr = master.irr \ {i}
    BY <1>1, <2>1, WithdrawChip DEF Inputs
  <2>3. i \in Lines /\ i < 8 /\ 39 \in 32..47 /\ 39 - 32 = 7
    BY <2>1 DEF Lines
  <2>4. Waiting' = Waiting \ {i}  BY <2>1, <2>2, <2>3, WaitingLess
  <2>5. Requested(i)  BY <2>1, <2>3 DEF Requested
  <2>6. QED BY <1>1, <2>1, <2>3, <2>4, <2>5, BeginServes
<1>6. CASE SlaveInterrupt
  <2> DEFINE j == Min(SlaveRequests)
  <2>1. /\ j \in slave.irr /\ j \in 0..7 /\ Enter(40 + j, 3)
        /\ master' = Acknowledge(master, Cascade) /\ slave' = Acknowledge(slave, j)
    BY <1>2, <1>6 DEF SlaveInterrupt
  <2> HIDE DEF j
  <2>2. master'.irr = master.irr /\ slave'.irr = slave.irr \ {j}
    BY <1>1, <1>3, <2>1, AcknowledgeChip DEF Inputs
  <2>3. 8 + j \in Lines /\ ~(8 + j < 8) /\ (8 + j) - 8 = j
        /\ 40 + j \in 32..47 /\ (40 + j) - 32 = 8 + j
    BY <2>1 DEF Lines
  <2>4. Waiting' = Waiting \ {8 + j}  BY <2>2, <2>3, WaitingLess
  <2>5. Requested(8 + j)  BY <2>1, <2>3 DEF Requested
  <2>6. QED BY <1>1, <2>1, <2>3, <2>4, <2>5, BeginServes
<1>7. CASE SpuriousSlave
  <2> DEFINE j == Min(SlaveRequests)
  <2>1. /\ j \in slave.irr /\ j \in 0..7 /\ Enter(47, 3)
        /\ master' = Acknowledge(master, Cascade) /\ slave' = Withdraw(slave, j)
    BY <1>2, <1>7 DEF SpuriousSlave, SpuriousInput
  <2> HIDE DEF j
  <2>2. master'.irr = master.irr /\ slave'.irr = slave.irr \ {j}
    BY <1>1, <1>3, <2>1, WithdrawChip DEF Inputs
  <2>3. 8 + j \in Lines /\ ~(8 + j < 8) /\ (8 + j) - 8 = j
        /\ 47 \in 32..47 /\ 47 - 32 = 15
    BY <2>1 DEF Lines
  <2>4. Waiting' = Waiting \ {8 + j}  BY <2>2, <2>3, WaitingLess
  <2>5. Requested(8 + j)  BY <2>1, <2>3 DEF Requested
  <2>6. QED BY <1>1, <2>1, <2>3, <2>4, <2>5, BeginServes
<1>8. QED BY <1>4, <1>5, <1>6, <1>7 DEF Accept

(* The EOI forgets no request of the slave either.                         *)
LEMMA AcknowledgeKeepsWaiting ==
  ASSUME IInv, PicAcknowledge
  PROVE  Waiting' = Waiting
<1>1. Handler("eoi") /\ slave \in Chips  BY DEF PicAcknowledge, IInv
<1>2. Top.vec \in 32..47  BY <1>1, NextStage, SMTT(40) DEF FrameOK
<1>3. slave'.irr = slave.irr
  <2>1. CASE Top.vec >= 40
    <3>1. PICK j \in Inputs : slave.isr \in {{}, {j}}
      <4>1. InServiceOwned /\ frames # <<>> /\ Top.at = "eoi" /\ IsIrq(Top.vec)
        BY <1>1, <1>2 DEF IInv, Handler, IsIrq
      <4>2. Top.vec - 40 \in Inputs  BY <1>2, <2>1 DEF Inputs
      <4>3. QED BY <1>2, <2>1, <4>1, <4>2 DEF InServiceOwned
    <3>2. slave' = Command(slave, PIC_EOI)  BY <2>1 DEF PicAcknowledge
    <3>3. QED BY <1>1, <3>1, <3>2, EoiChip
  <2>2. CASE ~(Top.vec >= 40)  BY <2>2 DEF PicAcknowledge
  <2>3. QED BY <2>1, <2>2
<1>4. QED BY <1>3, AcknowledgeRequests, WaitingSame

LEMMA HandlerServes == ASSUME IInv, HandlerStep PROVE ServiceStep
<1>0. kpc' = kpc
  BY DEF HandlerStep, StubEntry, PicAcknowledge, TimerCallback, KbdCallback,
     NoCallback, IsrHandler, StubSti, Iret
<1>1. ~Iret => Served' = Served
  <2>1. CASE StubEntry
    <3>1. Handler("cli") /\ (Goto("eoi") \/ Goto("isr"))  BY <2>1 DEF StubEntry
    <3>2. QED BY <3>1, ServedStage DEF Stages
  <2>2. CASE PicAcknowledge
    <3>1. Handler("eoi") /\ Goto("call")  BY <2>2 DEF PicAcknowledge
    <3>2. QED BY <3>1, ServedStage DEF Stages
  <2>3. CASE TimerCallback \/ KbdCallback \/ NoCallback
    <3>1. Handler("call") /\ Goto("sti")
      BY <2>3 DEF TimerCallback, KbdCallback, NoCallback
    <3>2. QED BY <3>1, ServedStage DEF Stages
  <2>4. CASE IsrHandler
    <3>1. Handler("isr") /\ (Goto("panic") \/ Goto("sti"))  BY <2>4 DEF IsrHandler
    <3>2. QED BY <3>1, ServedStage DEF Stages
  <2>5. CASE StubSti
    <3>1. Handler("sti") /\ Goto("iret")  BY <2>5 DEF StubSti
    <3>2. QED BY <3>1, ServedStage DEF Stages
  <2>6. QED BY <2>1, <2>2, <2>3, <2>4, <2>5 DEF HandlerStep
<1>2. CASE PicAcknowledge
  <2>1. Waiting' = Waiting /\ ~Iret
    BY <1>2, AcknowledgeKeepsWaiting DEF PicAcknowledge, Iret, Handler
  <2>2. QED BY <1>0, <1>1, <2>1 DEF ServiceStep, Service!vars
<1>3. CASE KbdCallback
  <2>1. Served' = Served  BY <1>1, <1>3 DEF KbdCallback, Iret, Handler
  <2>2. CASE master' = master
    <3>1. Waiting' = Waiting  BY <1>3, <2>2, WaitingSame DEF KbdCallback
    <3>2. QED BY <1>0, <2>1, <3>1 DEF ServiceStep, Service!vars
  <2>3. CASE master' = Latch(master, Kbd)
    <3>1. master'.irr = master.irr \cup {Kbd} /\ slave' = slave
      BY <1>3, <2>3, LatchChip DEF KbdCallback, Kbd, Inputs, IInv
    <3>2. Kbd \in Lines /\ Kbd < 8  BY DEF Kbd, Lines
    <3>3. Waiting' = Waiting \cup {Kbd}  BY <3>1, <3>2, WaitingMore
    <3>4. Service!Request(Kbd)  BY <1>0, <2>1, <3>3 DEF Service!Request
    <3>5. QED BY <3>2, <3>4 DEF ServiceStep, Service!Next
  <2>4. QED BY <1>3, <2>2, <2>3 DEF KbdCallback
<1>4. CASE Iret
  <2>1. PICK f \in Frame :
          /\ frames = <<f>> /\ Top = f /\ FrameOK(f) /\ Tail(frames) = <<>>
    BY <1>4, NextStage DEF Iret
  <2>2. Leftover(Top) = 3  BY <2>1 DEF Leftover, ErrStubs, FrameOK, PageFault
  <2>3. frames' = <<>> /\ UNCHANGED <<master, slave>>
    BY <1>4, <2>1, <2>2 DEF Iret, picVars
  <2>4. Served' = {} /\ Waiting' = Waiting  BY <2>3, ServedNone, WaitingSame
  <2>5. CASE Served = {}  BY <1>0, <2>4, <2>5 DEF ServiceStep, Service!vars
  <2>6. CASE Served # {}
    <3>1. Service!Finish  BY <1>0, <2>4, <2>6 DEF Service!Finish
    <3>2. QED BY <3>1 DEF ServiceStep, Service!Next
  <2>7. QED BY <2>5, <2>6
<1>5. CASE ~(PicAcknowledge \/ KbdCallback \/ Iret)
  <2>1. UNCHANGED <<master, slave>>
    BY <1>5 DEF HandlerStep, StubEntry, TimerCallback, NoCallback, IsrHandler,
       StubSti, picVars
  <2>2. Waiting' = Waiting  BY <2>1, WaitingSame
  <2>3. QED BY <1>0, <1>1, <1>5, <2>2 DEF ServiceStep, Service!vars
<1>6. QED BY <1>2, <1>3, <1>4, <1>5

LEMMA DeviceServes == ASSUME IInv, Device \/ UNCHANGED vars PROVE ServiceStep
<1>1. UNCHANGED <<kpc, frames>> /\ Served' = Served
  <2>1. UNCHANGED <<kpc, frames>>  BY DeviceFlight
  <2>2. QED BY <2>1 DEF Served
<1>2. ASSUME NEW l \in Lines, Waiting' = Waiting \cup {l} PROVE ServiceStep
  <2>1. Service!Request(l)  BY <1>1, <1>2 DEF Service!Request
  <2>2. QED BY <2>1 DEF ServiceStep, Service!Next
<1>3. CASE UNCHANGED <<master, slave>>
  <2>1. Waiting' = Waiting  BY <1>3, WaitingSame
  <2>2. QED BY <1>1, <2>1 DEF ServiceStep, Service!vars
<1>4. ASSUME NEW l \in 0..7, master' = Latch(master, l), slave' = slave PROVE ServiceStep
  <2>1. l \in Lines /\ l < 8 /\ l \in Inputs  BY DEF Lines, Inputs
  <2>2. master'.irr = master.irr \cup {l}  BY <1>4, <2>1, LatchChip DEF IInv
  <2>3. Waiting' = Waiting \cup {l}  BY <1>4, <2>1, <2>2, WaitingMore
  <2>4. QED BY <1>2, <2>1, <2>3
<1>5. CASE PitEdge  BY <1>4, <1>5 DEF PitEdge, Timer
<1>6. CASE KeyTyped  BY <1>3, <1>4, <1>6 DEF KeyTyped, Kbd
<1>7. CASE Pulse
  <2>1. PICK l \in OtherLines :
          IF l < 8 THEN master' = Latch(master, l) /\ UNCHANGED slave
                   ELSE slave' = Latch(slave, l - 8) /\ UNCHANGED master
    BY <1>7 DEF Pulse
  <2>2. l \in 3..15  BY LineAssumption
  <2>3. CASE l < 8  BY <1>4, <2>1, <2>2, <2>3
  <2>4. CASE ~(l < 8)
    <3>1. l \in Lines /\ l - 8 \in Inputs  BY <2>2, <2>4 DEF Lines, Inputs
    <3>2. slave'.irr = slave.irr \cup {l - 8} /\ master' = master
      BY <2>1, <2>4, <3>1, LatchChip DEF IInv
    <3>3. Waiting' = Waiting \cup {l}  BY <2>4, <3>1, <3>2, WaitingMore
    <3>4. QED BY <1>2, <3>1, <3>3
  <2>5. QED BY <2>3, <2>4
<1>8. CASE UNCHANGED vars  BY <1>3, <1>8 DEF vars, picVars
<1>9. QED BY <1>5, <1>6, <1>7, <1>8 DEF Device
-----------------------------------------------------------------------------
LEMMA CascadeStep == IInv /\ CascadeQuiet /\ [Next]_vars => CascadeQuiet'
<1> SUFFICES ASSUME IInv, CascadeQuiet, [Next]_vars PROVE CascadeQuiet'  OBVIOUS
<1> USE DEF CascadeQuiet
<1>1. CASE KmainStep  BY <1>1, KmainRequests DEF Cascade, Timer
<1>2. CASE Accept  BY <1>2, AcceptFlight
<1>3. CASE HandlerStep  BY <1>3, HandlerRequests DEF Cascade, Kbd
<1>4. CASE Device \/ UNCHANGED vars
  <2>0. master \in Chips  BY DEF IInv
  <2>1. CASE PitEdge
    BY <2>0, <2>1, LatchChip DEF PitEdge, Timer, Cascade, Inputs
  <2>2. CASE KeyTyped
    BY <2>0, <2>2, LatchChip DEF KeyTyped, Kbd, Cascade, Inputs
  <2>3. CASE Pulse
    <3>1. PICK l \in OtherLines :
            IF l < 8 THEN master' = Latch(master, l) /\ UNCHANGED slave
                     ELSE slave' = Latch(slave, l - 8) /\ UNCHANGED master
      BY <2>3 DEF Pulse
    <3>2. l \in 3..15  BY LineAssumption
    <3>3. CASE l < 8
      <4>1. l \in Inputs /\ l # Cascade  BY <3>2, <3>3 DEF Inputs, Cascade
      <4>2. QED BY <2>0, <3>1, <3>3, <4>1, LatchChip
    <3>4. CASE ~(l < 8)  BY <3>1, <3>4
    <3>5. QED BY <3>3, <3>4
  <2>4. CASE UNCHANGED vars  BY <2>4 DEF vars, picVars
  <2>5. QED BY <1>4, <2>1, <2>2, <2>3, <2>4 DEF Device
<1>5. QED BY <1>1, <1>2, <1>3, <1>4 DEF Next

(* The controllers, the stubs and the stack implement IrqService: however  *)
(* the requests, the spurious interrupts and the steps of kmain fall, the  *)
(* lines are served one at a time, each request at most once, and none is  *)
(* forgotten after sti.                                                    *)
THEOREM InterruptsServe == Spec => ServesRequests
<1>1. Init => Service!Init
  <2>1. ASSUME Init PROVE Waiting = {} /\ Served = {} /\ kpc \in BeforeSti
    BY <2>1 DEF Init, Waiting, Requested, Served, BeforeSti
  <2>2. QED BY <2>1 DEF Service!Init
<1>2. Init => CascadeQuiet  BY DEF Init, CascadeQuiet
<1>3. IInv /\ CascadeQuiet /\ [Next]_vars => [Service!Next]_(Service!vars)
  BY KmainServes, AcceptServes, HandlerServes, DeviceServes DEF Next, ServiceStep
<1>4. QED
  BY <1>1, <1>2, <1>3, CascadeStep, CoreInvariant, PTL
     DEF Spec, ServesRequests, Service!Spec
-----------------------------------------------------------------------------
(* Pressed(), which keeps the scancodes that are no releases, from the     *)
(* recursion that defines it.                                              *)
LEMMA PressedRecursion ==
  \A s \in Seq(Scancodes) : \E kept :
    /\ Pressed(s) = kept[Len(s)] /\ kept[0] = <<>>
    /\ \A i \in 1..Len(s) :
         kept[i] = IF Released(s[i]) THEN kept[i - 1] ELSE Append(kept[i - 1], s[i])
<1> SUFFICES ASSUME NEW s \in Seq(Scancodes)
             PROVE  \E kept :
                      /\ Pressed(s) = kept[Len(s)] /\ kept[0] = <<>>
                      /\ \A i \in 1..Len(s) :
                           kept[i] = IF Released(s[i]) THEN kept[i - 1]
                                     ELSE Append(kept[i - 1], s[i])
  OBVIOUS
<1> DEFINE n == Len(s)
           Kept(i, t) == IF Released(s[i]) THEN t ELSE Append(t, s[i])
           Of(F) == [i \in 0..n |-> IF i = 0 THEN <<>> ELSE Kept(i, F[i - 1])]
           K == CHOOSE F : F = Of(F)
<1>0. n \in Nat /\ \A i \in 1..n : s[i] \in Scancodes  BY LenProperties, ElementOfSeq
<1>1. \E F : F = Of(F)
  <2>1. ASSUME NEW X, X = Seq(Scancodes) PROVE \E F : F = Of(F)
    <3> DEFINE g == [i \in 1..n |-> [t \in X |-> Kept(i, t)]]
    <3>1. \A t \in X, e \in Scancodes : Append(t, e) \in X  BY <2>1, AppendProperties
    <3>2. g \in [1..n -> [X -> X]]  BY <1>0, <3>1
    <3>3. \A i \in 1..n, t \in X : g[i][t] = Kept(i, t)  OBVIOUS
    <3>4. <<>> \in X  BY <2>1, EmptySeq
    <3> HIDE DEF g, n, Kept
    <3>5. PICK f \in [0..n -> X] : f[0] = <<>> /\ \A i \in 1..n : f[i] = g[i][f[i - 1]]
      <4>1. \A a \in X : \A m \in Nat : \A h \in [1..m -> [X -> X]] :
              \E f \in [0..m -> X] : f[0] = a /\ \A i \in 1..m : f[i] = h[i][f[i - 1]]
        BY Recursion, SMTT(40)
      <4>2. QED BY <1>0, <3>2, <3>4, <4>1, SMTT(40)
    <3>6. \A i \in 1..n : f[i] = Kept(i, f[i - 1])
      <4>1. \A i \in 1..n : i - 1 \in 0..n  BY <1>0
      <4>2. QED BY <3>3, <3>5, <4>1
    <3>7. \A i \in 0..n : i = 0 \/ i \in 1..n  BY <1>0
    <3>8. \A i \in 0..n : f[i] = Of(f)[i]  BY <3>5, <3>6, <3>7, Zenon
    <3>9. DOMAIN f = 0..n /\ DOMAIN Of(f) = 0..n  BY <3>5
    <3>10. f = Of(f)  BY <3>5, <3>8, <3>9, Zenon
    <3>11. QED BY <3>10
  <2>2. QED BY <2>1
<1>2. K = Of(K)
  <2> HIDE DEF Of
  <2>1. QED BY <1>1
<1>3. Pressed(s) = K[n]  BY DEF Pressed
<1> HIDE DEF K, n, Kept
<1>4. \A i \in 0..n : K[i] = IF i = 0 THEN <<>> ELSE Kept(i, K[i - 1])
  BY <1>2, Zenon
<1>5. 0 \in 0..n /\ \A i \in 1..n : i \in 0..n /\ i # 0  BY <1>0
<1>6. K[0] = <<>> /\ \A i \in 1..n : K[i] = Kept(i, K[i - 1])
  BY <1>4, <1>5
<1>7. QED BY <1>3, <1>6 DEF n, Kept

LEMMA Joined ==
  \A r, s, t \in Seq(Scancodes) : (r \o s) \o t = r \o (s \o t)
OBVIOUS

LEMMA PressedEmpty == Pressed(<<>>) = <<>>
<1>1. <<>> \in Seq(Scancodes) /\ Len(<<>>) = 0  BY EmptySeq
<1>2. QED BY <1>1, PressedRecursion

LEMMA PressedAppend ==
  ASSUME NEW s \in Seq(Scancodes), NEW c \in Scancodes
  PROVE  /\ Pressed(s) \in Seq(Scancodes)
         /\ Pressed(Append(s, c)) = IF Released(c) THEN Pressed(s) ELSE Append(Pressed(s), c)
<1> DEFINE n == Len(s)
           t == Append(s, c)
           X == Seq(Scancodes)
<1>0. n \in Nat /\ \A i \in 1..n : s[i] \in Scancodes  BY LenProperties, ElementOfSeq
<1>1. /\ t \in X /\ Len(t) = n + 1 /\ t[n + 1] = c
      /\ \A i \in 1..n : t[i] = s[i]
  BY AppendProperties
<1>2. PICK k : /\ Pressed(s) = k[n] /\ k[0] = <<>>
               /\ \A i \in 1..n : k[i] = IF Released(s[i]) THEN k[i - 1] ELSE Append(k[i - 1], s[i])
  BY PressedRecursion, Zenon
<1> HIDE DEF t
<1>3. PICK l : /\ Pressed(t) = l[n + 1] /\ l[0] = <<>>
               /\ \A i \in 1..(n + 1) :
                    l[i] = IF Released(t[i]) THEN l[i - 1] ELSE Append(l[i - 1], t[i])
  <2> HIDE DEF n
  <2>1. \E l : /\ Pressed(t) = l[Len(t)] /\ l[0] = <<>>
               /\ \A i \in 1..Len(t) :
                    l[i] = IF Released(t[i]) THEN l[i - 1] ELSE Append(l[i - 1], t[i])
    <3>1. t \in Seq(Scancodes)  BY <1>1
    <3> HIDE DEF X
    <3>2. QED BY <3>1, PressedRecursion, Zenon
  <2>2. Len(t) = n + 1  BY <1>1
  <2>3. QED BY <2>1, <2>2, Zenon
<1> HIDE DEF n
<1>4. \A i \in 0..n : k[i] \in X
  <2>1. k[0] \in X  BY <1>2, EmptySeq
  <2>2. ASSUME NEW i \in 1..n, k[i - 1] \in X PROVE k[i] \in X
    <3>1. s[i] \in Scancodes  BY <1>0
    <3>2. Append(k[i - 1], s[i]) \in X  BY <2>2, <3>1, AppendProperties
    <3>3. QED BY <1>2, <2>2, <3>2
  <2> HIDE DEF X
  <2>3. QED BY <1>0, <2>1, <2>2, RecursionStays
<1>5. \A i \in 0..n : k[i] = l[i]
  <2> DEFINE N == {i \in Nat : i <= n => k[i] = l[i]}
  <2>1. 0 \in N  BY <1>2, <1>3
  <2>2. ASSUME NEW i \in Nat, i \in N PROVE i + 1 \in N
    <3> SUFFICES ASSUME i + 1 <= n PROVE k[i + 1] = l[i + 1]  OBVIOUS
    <3>1. i + 1 \in 1..n /\ i + 1 \in 1..(n + 1) /\ (i + 1) - 1 = i  BY <1>0
    <3>2. k[i] = l[i]  BY <1>0, <2>2, <3>1
    <3>3. t[i + 1] = s[i + 1]  BY <1>1, <3>1
    <3>4. k[i + 1] = IF Released(s[i + 1]) THEN k[i] ELSE Append(k[i], s[i + 1])
      BY <1>2, <3>1
    <3>5. l[i + 1] = IF Released(t[i + 1]) THEN l[i] ELSE Append(l[i], t[i + 1])
      BY <1>3, <3>1
    <3>6. QED BY <3>2, <3>3, <3>4, <3>5
  <2> HIDE DEF N
  <2>3. Nat \subseteq N  BY <2>1, <2>2, SetInduction
  <2>4. QED BY <1>0, <2>3 DEF N
<1>6. n \in 0..n /\ n + 1 \in 1..(n + 1) /\ (n + 1) - 1 = n  BY <1>0
<1>7. l[n + 1] = IF Released(c) THEN l[n] ELSE Append(l[n], c)
  BY <1>1, <1>3, <1>6
<1>8. QED BY <1>2, <1>3, <1>4, <1>5, <1>6, <1>7 DEF t

(* The head of the queue is kept or not; the rest is what is kept of it.   *)
LEMMA PressedHead ==
  ASSUME NEW s \in Seq(Scancodes), s # <<>>
  PROVE  Pressed(s) = (IF Released(Head(s)) THEN <<>> ELSE <<Head(s)>>) \o Pressed(Tail(s))
<1> DEFINE First(c) == IF Released(c) THEN <<>> ELSE <<c>>
           S == {r \in Seq(Scancodes) :
                   r # <<>> => Pressed(r) = First(Head(r)) \o Pressed(Tail(r))}
<1>1. <<>> \in S  BY EmptySeq
<1>2. ASSUME NEW r \in Seq(Scancodes), NEW e \in Scancodes, r \in S
      PROVE  Append(r, e) \in S
  <2>0. Append(r, e) \in Seq(Scancodes)  BY AppendProperties
  <2>1. First(e) \in Seq(Scancodes) /\ \A c \in Scancodes : First(c) \in Seq(Scancodes)
    OBVIOUS
  <2>2. Pressed(r) \in Seq(Scancodes)
        /\ Pressed(Append(r, e)) = Pressed(r) \o First(e)
    <3>1. /\ Pressed(r) \in Seq(Scancodes)
          /\ Pressed(Append(r, e)) = IF Released(e) THEN Pressed(r) ELSE Append(Pressed(r), e)
      BY PressedAppend
    <3>2. Append(Pressed(r), e) = Pressed(r) \o <<e>>  BY <3>1, AppendIsConcat
    <3>3. Pressed(r) \o <<>> = Pressed(r)  BY <3>1, ConcatEmptySeq
    <3>4. QED BY <3>1, <3>2, <3>3
  <2>3. CASE r = <<>>
    <3>1. Head(Append(r, e)) = e /\ Tail(Append(r, e)) = <<>>  BY <2>3, HeadTailAppend
    <3>2. <<>> \o First(e) = First(e) /\ First(e) \o <<>> = First(e)
      BY <2>1, ConcatEmptySeq
    <3> HIDE DEF First
    <3>3. QED BY <2>0, <2>2, <2>3, <3>1, <3>2, PressedEmpty
  <2>4. CASE r # <<>>
    <3>1. Head(r) \in Scancodes /\ Tail(r) \in Seq(Scancodes)  BY <2>4, HeadTailProperties
    <3>2. Head(Append(r, e)) = Head(r) /\ Tail(Append(r, e)) = Append(Tail(r), e)
      BY <2>4, HeadTailAppend
    <3>3. /\ Pressed(Tail(r)) \in Seq(Scancodes)
          /\ Pressed(Append(Tail(r), e)) = Pressed(Tail(r)) \o First(e)
      <4>1. /\ Pressed(Tail(r)) \in Seq(Scancodes)
            /\ Pressed(Append(Tail(r), e))
                 = IF Released(e) THEN Pressed(Tail(r)) ELSE Append(Pressed(Tail(r)), e)
        BY <3>1, PressedAppend
      <4>2. Append(Pressed(Tail(r)), e) = Pressed(Tail(r)) \o <<e>>  BY <4>1, AppendIsConcat
      <4>3. Pressed(Tail(r)) \o <<>> = Pressed(Tail(r))  BY <4>1, ConcatEmptySeq
      <4>4. QED BY <4>1, <4>2, <4>3
    <3>4. First(Head(r)) \in Seq(Scancodes)  BY <2>1, <3>1
    <3> HIDE DEF First
    <3>5. Pressed(r) = First(Head(r)) \o Pressed(Tail(r))
      BY <1>2, <2>4
    <3>6. (First(Head(r)) \o Pressed(Tail(r))) \o First(e)
            = First(Head(r)) \o (Pressed(Tail(r)) \o First(e))
      BY <2>1, <3>3, <3>4, Joined, ZenonT(40)
    <3>7. QED BY <2>0, <2>2, <3>2, <3>3, <3>5, <3>6
  <2>5. QED BY <2>3, <2>4
<1> HIDE DEF S
<1>3. Seq(Scancodes) \subseteq S  BY <1>1, <1>2, SeqInduction
<1>4. QED BY <1>3 DEF S
-----------------------------------------------------------------------------
LEMMA KeysStep ==
  IInv /\ RestOK /\ KbdHasByte /\ KeysInOrder /\ [Next]_vars => KeysInOrder'
<1> SUFFICES ASSUME IInv, RestOK, KbdHasByte, KeysInOrder, [Next]_vars PROVE KeysInOrder'
  OBVIOUS
<1> DEFINE X == Seq(Scancodes)
<1>0. /\ kbq \in X /\ echoed \in X /\ typed \in X
      /\ Pressed(kbq) \in X /\ Pressed(typed) \in X
      /\ Pressed(typed) = echoed \o Pressed(kbq)
  <2>1. kbq \in X /\ echoed \in X /\ typed \in X  BY DEF RestOK
  <2>2. CASE Scancodes = {}
    <3>1. kbq = <<>> /\ typed = <<>>  BY <2>1, <2>2
    <3>2. QED BY <2>1, <3>1, PressedEmpty, EmptySeq DEF KeysInOrder
  <2>3. CASE Scancodes # {}
    <3>1. \A s \in Seq(Scancodes) : Pressed(s) \in Seq(Scancodes)
      BY <2>3, PressedAppend
    <3>2. QED BY <2>1, <3>1 DEF KeysInOrder
  <2>4. QED BY <2>2, <2>3
<1>1. CASE KeyTyped
  <2>1. PICK c \in Scancodes : typed' = Append(typed, c) /\ kbq' = Append(kbq, c)
    BY <1>1 DEF KeyTyped
  <2>2. echoed' = echoed  BY <1>1 DEF KeyTyped
  <2>3. /\ Pressed(typed') = IF Released(c) THEN Pressed(typed) ELSE Append(Pressed(typed), c)
        /\ Pressed(kbq') = IF Released(c) THEN Pressed(kbq) ELSE Append(Pressed(kbq), c)
    BY <1>0, <2>1, PressedAppend
  <2>4. Append(echoed \o Pressed(kbq), c) = echoed \o Append(Pressed(kbq), c)
    <3>1. /\ Append(echoed \o Pressed(kbq), c) = (echoed \o Pressed(kbq)) \o <<c>>
          /\ Append(Pressed(kbq), c) = Pressed(kbq) \o <<c>>
      BY <1>0, AppendIsConcat
    <3>2. <<c>> \in X  OBVIOUS
    <3>3. QED BY <1>0, <3>1, <3>2, Joined, SMTT(40)
  <2>5. QED BY <1>0, <2>2, <2>3, <2>4 DEF KeysInOrder
<1>2. CASE KbdCallback
  <2>1. kbq # <<>>
    <3>1. InFlight(IRQ1)  BY <1>2 DEF KbdCallback, Handler, InFlight
    <3>2. QED BY <3>1 DEF KbdHasByte
  <2> DEFINE c == Head(kbq)
             q == Tail(kbq)
  <2>2. /\ typed' = typed /\ kbq' = q
        /\ echoed' = IF Released(c) THEN echoed ELSE Append(echoed, c)
    BY <1>2, <2>1 DEF KbdCallback
  <2>3. c \in Scancodes /\ q \in X  BY <1>0, <2>1, HeadTailProperties
  <2>4. Pressed(kbq) = (IF Released(c) THEN <<>> ELSE <<c>>) \o Pressed(q)
    BY <1>0, <2>1, PressedHead
  <2>5. Pressed(q) \in X  BY <2>3, PressedAppend
  <2> HIDE DEF c, q
  <2>6. CASE Released(c)
    <3>1. <<>> \o Pressed(q) = Pressed(q)  BY <2>5, ConcatEmptySeq
    <3>2. QED BY <1>0, <2>2, <2>4, <2>6, <3>1 DEF KeysInOrder
  <2>7. CASE ~Released(c)
    <3>1. Append(echoed, c) = echoed \o <<c>>  BY <1>0, <2>3, AppendIsConcat
    <3>2. (echoed \o <<c>>) \o Pressed(q) = echoed \o (<<c>> \o Pressed(q))
      <4>1. <<c>> \in X  BY <2>3
      <4>2. QED BY <1>0, <2>5, <4>1, Joined, SMTT(40)
    <3>3. QED BY <1>0, <2>2, <2>4, <2>7, <3>1, <3>2 DEF KeysInOrder
  <2>8. QED BY <2>6, <2>7
<1>3. CASE ~(KeyTyped \/ KbdCallback)
  <2>1. UNCHANGED <<typed, echoed, kbq>>
    <3>1. CASE KmainStep  BY <1>0, <3>1, KmainRequests
    <3>2. CASE Accept  BY <3>2, AcceptFlight DEF deviceVars
    <3>3. CASE HandlerStep
      BY <1>3, <3>3 DEF HandlerStep, StubEntry, PicAcknowledge, TimerCallback,
         NoCallback, IsrHandler, StubSti, Iret, deviceVars
    <3>4. CASE Device  BY <1>3, <3>4 DEF Device, PitEdge, Pulse
    <3>5. CASE UNCHANGED vars  BY <3>5 DEF vars, deviceVars
    <3>6. QED BY <3>1, <3>2, <3>3, <3>4, <3>5 DEF Next
  <2>2. QED BY <2>1 DEF KeysInOrder
<1>4. QED BY <1>1, <1>2, <1>3

(* No key is lost, repeated or printed out of order between the keyboard   *)
(* and kbd_callback(), however many are held back and however the edges    *)
(* of the keyboard fall, before kbd_init() too.                            *)
THEOREM KeysArriveInOrder == Spec => []KeysInOrder
<1>1. Init => KeysInOrder
  <2>1. ASSUME Init PROVE typed = <<>> /\ kbq = <<>> /\ echoed = <<>>  BY <2>1 DEF Init
  <2>2. <<>> \o <<>> = <<>>  OBVIOUS
  <2>3. QED BY <2>1, <2>2, PressedEmpty DEF KeysInOrder
<1>2. QED
  BY <1>1, KeysStep, KeyboardHasByte, CoreInvariant, RestInvariant, PTL DEF Spec
=============================================================================
