----------------------------- MODULE TrapFrame ------------------------------
(***************************************************************************)
(* What an interrupt leaves on the kernel stack: the words the processor   *)
(* and the stubs push (arch/x86/kernel/interrupt.asm), which C sees as a   *)
(* struct registers_t (include/asm/isr.h) and from which the stubs restore *)
(* the interrupted code, and the report of a page fault, which is read     *)
(* from them (arch/x86/kernel/memory.c).  Memory is an array of words; all *)
(* code runs in ring 0, so the processor never switches stacks.            *)
(***************************************************************************)
EXTENDS Integers, Sequences

CONSTANTS
  Contents,     \* what code may hold in its registers
  Positions,    \* places in code where an interrupt may fall (eip)
  Arithmetic,   \* flags that instructions change
  Exceptions,   \* vectors that the processor raises itself
  Irqs,         \* vectors of the interrupt lines
  StackWords    \* bound on the stack, and so on the depth of nesting

Names == {"eax", "ebx", "ecx", "edx", "esi", "edi", "ebp"}
IF_BIT == 512
KERNEL_CS == 8
KERNEL_DS == 16
PageFault == 14

(* Exceptions that push an error code, in ring 0 without 17; the stubs     *)
(* written for one.                                                        *)
ErrorCode == {8} \cup 10..14
ErrStubs  == {8} \cup 10..14

ASSUME ContentsAssumption  == Contents \subseteq [Names -> Nat]
ASSUME CodeAssumption      == Positions \subseteq Nat /\ Arithmetic \subseteq 0..(IF_BIT - 1)
ASSUME ExceptionAssumption == Exceptions \subseteq 0..31 \ {17} /\ Irqs \subseteq 32..47
ASSUME StackAssumption     == StackWords \in Nat /\ StackWords >= 2

(* Why a page fault happened.                                              *)
Accesses == [present : BOOLEAN, write : BOOLEAN, user : {FALSE},
             reserved : BOOLEAN, fetch : BOOLEAN]

VARIABLES
  at,        \* "code" that may be interrupted, a step of a stub, or "halted"
  reg, eip, eflags, seg, sp,   \* the processor; seg is ds, es, fs and gs
  mem,       \* the words of the stack, which grows to lower numbers
  handlers,  \* vectors registered in interrupt_handlers
  traps,     \* history: what was interrupted, innermost first
  report     \* what print_page_fault() printed, <<>> before

cpu  == <<reg, eip, eflags, seg, sp, mem>>
trapVars == <<at, cpu, handlers, traps, report>>

Address == 0..(StackWords - 1)
MaxFrame == 15     \* words that a trap and the call of its handler push
CallerWords == 2   \* words of whoever called kmain()

TrapInit ==
  /\ at = "code"
  /\ reg \in Contents /\ eip \in Positions
  /\ eflags \in Arithmetic \cup {IF_BIT + a : a \in Arithmetic}
  /\ seg = KERNEL_DS
  /\ sp = StackWords - CallerWords /\ mem = [a \in Address |-> 0]
  /\ handlers \in SUBSET {PageFault}
  /\ traps = <<>> /\ report = <<>>

Top == traps[1]

(* The words, the last one pushed first, go on the stack.                  *)
Push(words) ==
  /\ sp' = sp - Len(words)
  /\ mem' = [a \in Address |->
               IF sp - Len(words) <= a /\ a < sp
               THEN words[a - sp + Len(words) + 1] ELSE mem[a]]

(* Words below the stack pointer are not read again; the model clears them. *)
Pop(n) ==
  /\ sp' = sp + n
  /\ mem' = [a \in Address |-> IF a < sp + n THEN 0 ELSE mem[a]]

Bit(b) == IF b THEN 1 ELSE 0
ErrorWord(access) ==
  Bit(access.present) + 2 * Bit(access.write) + 4 * Bit(access.user)
    + 8 * Bit(access.reserved) + 16 * Bit(access.fetch)

(* The processor pushes and clears IF, because every gate is an interrupt  *)
(* gate.  The error code of any other exception is some selector.          *)
Enter(v, code, access) ==
  /\ at = "code" /\ sp >= MaxFrame
  /\ traps' = <<[vec |-> v, code |-> code, access |-> access, reg |-> reg,
                 eip |-> eip, eflags |-> eflags, seg |-> seg, sp |-> sp,
                 mem |-> mem]>> \o traps
  /\ IF v \in ErrorCode THEN Push(<<code, eip, KERNEL_CS, eflags>>)
                        ELSE Push(<<eip, KERNEL_CS, eflags>>)
  /\ eflags' = eflags % IF_BIT
  /\ at' = "entry"
  /\ UNCHANGED <<reg, eip, seg, handlers, report>>

NoAccess == [present |-> FALSE, write |-> FALSE, user |-> FALSE,
             reserved |-> FALSE, fetch |-> FALSE]

Interrupt == eflags >= IF_BIT /\ \E v \in Irqs : Enter(v, 0, NoAccess)
Fault     == \E v \in Exceptions \ {PageFault} :
               Enter(v, IF v \in ErrorCode THEN KERNEL_CS ELSE 0, NoAccess)
PageFaults == /\ PageFault \in Exceptions
              /\ \E access \in Accesses : Enter(PageFault, ErrorWord(access), access)
-----------------------------------------------------------------------------
Goto(from, to) == at = from /\ at' = to /\ UNCHANGED <<handlers, traps>>

(* Definitions marked "seeded" are deliberate faults, as in Interrupts.    *)
(* Seeded: the stub of vector 14 is declared without an error code.        *)
StubEntryDummy ==
  /\ Goto("entry", "save")
  /\ IF Top.vec \in ErrStubs \ {14} THEN Push(<<Top.vec>>) ELSE Push(<<Top.vec, 0>>)
  /\ UNCHANGED <<reg, eip, eflags, seg, report>>

(* cli, a dummy error code where the processor pushes none, the number.    *)
StubEntry ==
  /\ Goto("entry", "save")
  /\ IF Top.vec \in ErrStubs THEN Push(<<Top.vec>>) ELSE Push(<<Top.vec, 0>>)
  /\ UNCHANGED <<reg, eip, eflags, seg, report>>

(* pusha; "mov ax, ds" leaves the upper half of eax in the word that is    *)
(* pushed.                                                                 *)
Low(word)       == word % 65536
WithLow(word, low) == word - Low(word) + low
SaveState ==
  /\ Goto("save", "call")
  /\ Push(<<WithLow(reg["eax"], seg), reg["edi"], reg["esi"], reg["ebp"], sp,
            reg["ebx"], reg["edx"], reg["ecx"], reg["eax"]>>)
  /\ reg' = [reg EXCEPT !["eax"] = WithLow(WithLow(reg["eax"], seg), KERNEL_DS)]
  /\ seg' = KERNEL_DS
  /\ UNCHANGED <<eip, eflags, report>>

(* irq_handler() or isr_handler() and the callbacks run like any code, and *)
(* may be interrupted by an exception.  The word is the return address.    *)
CallHandler ==
  /\ Goto("call", "code")
  /\ Push(<<0>>)
  /\ reg' \in Contents /\ eip' \in Positions /\ eflags' \in Arithmetic
  /\ UNCHANGED <<seg, report>>

(* struct registers_t, the parameter above the return address.             *)
Field == [ds |-> 1, edi |-> 2, esi |-> 3, ebp |-> 4, esp |-> 5, ebx |-> 6,
          edx |-> 7, ecx |-> 8, eax |-> 9, int_no |-> 10, err_code |-> 11,
          eip |-> 12, cs |-> 13, eflags |-> 14, useresp |-> 15, ss |-> 16]
Regs(field) == mem[sp + Field[field]]

InHandler == at = "code" /\ traps # <<>>
Registered == Regs("int_no") % 256 \in handlers

HandlerReturns ==
  /\ InHandler /\ ~Registered
  /\ Goto("code", "restore")
  /\ Pop(1)
  /\ reg' \in Contents
  /\ UNCHANGED <<eip, eflags, seg, report>>

(* page_fault_callback(): print_page_fault(), then panic().                *)
Masked(bit) == (Regs("err_code") \div bit) % 2 = 1

PageFaultCallback ==
  /\ InHandler /\ Registered
  /\ Goto("code", "halted")
  /\ report' = <<[present |-> Masked(1), write |-> Masked(2), user |-> Masked(4),
                  reserved |-> Masked(8), fetch |-> Masked(16)],
                 [int_no |-> Regs("int_no"), cs |-> Regs("cs"), eip |-> Regs("eip"),
                  esp |-> Regs("esp"), eflags |-> Regs("eflags")]>>
  /\ UNCHANGED cpu
-----------------------------------------------------------------------------
(* Seeded: popa takes the word of esp for that of ebx, which comes next.   *)
RestoreStateShifted ==
  /\ Goto("restore", "sti")
  /\ seg' = Low(mem[sp])
  /\ reg' = [r \in Names |-> mem[sp + Field[r] - (IF r = "ebx" THEN 2 ELSE 1)]]
  /\ Pop(11)
  /\ eflags' \in Arithmetic
  /\ UNCHANGED <<eip, report>>

(* pop ebx and the segment registers, popa, add esp.                       *)
RestoreState ==
  /\ Goto("restore", "sti")
  /\ seg' = Low(mem[sp])
  /\ reg' = [r \in Names |-> mem[sp + Field[r] - 1]]
  /\ Pop(11)
  /\ eflags' \in Arithmetic
  /\ UNCHANGED <<eip, report>>

StubSti ==
  /\ Goto("sti", "iret")
  /\ eflags' = IF_BIT + eflags
  /\ UNCHANGED <<reg, eip, seg, sp, mem, report>>

(* The instruction after sti is not interrupted.                           *)
Iret ==
  /\ at = "iret" /\ at' = "code"
  /\ eip' = mem[sp] /\ eflags' = mem[sp + 2] /\ Pop(3)
  /\ traps' = Tail(traps)
  /\ UNCHANGED <<reg, seg, handlers, report>>

TrapNext == \/ Interrupt \/ Fault \/ PageFaults
        \/ StubEntry \/ SaveState \/ CallHandler
        \/ HandlerReturns \/ PageFaultCallback
        \/ RestoreState \/ StubSti \/ Iret

TrapSpec == TrapInit /\ [][TrapNext]_trapVars
-----------------------------------------------------------------------------
TrapTypeOK ==
  /\ at \in {"code", "entry", "save", "call", "restore", "sti", "iret", "halted"}
  /\ reg \in [Names -> Nat] /\ eip \in Nat /\ eflags \in 0..(2 * IF_BIT - 1)
  /\ seg = KERNEL_DS
  /\ sp \in 0..StackWords /\ mem \in [Address -> Nat]
  /\ handlers \subseteq {PageFault}

(* Interrupted code cannot tell that it was interrupted: iret finds its    *)
(* registers, flags, position and every word of its stack, whatever the    *)
(* handler did and however many exceptions interrupted the handler.        *)
Restored ==
  [][Len(traps') < Len(traps) =>
       /\ reg' = Top.reg /\ eip' = Top.eip /\ eflags' = Top.eflags
       /\ seg' = Top.seg /\ sp' = Top.sp
       /\ \A a \in Address : a >= Top.sp => mem'[a] = Top.mem[a]]_trapVars

(* A handler finds every field of struct registers_t where isr.h says.     *)
(* The upper half of ds is that of eax; esp is that of the stub, below the *)
(* five words pushed before pusha.                                         *)
FieldsMatch ==
  InHandler =>
    /\ \A r \in Names : Regs(r) = Top.reg[r]
    /\ Low(Regs("ds")) = Top.seg /\ Regs("esp") = Top.sp - 5
    /\ Regs("int_no") = Top.vec /\ Regs("err_code") = Top.code
    /\ Regs("eip") = Top.eip /\ Regs("cs") = KERNEL_CS /\ Regs("eflags") = Top.eflags

(* A page fault is reported as what it was, and with the place it came     *)
(* from, and nothing else is reported as one.                              *)
ReportTellsTheTruth ==
  report # <<>> =>
    /\ Top.vec = PageFault /\ report[1] = Top.access
    /\ report[2] = [int_no |-> PageFault, cs |-> KERNEL_CS, eip |-> Top.eip,
                    esp |-> Top.sp - 5, eflags |-> Top.eflags]
=============================================================================
