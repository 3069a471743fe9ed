------------------------------ MODULE Pic8259 ------------------------------
(***************************************************************************)
(* The 8259A interrupt controller as the kernel drives it.  The chip is    *)
(* hardware, not code of the repository: it is modelled from the port      *)
(* writes of pic_remap() and pic_acknowledge() (arch/x86/kernel/irq.c) and *)
(* from the vectors the IRQ stubs expect.  The operators are pure; a chip  *)
(* is a record                                                             *)
(*   irr   lines whose request is latched (edge triggered),                *)
(*   isr   lines in service, that is acknowledged and waiting for an EOI,  *)
(*   imr   masked lines,                                                   *)
(*   base  vector of line 0,                                               *)
(*   icw   which initialization word the data port expects next.           *)
(***************************************************************************)
EXTENDS Integers, FiniteSetsExt

ICW1    == 17     \* 0x11: start the initialization, cascaded, ICW4 follows
PIC_EOI == 32     \* 0x20: non-specific end of interrupt

Inputs  == 0..7
Cascade == 2      \* the input of the master that the slave drives

Chip == [irr : SUBSET Inputs, isr : SUBSET Inputs, imr : SUBSET Inputs,
         base : Nat, icw : {"ready", "icw2", "icw3", "icw4"}]

(***************************************************************************)
(* A write to the command port.  ICW1 forgets every latched request: the   *)
(* edge detector is reset, and a line that is already high has to fall and *)
(* rise again before it is seen.  A non-specific EOI retires the line of   *)
(* highest priority among those in service, whichever that is.             *)
(***************************************************************************)
Command(chip, value) ==
  CASE value = ICW1 ->
         [chip EXCEPT !.irr = {}, !.isr = {}, !.imr = {}, !.icw = "icw2"]
    [] value = PIC_EOI /\ chip.isr # {} ->
         [chip EXCEPT !.isr = @ \ {Min(@)}]
    [] OTHER -> chip

(* A write to the data port: the next initialization word, or the mask.    *)
Data(chip, value) ==
  CASE chip.icw = "icw2"  -> [chip EXCEPT !.base = value, !.icw = "icw3"]
    [] chip.icw = "icw3"  -> [chip EXCEPT !.icw = "icw4"]
    [] chip.icw = "icw4"  -> [chip EXCEPT !.icw = "ready"]
    [] chip.icw = "ready" -> [chip EXCEPT !.imr = value]

(* A rising edge on input i.                                               *)
Latch(chip, i) == [chip EXCEPT !.irr = @ \cup {i}]

(* Fully nested priorities: a line in service blocks itself and every line *)
(* of lower priority.                                                      *)
Eligible(chip, lines) ==
  {i \in lines \ chip.imr : \A j \in chip.isr : i < j}

(* The CPU acknowledges input i: it moves from requested to in service.    *)
Acknowledge(chip, i) == [chip EXCEPT !.irr = @ \ {i}, !.isr = @ \cup {i}]

(* The request of input i is gone when the CPU acknowledges it: the chip   *)
(* answers with the vector of input 7 and puts nothing in service.         *)
Withdraw(chip, i) == [chip EXCEPT !.irr = @ \ {i}]
SpuriousInput     == 7
=============================================================================
