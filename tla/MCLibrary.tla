----------------------------- MODULE MCLibrary ------------------------------
(* The routines that keep nothing between calls: printk(), itoa(), the     *)
(* printk() that is not built, memset() and the bit scans.  They share no  *)
(* state, so that one run looks at each by itself: part says at which.     *)
EXTENDS Printk, Numbers, OldPrintk, Primitives

CONSTANT Parts

VARIABLE part

allVars == <<part, printkVars, itoaVars, oldVars, memVars>>

(* Every message of the kernel, and every short format besides.            *)
Formats   == UNION {[1..k -> {"t", "%", "d", "p", "z"}] : k \in 0..4}
AnyFormat == {Message(f, <<"num", "num">>) : f \in Formats}
MCMessages    == Sites \cup AnyFormat
MCIrqMessages == {Key, IrqCall, Message(<<"%">>, <<>>)}

(* The bases printk() knows: %b, %d and %u, %x and %p.                     *)
PrintkBases == {2, 10, 16}

(* For the old printk() every conversion with every size, of the words at  *)
(* which a digit or the sign changes, and the messages of panic() and      *)
(* panic_assert().                                                         *)
SomeWords == {0, 1, 9, 10, 15, 16, 99, 100, 32767, 32768, 65436, 65526, 65535}
Sizes     == {0} \cup {3, 4, 8, 9}

OldMessage(fmt, args) == [fmt |-> fmt, args |-> args]

NumberMessages ==
  {OldMessage(<<"%">> \o (IF size = 0 THEN <<>> ELSE <<DigitChars[size + 1]>>) \o <<c>>, <<v>>) :
     c \in {"d", "u", "x", "X", "p"}, size \in Sizes, v \in SomeWords}

PanicMessages == {OldMessage(PanicFmt, <<<<"f">>, line, <<"m">>>>) : line \in SomeWords}

OtherMessages ==
  {OldMessage(<<"%", "c", "%", "9", "z", "%", "5", "u">>, <<"a", 7>>), OldMessage(HaltFmt, <<>>)}

MCOldMessages == NumberMessages \cup PanicMessages \cup OtherMessages

(* Values of either sign, and of more than a byte.                         *)
MCValues == {-1, 0, 65, 321}

Init ==
  /\ part \in Parts
  /\ n \in IF part = "itoa" THEN 0..(2^W - 1) ELSE {0}
  /\ base \in IF part = "itoa" THEN Bases ELSE {10}
  /\ msg \in IF part = "old" THEN OldMessages ELSE {CHOOSE m \in OldMessages : TRUE}
  /\ PrintkInit /\ ItoaInit /\ OldInit /\ PrimInit

Next ==
  \/ part = "printk" /\ PrintkNext /\ UNCHANGED <<part, itoaVars, oldVars, memVars>>
  \/ part = "itoa" /\ ItoaNext /\ UNCHANGED <<part, printkVars, oldVars, memVars>>
  \/ part = "old" /\ OldNext /\ UNCHANGED <<part, printkVars, itoaVars, memVars>>
  \/ part = "primitives" /\ PrimNext /\ UNCHANGED <<part, printkVars, itoaVars, oldVars>>

Spec == Init /\ [][Next]_allVars

(* No routine leaves its format, its buffer or the frames it has.          *)
InBounds == PrintkTypeOK /\ StaysInFormat /\ FitsBuffer /\ OldTypeOK /\ PrimTypeOK
=============================================================================
