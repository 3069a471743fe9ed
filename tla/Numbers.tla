------------------------------- MODULE Numbers ------------------------------
(***************************************************************************)
(* How the console prints a number: vga_write_number() hands an unsigned   *)
(* word to itoa() (libkern/stdlib.c), whose parameter is signed.  The      *)
(* string is a sequence of digits and marks, in the order of memory.       *)
(***************************************************************************)
EXTENDS Integers, Sequences

CONSTANTS
  W,        \* bits of a word (32)
  Bases     \* the bases the console prints in (2, 10 and 16)

ASSUME WordAssumption == W \in Nat \ {0, 1} /\ Bases \subseteq 2..36

VARIABLES
  pc,       \* what itoa() does next
  n, base,  \* what was to be printed, and how
  value,    \* what is left to convert
  str,      \* the buffer up to ptr
  low, high \* the two pointers of the inversion

itoaVars == <<pc, n, base, value, str, low, high>>

Minus == -1
Nul   == -2
Abs(a) == IF a < 0 THEN -a ELSE a

(* The conversion of uint32_t to int, and the division and the remainder   *)
(* of C, which round towards zero.                                         *)
Signed(u) == IF u < 2^(W - 1) THEN u ELSE u - 2^W

(* Definitions marked "seeded" are deliberate faults, as in Interrupts.    *)

(* Seeded: the division rounds down, as a shift would.                     *)
QuotientDown(a, b) == a \div b

Quotient(a, b)  == IF a < 0 THEN -((-a) \div b) ELSE a \div b
Remainder(a, b) == a - b * Quotient(a, b)

ItoaInit ==
  /\ pc = "sign"
  /\ n \in 0..(2^W - 1) /\ base \in Bases
  /\ value = Signed(n)
  /\ str = <<>> /\ low = 1 /\ high = 0

Sign ==
  /\ pc = "sign" /\ pc' = "digits"
  /\ IF value < 0 /\ base = 10
     THEN str' = <<Minus>> /\ low' = 2
     ELSE UNCHANGED <<str, low>>
  /\ UNCHANGED <<n, base, value, high>>

(* The table of digits is symmetric around the digit 0.                    *)
Digit(r) == Abs(r)

Convert ==
  /\ pc = "digits"
  /\ str' = Append(str, Digit(Remainder(value, base)))
  /\ value' = Quotient(value, base)
  /\ pc' = IF value' = 0 THEN "end" ELSE "digits"
  /\ UNCHANGED <<n, base, low, high>>

Terminate ==
  /\ pc = "end" /\ pc' = "invert"
  /\ str' = Append(str, Nul)
  /\ high' = Len(str)
  /\ UNCHANGED <<n, base, value, low>>

(* Seeded: the pointers meet one step too early.                           *)
InvertShort ==
  /\ pc = "invert"
  /\ IF low + 1 < high
     THEN /\ str' = [str EXCEPT ![low] = str[high], ![high] = str[low]]
          /\ low' = low + 1 /\ high' = high - 1
          /\ UNCHANGED pc
     ELSE pc' = "done" /\ UNCHANGED <<str, low, high>>
  /\ UNCHANGED <<n, base, value>>

Invert ==
  /\ pc = "invert"
  /\ IF low < high
     THEN /\ str' = [str EXCEPT ![low] = str[high], ![high] = str[low]]
          /\ low' = low + 1 /\ high' = high - 1
          /\ UNCHANGED pc
     ELSE pc' = "done" /\ UNCHANGED <<str, low, high>>
  /\ UNCHANGED <<n, base, value>>

ItoaNext == Sign \/ Convert \/ Terminate \/ Invert

ItoaSpec == ItoaInit /\ [][ItoaNext]_itoaVars
-----------------------------------------------------------------------------
(* What a reader makes of the string: the digits before the mark of the    *)
(* end, the first one the most significant, and perhaps a sign.            *)
Negative == str[1] = Minus
DigitsOf == SubSeq(str, IF Negative THEN 2 ELSE 1, Len(str) - 1)
Magnitude ==
  LET read[k \in 0..Len(DigitsOf)] == IF k = 0 THEN 0 ELSE read[k - 1] * base + DigitsOf[k]
  IN read[Len(DigitsOf)]
Reading   == IF Negative THEN -Magnitude ELSE Magnitude

(* itoa() writes the number it is given, the unsigned word taken as a      *)
(* signed one: with a sign in base 10, its absolute value in the other     *)
(* bases, and never a leading zero.                                        *)
ReadsBack ==
  pc = "done" =>
    /\ Reading = IF base = 10 THEN Signed(n) ELSE Abs(Signed(n))
    /\ str[Len(str)] = Nul /\ \A k \in DOMAIN DigitsOf : DigitsOf[k] \in 0..(base - 1)
    /\ DigitsOf[1] = 0 => Len(DigitsOf) = 1

(* A digit for every bit and the mark of the end are the most that is      *)
(* written: half of the 65 characters vga_write_number() provides.         *)
FitsBuffer == Len(str) <= W + 1
=============================================================================
