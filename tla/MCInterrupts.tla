---------------------------- MODULE MCInterrupts ----------------------------
(* Instances of Interrupts for TLC.                                        *)
EXTENDS Interrupts

TwoKeys       == {30, 48, 158}  \* A and B pressed, A released
OneKey        == {30}
MasterAndSlaveLine == {7, 12}   \* shares its vector with the spurious one; the mouse
SlaveLines    == {12, 15}
NoLine        == {}
FloppyMasked  == {6}
=============================================================================
