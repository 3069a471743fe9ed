\* printk(), itoa(), the unbuilt printk(), memset() and the bit scans, each by itself.
CONSTANTS
  Parts = {"printk", "itoa", "old", "primitives"}
  Messages <- MCMessages
  IrqMessages <- MCIrqMessages
  W = 10
  Bases <- PrintkBases
  WordBits = 16
  BufSize = 16
  OldMessages <- MCOldMessages
  Size = 16
  Bits = 4
  Values <- MCValues

SPECIFICATION Spec
INVARIANTS
  InBounds PrintsItsMeaning ArgumentsMatch ReadsBack PrintsItsText Postconditions
CHECK_DEADLOCK FALSE
