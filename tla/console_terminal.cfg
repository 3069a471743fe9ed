SPECIFICATION Spec
CONSTANTS
  COLS = 3
  ROWS = 2
  TAB = 2
  RADIX = 3
  MaxPrints = 4
  MaxIrqs = 0
  KmainChars <- AllChars
  IrqChars <- NoChars
CHECK_DEADLOCK FALSE
PROPERTY IsTerminal
