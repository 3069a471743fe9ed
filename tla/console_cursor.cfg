SPECIFICATION Spec
CONSTANTS
  COLS = 2
  ROWS = 2
  TAB = 2
  RADIX = 3
  MaxPrints = 3
  MaxIrqs = 2
  KmainChars <- LineChars
  IrqChars <- KeyChars
CHECK_DEADLOCK FALSE
INVARIANT CursorUpdated
