\* A key typed before kbd_init() has registered its handler.
CONSTANTS
  Scancodes  <- OneKey
  OtherLines <- NoLine
  MasterMask <- NoLine
  SlaveMask  <- NoLine
  EarlyKeys  = TRUE
  MaxTicks   = 1
  MaxKeys    = 2
  MaxPulses  = 0
  MaxInputs  = 2

SPECIFICATION Spec
INVARIANT KbdNotStuck
CHECK_DEADLOCK FALSE
