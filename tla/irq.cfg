\* The whole boot: two timer periods, two bytes from the keyboard (presses of two
\* keys, the release of one) and two requests of other lines, any three of these
\* last four; no fairness for kmain except where a property asks for it.
CONSTANTS
  Scancodes  <- TwoKeys
  OtherLines <- MasterAndSlaveLine
  MasterMask <- FloppyMasked
  SlaveMask  <- NoLine
  EarlyKeys  = FALSE
  MaxTicks   = 2
  MaxKeys    = 2
  MaxPulses  = 2
  MaxInputs  = 3

SPECIFICATION IrqFairSpec
INVARIANTS
  TypeOK NeverFaults NoNesting InServiceOwned InterruptsStayOn
  MasksKept NoPhantomTicks KeysInOrder KbdNotStuck
PROPERTIES PanicIsFinal ServesRequests RequestsServed KeysDrained BootEnds
CHECK_DEADLOCK FALSE
