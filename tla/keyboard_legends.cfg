\* The keys, against what the comments say of them.
CONSTANTS
  Parts = {"keyboard"}
  Contents <- SomeContents
  Positions <- SomePositions
  Arithmetic <- SomeArithmetic
  Exceptions <- SomeExceptions
  Irqs = {32, 39, 47}
  StackWords = 32
  WordSize = 3
  TscSize = 8
  SomeTime = 3
  Jump = 2
  Frequencies <- SomeFrequencies
  MaxTicks = 10
  Keys <- SomeKeys
  Buffer = 2
  MaxEvents = 3

SPECIFICATION Spec
INVARIANT PrintsWhatIsTyped
CHECK_DEADLOCK FALSE
