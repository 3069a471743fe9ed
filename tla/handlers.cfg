\* Frames on the stack, the tick counter and the keys, each by itself.
CONSTANTS
  Parts = {"frame", "clock", "keyboard"}
  Contents <- SomeContents
  Positions <- SomePositions
  Arithmetic <- SomeArithmetic
  Exceptions <- SomeExceptions
  Irqs = {32, 39, 47}
  StackWords = 32
  WordSize = 3
  TscSize = 8
  SomeTime = 3
  Jump = 2
  Frequencies <- SomeFrequencies
  MaxTicks = 10
  Keys <- SomeKeys
  Buffer = 2
  MaxEvents = 3

SPECIFICATION Spec
INVARIANTS
  FieldsMatch RateIsRight ReturnedOrTorn LegendsInOrder
PROPERTIES Restored WaitsEnd
CHECK_DEADLOCK FALSE
