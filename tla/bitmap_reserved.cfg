\* The frames of the kernel after the three loops.
CONSTANTS
  Parts = {"bitmap"}
  WordSize = 16
  HeaderMagic = 11
  LoaderMagic = 12
  Top = 16
  IsrAddress <- MCIsrAddress
  IrqAddress <- MCIrqAddress
  StackTop = 1179648
  Memories <- SomeMemories
  ENTRIES = 6
  TableFrame <- LastFrame

SPECIFICATION Spec
INVARIANT KernelReserved
CHECK_DEADLOCK FALSE
