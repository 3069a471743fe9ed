\* Handoff, descriptor tables, frame bitmap and page tables, each by itself.
CONSTANTS
  Parts = {"handoff", "descriptors", "bitmap", "tables"}
  WordSize = 16
  HeaderMagic = 11
  LoaderMagic = 12
  Top = 16
  IsrAddress <- MCIsrAddress
  IrqAddress <- MCIrqAddress
  StackTop = 1179648
  Memories <- SomeMemories
  ENTRIES = 6
  TableFrame <- LastFrame

SPECIFICATION Spec
INVARIANTS
  HeaderServes ParametersArrive FieldsAreTheLoaders
  SegmentsFlat DeliveredToItsStub
   ReturnsOrFaults
  SwitchIsTransparent OnlyFirstTable
CHECK_DEADLOCK FALSE
