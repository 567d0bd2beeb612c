SPECIFICATION Spec
CONSTANTS
  StartAddr = 5
  EndAddr = 15
  SectorSize = 5
  PageSize = 1
  FrameSizes = {2}
  SeqModulus = 10
  Erased = Erased
  Junk = Junk
  MaxGap = 1
  MaxLate = 1
  MaxFaults = 1
INVARIANTS IndexDescribesFlash
PROPERTIES ImplementsEventLog
