SPECIFICATION Spec
CONSTANTS
  StartAddr = 8
  EndAddr = 32
  SectorSize = 8
  PageSize = 4
  FrameSizes = {3}
  SeqModulus = 16
  Erased = Erased
  Junk = Junk
  MaxGap = 0
  MaxLate = 0
  MaxFaults = 1
INVARIANTS BusyImpliesMaintenance
