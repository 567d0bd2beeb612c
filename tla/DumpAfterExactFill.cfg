SPECIFICATION Spec
CONSTANTS
  StartAddr = 8
  EndAddr = 20
  SectorSize = 4
  PageSize = 2
  FrameSizes = {2}
  SeqModulus = 16
  Erased = Erased
  Junk = Junk
  MaxGap = 0
  MaxLate = 0
  MaxFaults = 1
INVARIANT DumpSendsAllOldestFirst
