SPECIFICATION Spec
CONSTANTS
  StartAddr = 5
  EndAddr = 20
  SectorSize = 5
  PageSize = 5
  FrameSizes = {2, 4}
  SeqModulus = 14
  Erased = Erased
  Junk = Junk
  MaxGap = 0
  MaxLate = 0
  MaxFaults = 1
INVARIANTS TypeOK IndexMatchesFlash DumpSendsAllOldestFirst DumpSendsLatest
PROPERTIES FramesLostOnlyToErase OneScarCostsOneEvent
