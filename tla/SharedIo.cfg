SPECIFICATION Spec
CONSTANTS
  LockTimeout = 3
  I2cTicks = 1
  FlashTicks = 2
  ProgramTicks = 0
  DumpTicks = 4
  ReadTicks = 1
  Sectors = 2
  FlashFails = TRUE
  Commands = {"erase", "dump"}
  SectorRoom = 0
  MaxBacklog = 1
  AdcPeriod = 0
  MaxUnplugs = 1
INVARIANTS NoOverlap FlashNeverTimesOut EraseKeepsTheBus
