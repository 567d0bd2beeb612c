SPECIFICATION FairSpec
CONSTANTS
  LockTimeout = 2
  I2cTicks = 0
  FlashTicks = 1
  ProgramTicks = 0
  DumpTicks = 0
  ReadTicks = 0
  Sectors = 2
  FlashFails = FALSE
  Commands = {"erase"}
  SectorRoom = 2
  MaxBacklog = 1
  AdcPeriod = 2
  MaxUnplugs = 1
INVARIANTS SensorsGetTheBus
PROPERTIES SensorRecovers
