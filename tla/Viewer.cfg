SPECIFICATION Spec
CONSTANTS
  MAGIC0 = 3
  MAGIC1 = 4
  MaxByte = 4
  Payloads <- MCPayloads
  CrcBytes = {4}
  MaxSeq = 2
  MaxDamage = 2
  MaxSent = 3
INVARIANTS StatsMatchFirmware DamageCostsFew
CHECK_DEADLOCK FALSE
