SPECIFICATION Spec
CONSTANTS
  CMD_BUF_SIZE = 5
  Keys = {"e", "l", "0", "9", " ", "NUL"}
  MaxLatest = 50
  ULONG_MAX = 500
  MaxKeys = 7
  N = 3
  Samples = {0, 1, 3, 7}
  MaxSamples = 8
  Bytes <- MCBytes
  MaxLen = 5
  RETRY_COUNT = 3
  MaxPowerLosses = 1
  Modes = 7
  DEBOUNCE = 5
  Bounce = 5
  MaxPresses = 7
INVARIANTS TypeOK RunsWhatWasTyped LatestMeansN PublishedIsMean CrcIsRemainder PublishedIsMeasured OneStepPerPress
CHECK_DEADLOCK FALSE
