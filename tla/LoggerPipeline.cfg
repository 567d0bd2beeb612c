SPECIFICATION FairSpec
CONSTANTS
  Producers = {adc, temp}
  QueueLength = 2
  MaxEvents = 4
  MaxCrashes = 1
INVARIANTS EveryLossCounted ProducerOrderKept DumpOldestFirst StoredSeqsDistinct PausedEraseIsClean
PROPERTIES LoggerComesBack EraseEnds
CHECK_DEADLOCK FALSE
