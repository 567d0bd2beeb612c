SPECIFICATION Spec
CONSTANTS
  Producers = {adc}
  QueueLength = 2
  MaxEvents = 4
  MaxCrashes = 1
INVARIANTS DumpAlwaysOldestFirst
CHECK_DEADLOCK FALSE
