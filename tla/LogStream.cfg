SPECIFICATION FairStreamSpec
CONSTANTS
  TxSize = 8
  ChunkMax = 3
  NoByte = NoByte
  l1 = l1
  l2 = l2
  l3 = l3
  m1 = m1
  m2 = m2
  m3 = m3
  m4 = m4
  m5 = m5
  d1 = d1
  d2 = d2
  Bytes = {l1, l2, l3, m1, m2, m3, m4, m5, d1, d2}
  Frames <- MCFrames
  DumpFrames <- MCDumpFrames
  MaxBacklog = 2
  MaxDump = 4
INVARIANTS TypeOK ChunkInFlight LiveFramesWhole DumpNotInterleaved MaskedOnlyWhileDropping
PROPERTIES ImplementsFifo LineNeverStalls DumpCompletes
