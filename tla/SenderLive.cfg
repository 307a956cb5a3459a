\* Every batch is settled: a lost message, a crash, restored query ids.
CONSTANTS
  Batch = {b1, b2}
  Worker = {w1}
  ParallelBatches = 1
  TTL = 1
  ClockSkew = 1
  LastSeqno = 8
  ErrorCountTolerated = 1
  CallMayFail = FALSE
  MaxBoots = 2
  MaxLost = 1
  MaxOther = 0
  MaxTime = 20
  NoMsg = NoMsg
SPECIFICATION LiveSpec
PROPERTIES
  EventuallySettled
