\* Two batches, failing calls and a crash, under the timing the sender is
\* configured for.
CONSTANTS
  Batch = {b1, b2}
  Worker = {w1, w2}
  ParallelBatches = 1
  TTL = 1
  ClockSkew = 1
  LastSeqno = 3
  ErrorCountTolerated = 2
  CallMayFail = TRUE
  MaxBoots = 2
  MaxLost = 0
  MaxOther = 0
  MaxTime = 5
  NoMsg = NoMsg
SPECIFICATION TimelySpec
SYMMETRY Symmetry
INVARIANTS
  TypeOK
  RecordedBeforeSent
  StatusHasTransaction
PROPERTIES
  PaidAtMostOnce
  SettledForGood
