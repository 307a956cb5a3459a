\* What the comment of rebatchExpired says of the batches it takes.
CONSTANTS
  Batch = {b1}
  Worker = {w1}
  ParallelBatches = 1
  TTL = 1
  ClockSkew = 1
  LastSeqno = 2
  ErrorCountTolerated = 1
  CallMayFail = FALSE
  MaxBoots = 1
  MaxLost = 0
  MaxOther = 0
  MaxTime = 4
  NoMsg = NoMsg
SPECIFICATION Spec
SYMMETRY Symmetry
PROPERTIES
  ResentUnconfirmed
