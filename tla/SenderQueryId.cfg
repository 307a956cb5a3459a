\* What the comment of Wallet.init says of the restored query id.
CONSTANTS
  Batch = {b1, b2}
  Worker = {w1, w2}
  ParallelBatches = 2
  TTL = 1
  ClockSkew = 1
  LastSeqno = 2
  ErrorCountTolerated = 1
  CallMayFail = FALSE
  MaxBoots = 2
  MaxLost = 0
  MaxOther = 0
  MaxTime = 4
  NoMsg = NoMsg
SPECIFICATION Spec
SYMMETRY Symmetry
PROPERTIES
  QueryIdRestored
