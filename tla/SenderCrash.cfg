\* Two workers, one batch and a crash at any step; no call fails but
\* the query of rebatchExpired.
CONSTANTS
  Batch = {b1}
  Worker = {w1, w2}
  ParallelBatches = 1
  TTL = 1
  ClockSkew = 1
  LastSeqno = 2
  ErrorCountTolerated = 2
  CallMayFail = FALSE
  MaxBoots = 2
  MaxLost = 0
  MaxOther = 1
  MaxTime = 4
  NoMsg = NoMsg
SPECIFICATION Spec
SYMMETRY Symmetry
INVARIANTS
  NothingSkipped
  UniqueIdsPerBoot
  NewIsInFlight
PROPERTIES
  ResubmitOnlyDead
  NumbersInOrder
