\* What the comment of NextBatch says of two statements.
CONSTANTS
  t1 = t1
  t2 = t2
  t3 = t3
  m1 = m1
  m2 = m2
  m3 = m3
  m4 = m4
  Transfer = {t1, t2}
  Msg = {m1}
  transfersOf <- MCTransfersOf
  Repeating = {}
  BatchSize = 2
  ParallelBatches = 1
  ChannelMayClose = TRUE
  MaxConns = 2
  MaxFailures = 1
  MaxCrashes = 1
  NoMsg = NoMsg
SPECIFICATION Spec
SYMMETRY Symmetry
CHECK_DEADLOCK FALSE
PROPERTIES
  AtomicNextBatch
