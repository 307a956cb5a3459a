\* What the comment of RegisterWorker says of a channel that is created again.
CONSTANTS
  t1 = t1
  t2 = t2
  t3 = t3
  m1 = m1
  m2 = m2
  m3 = m3
  m4 = m4
  Transfer = {t1}
  Msg = {m1}
  transfersOf <- MCTransfersOf
  Repeating = {}
  BatchSize = 1
  ParallelBatches = 1
  ChannelMayClose = TRUE
  MaxConns = 1
  MaxFailures = 0
  MaxCrashes = 0
  NoMsg = NoMsg
SPECIFICATION LiveSpec
CHECK_DEADLOCK FALSE
PROPERTIES
  ChannelRecreated
