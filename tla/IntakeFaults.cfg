\* Lost connections and acknowledgements, failing calls, closed channels, a
\* crash, an order of two transfers and a message that does not parse.
CONSTANTS
  t1 = t1
  t2 = t2
  t3 = t3
  m1 = m1
  m2 = m2
  m3 = m3
  m4 = m4
  Transfer = {t1, t2}
  Msg = {m1, m4}
  transfersOf <- MCTransfersOf
  Repeating = {}
  BatchSize = 1
  ParallelBatches = 1
  ChannelMayClose = TRUE
  MaxConns = 2
  MaxFailures = 1
  MaxCrashes = 1
  NoMsg = NoMsg
SPECIFICATION LiveSpec
CHECK_DEADLOCK FALSE
INVARIANTS
  TypeOK
  AckedAreStored
  InOneBatch
PROPERTIES
  EventuallyBatched
