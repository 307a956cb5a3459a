\* Signals, errors and open requests at every point of the process' life.
CONSTANTS
  Worker = {w1}
  ParallelBatches = 1
  Request = {r1}
  PingAttempts = 2
  WriteTimeout = 1
  ShutdownTimeout = 2
  MaxList = 1
SPECIFICATION LiveSpec
CHECK_DEADLOCK FALSE
INVARIANTS
  TypeOK
  Drained
PROPERTIES
  EndsTogether
  StuckForGood
