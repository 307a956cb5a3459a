\* What main's comment says of the signals.
CONSTANTS
  Worker = {w1, w2}
  ParallelBatches = 1
  Request = {}
  PingAttempts = 1
  WriteTimeout = 1
  ShutdownTimeout = 3
  MaxList = 1
SPECIFICATION LiveSpec
CHECK_DEADLOCK FALSE
PROPERTIES
  GracefulShutdown
