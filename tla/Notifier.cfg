\* Three batches and a limit of two: replaced messages, failing calls, a crash.
CONSTANTS
  b1 = b1
  b2 = b2
  b3 = b3
  o1 = o1
  o2 = o2
  Batch = {b1, b2, b3}
  Order = {o1, o2}
  ordersOf <- MCOrdersOf
  MaxItems = 2
  MaxMessages = 2
  MaxFailures = 1
  MaxCrashes = 1
SPECIFICATION Spec
CHECK_DEADLOCK FALSE
INVARIANTS
  TypeOK
  RecordedWasPublished
  PublishedWasPaid
PROPERTIES
  EventuallyRecorded
