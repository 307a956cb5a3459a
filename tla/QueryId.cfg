\* 4 shifts of 3 usable bits: every carry, the last shift and the emergency id.
CONSTANTS
  RADIX = 4
  MAX_BIT_NUMBER = 2
  MAX_SHIFT = 3
  NumWorkers = 2
SPECIFICATION Spec
INVARIANTS
  TypeOK
  RestoreIsExact
  EmergencyIdKept
PROPERTIES
  NumbersInOrder
