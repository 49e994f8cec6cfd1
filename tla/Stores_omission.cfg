CONSTANTS
  Cleaners = {cleaner1}
  Closers = {closer1}
  MaxNow = 3
  MaxFaults = 1
SPECIFICATION Spec
CHECK_DEADLOCK FALSE
INVARIANT OmissionStillPublishes
