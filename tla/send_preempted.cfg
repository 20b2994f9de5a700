SPECIFICATION Spec
CONSTANTS
  MaxSends = 2
  MaxFaults = 0
  MaxFilters = 0
  Preemptive = TRUE
INVARIANTS
  FramesIntact
CHECK_DEADLOCK FALSE
