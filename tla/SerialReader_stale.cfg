SPECIFICATION Spec
CONSTANTS
  MaxCycles = 2
  Capacity = 1
  MaxBytes = 2
  MaxStops = 2
  Stoppers = {}
INVARIANT NoStaleBytes
CHECK_DEADLOCK FALSE
