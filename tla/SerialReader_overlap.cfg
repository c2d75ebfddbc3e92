SPECIFICATION Spec
CONSTANTS
  MaxCycles = 2
  Capacity = 1
  MaxBytes = 2
  MaxStops = 2
  Stoppers = {1}
INVARIANT StopIsSafe
CHECK_DEADLOCK FALSE
