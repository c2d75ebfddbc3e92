SPECIFICATION MCFairSpec
CONSTANTS
  MaxCycles = 2
  Capacity = 1
  MaxBytes = 2
  MaxStops = 2
  Stoppers = {1}
  Kinds = {"80"}
  MaxSize = 40
  MaxExtra = 2
  MaxLength = 16
  Seeds <- Word
INVARIANT PortIsReceived
INVARIANT StopIsSafeApart
PROPERTY StoppedReaderExits
INVARIANT NoFramePanics
INVARIANT NoReplyPanics
INVARIANT KeyIsTheEcus
CHECK_DEADLOCK FALSE
