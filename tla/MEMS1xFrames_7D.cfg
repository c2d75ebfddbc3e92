SPECIFICATION FrameSpec
CONSTANTS
  Kinds = {"7D"}
  MaxSize = 40
  MaxExtra = 2
INVARIANT NoFramePanics
CHECK_DEADLOCK FALSE
