SPECIFICATION Spec
CONSTANTS
  Frontends = {f1}
  Lengths <- MCTwoLengths
  MaxFragmentPayload = 2
  Capacity = 2
  MaxCommands = 1
  MaxRequests = 1
INVARIANT PhoneIsCurrent
CHECK_DEADLOCK FALSE
