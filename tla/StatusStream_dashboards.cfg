SPECIFICATION FairSpec
CONSTANTS
  Browsers = {b1, b2}
  MaxLogLines = 2
  MaxLines = 3
  MaxAlerts = 2
  MaxRestarts = 1
  MaxDisconnects = 1
INVARIANT TypeOK
INVARIANT RingHoldsTheLatest
INVARIANT NoLineSentTwice
PROPERTY GapsOnlyOnOverrun
PROPERTY LastAlertReachesEveryone
CHECK_DEADLOCK FALSE
