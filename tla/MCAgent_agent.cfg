SPECIFICATION FairSpec
CONSTANTS
  mems19 = mems19
  p1 = p1
  p2 = p2
  clear = clear
  SerialTypes <- MCSerialTypes
  Fake = fake
  UnknownType = unknown
  NoType = none
  Ports <- MCPorts
  NoPort = noport
  AdapterLists <- MCAdapterLists
  Commands <- MCCommands
  NoCommand = nocommand
  MinRetryDelay = 1
  MaxRetryDelay = 3
INVARIANT TypeOK
INVARIANT ConnectedHasSession
INVARIANT PortIsReleased
INVARIANT ExitIsClean
PROPERTY ShutdownCompletes
PROPERTY NoAdapterBacksOff
CHECK_DEADLOCK FALSE
