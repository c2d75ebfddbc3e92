SPECIFICATION Spec
CONSTANTS
  mems19 = mems19
  p1 = p1
  p2 = p2
  clear = clear
  SerialTypes <- MCSerialTypes
  Fake = fake
  UnknownType = unknown
  NoType = none
  Ports <- MCPorts
  NoPort = noport
  AdapterLists <- MCAdapterLists
  Commands <- MCCommands
  NoCommand = nocommand
  MinRetryDelay = 1
  MaxRetryDelay = 30
INVARIANT ReachedEcuRetriesSoon
CHECK_DEADLOCK FALSE
